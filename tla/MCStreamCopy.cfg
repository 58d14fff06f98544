CONSTANTS
  PipeSize = 1
  Capacity = 2
  MaxTyped = 2
  MaxSent = 2
  Resets = TRUE
SPECIFICATION LiveSpec
INVARIANTS CopiedInOrder EndsBehindTheBytes
PROPERTY ProgramEnds
CHECK_DEADLOCK FALSE
