CONSTANTS
  MaxInt = 16
  Byte = {1, 2, 3, 4, 5, 6, 7}
  Source <- MCSource
  Capacity = 6
SPECIFICATION FairSpec
INVARIANTS AssembledIsPrefix SegmentsSeparated CapacityRespected
  EndsOnlyWhenComplete EndIsNotMissed LoopAgrees
PROPERTIES NothingForgotten AllDelivered
