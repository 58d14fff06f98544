CONSTANTS
  MaxInt = 8
  MaxSeqno = 24
SPECIFICATION SpaceSpec
INVARIANTS UnwrapIsClosest
CHECK_DEADLOCK FALSE
