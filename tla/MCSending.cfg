CONSTANTS
  MaxInt = 16
  MAX_PAYLOAD_SIZE = 2
  rt_timeout = 2
  SendCapacity = 3
  Isn = 14
  MaxBytes = 4
  MaxWindow = 4
  MaxRetx = 2
SPECIFICATION FairSpec
INVARIANTS FlightTiled WindowRespected TimerAndBackoff
PROPERTIES NothingTakenBack FlightResolved
