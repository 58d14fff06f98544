CONSTANTS
  Client = client
  Server = server
  MaxInt = 16
  MAX_PAYLOAD_SIZE = 1
  rt_timeout = 1
  UINT16_MAX = 2
  MAX_RETX_ATTEMPTS = 1
  LingerTimeouts = 1
  RecvCapacity <- C2S2
  SendCapacity <- C2S2
  Isn <- NearWrap
  MaxBytes <- C2S0
  MaxInTransit <- C2S1
  Enders = {client, server}
SPECIFICATION Spec
INVARIANTS AckedIsAssembled WindowNeverOverrun CleanCloseMeansDelivered
PROPERTIES BothWaysReliable OfficialMoves
CHECK_DEADLOCK FALSE
