CONSTANTS
  Client = client
  Server = server
  MaxInt = 16
  MAX_PAYLOAD_SIZE = 1
  rt_timeout = 3
  UINT16_MAX = 2
  MAX_RETX_ATTEMPTS = 3
  LingerTimeouts = 4
  RecvCapacity <- C3S3
  SendCapacity <- C3S3
  Isn <- NearWrap
  MaxBytes <- C1S0
  MaxInTransit <- C9S9
  Enders = {client, server}
  MaxLosses = 2
SPECIFICATION TSpec
INVARIANT NoFalseAbort
PROPERTIES AllDelivered BothClose
CHECK_DEADLOCK FALSE
