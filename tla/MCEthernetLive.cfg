SPECIFICATION LiveSpec
CONSTANTS
    a = a
    b = b
    c = c
    Hosts = {a, b}
    Datagrams <- OneWay
    Steps = {1}
    MaxOut = 2
    MaxLosses = 1
    Unlimited = Unlimited
    Paced = TRUE
    TimeMod = 4
    ArpRetry = 2
    CacheTTL = 3
    Broadcast = Broadcast
    ZeroAddress = ZeroAddress
    Garbled = Garbled
    Erasures = {"intended"}
INVARIANT GoneAfterThirtySeconds
PROPERTIES WaitingIsSent
CHECK_DEADLOCK FALSE
