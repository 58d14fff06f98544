SPECIFICATION Spec
CONSTANTS
    a = a
    b = b
    c = c
    Hosts = {a, b}
    Datagrams <- BothWays
    Steps = {1}
    MaxOut = 2
    MaxLosses = Unlimited
    Unlimited = Unlimited
    Paced = FALSE
    TimeMod = 3
    ArpRetry = 1
    CacheTTL = 2
    Broadcast = Broadcast
    ZeroAddress = ZeroAddress
    Garbled = Garbled
    Erasures = {"intended", "mapping kept", "crash"}
INVARIANTS ReachesItsHop OneCopy KeptThirtySeconds
PROPERTIES NeverForgotten RequestsSpaced
CHECK_DEADLOCK FALSE
