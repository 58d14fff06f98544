SPECIFICATION Spec
CONSTANTS
    server = server
    alice = alice
    bob = bob
    Server = server
    Clients = {alice, bob}
    Kinds = {"udp", "tun", "tap", "lab7"}
    AddressOf <- MCAddressOf
    Segments <- MCSegments
    Flips = {17}
    Cuts = {1, 4}
    TimeMod = 2
    ArpRetry = 1
    CacheTTL = 1
    Broadcast <- MCBroadcast
    ZeroAddress <- MCZeroAddress
    Garbled = Garbled
    Erasures = {"intended"}
INVARIANTS OnlyWhatWasWritten IntactIsPassedUp
PROPERTY BoundByOneSyn
CHECK_DEADLOCK FALSE
