SPECIFICATION Spec
CONSTANTS
    router = router
    applesauce = applesauce
    cherrypie = cherrypie
    default_router = default_router
    hs_router = hs_router
    dm42 = dm42
    dm43 = dm43
    Nobody = Nobody
    Nodes <- SimulatorNodes
    Hosts <- SimulatorHosts
    InterfacesOf <- SimulatorInterfaces
    RoutesOf <- SimulatorRoutes
    NextHopOf <- SimulatorNextHop
    Links <- SimulatorLinks
    Traffic <- Crosswise
    Destination <- SimulatorDestination
    Width = 6
    Direct = Direct
    TimeMod = 8
    ArpRetry = 2
    CacheTTL = 3
    Broadcast = Broadcast
    ZeroAddress = ZeroAddress
    Garbled = Garbled
    Erasures = {"intended"}
INVARIANT NothingUnexpected
PROPERTIES EverythingArrives NobodysDatagramStops
CHECK_DEADLOCK FALSE
