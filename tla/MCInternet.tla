------------------------------ MODULE MCInternet ------------------------------
(***************************************************************************)
(* The network of apps/network_simulator.cc:208-247 with addresses of six  *)
(* bits, except that the default router is a router too, whose default     *)
(* route leads back.  The prefixes keep the containments and, among routes *)
(* through a gateway, the order of the lengths of the simulator's.         *)
(***************************************************************************)
EXTENDS Internet

CONSTANTS router, applesauce, cherrypie, default_router, hs_router, dm42, dm43, Nobody

SimulatorHosts == {applesauce, cherrypie, hs_router, dm42, dm43}
SimulatorNodes == SimulatorHosts \cup {router, default_router}

\* The router's interfaces default, eth0, eth1, eth2, uun3, hs4 and mit5.
SimulatorInterfaces ==
    [x \in SimulatorNodes |->
        CASE x = router -> <<2, 9, 33, 36, 41, 49, 18>>
          [] x = applesauce -> <<10>>
          [] x = cherrypie -> <<37>>
          [] x = default_router -> <<1>>
          [] x = hs_router -> <<48>>
          [] x = dm42 -> <<42>>
          [] x = dm43 -> <<43>>]

SimulatorRoutes ==
    [x \in SimulatorNodes |->
        CASE x \in SimulatorHosts -> <<>>
          [] x = default_router -> <<RoutNode(0, 0, 2, 0)>>
          [] x = router ->
               <<RoutNode(0, 0, 1, 0),
                 RoutNode(8, 3, Direct, 1),
                 RoutNode(32, 4, Direct, 2),
                 RoutNode(36, 5, Direct, 3),
                 RoutNode(40, 4, Direct, 4),
                 RoutNode(48, 3, 48, 5),
                 RoutNode(56, 4, 48, 5),
                 RoutNode(60, 5, 48, 5),
                 RoutNode(18, 2, 17, 6)>>]

SimulatorNextHop ==
    [h \in SimulatorHosts |->
        CASE h = applesauce -> 9
          [] h = cherrypie -> 36
          [] h \in {dm42, dm43} -> 41
          [] h = hs_router -> 0]

SimulatorLinks ==
    {{<<router, 1>>, <<default_router, 1>>}, {<<router, 2>>, <<applesauce, 1>>},
     {<<router, 4>>, <<cherrypie, 1>>}, {<<router, 6>>, <<hs_router, 1>>},
     {<<router, 5>>, <<dm42, 1>>, <<dm43, 1>>}}

Datagram(from, dst, ttl, payload) ==
    [from |-> from, dst |-> dst, ttl |-> ttl, payload |-> payload]

\* Two hosts that send to each other; one of them also to a host behind a
\* gateway, and to nobody (the default router sends that one back); the other
\* also to an address on its own network that no host has.
Crosswise ==
    {Datagram(applesauce, 37, 64, "to cherrypie"), Datagram(cherrypie, 10, 64, "to applesauce"),
     Datagram(cherrypie, 61, 64, "hs"), Datagram(cherrypie, 3, 4, "lost"),
     Datagram(applesauce, 11, 64, "absent")}

SimulatorDestination ==
    [p \in {d.payload : d \in Crosswise} |->
        CASE p = "to cherrypie" -> cherrypie
          [] p = "to applesauce" -> applesauce
          [] p = "hs" -> hs_router
          [] p \in {"lost", "absent"} -> Nobody]
=============================================================================
