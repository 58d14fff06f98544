-------------------------------- MODULE Internet --------------------------------
(***************************************************************************)
(* Hosts and routers joined by links, as apps/network_simulator.cc joins   *)
(* them: a host sends each datagram to its next hop, a router forwards     *)
(* between its interfaces, a link carries each frame to its other ends.    *)
(* Links lose nothing here (the simulator's do not; Ethernet.tla has lossy *)
(* ones) and no interface is ticked, but every step is interleaved with    *)
(* every other, where the simulator takes them in one fixed order.         *)
(*                                                                         *)
(* A host is a node with one interface that never forwards.                *)
(***************************************************************************)
EXTENDS Router, FiniteSets

CONSTANTS Nodes,        \* hosts and routers
          Hosts,
          InterfacesOf, \* node |-> the addresses of its interfaces
          RoutesOf,     \* node |-> the arguments of its add_route calls
          NextHopOf,    \* host |-> the address of its next hop
          Links,        \* sets of ends <<node, n>>: the n-th interface of a node
          Traffic,      \* datagrams [from, dst, ttl, payload], each sent once
          Destination   \* payload |-> the host the datagram must reach, or Nobody

VARIABLES node,         \* the state of each node
          unsent,       \* datagrams not yet sent
          received      \* host |-> datagrams its owner took from the interface

vars == <<node, unsent, received>>

Ends == UNION Links
Interface(e) == node[e[1]].interfaces[e[2]]

Init ==
    /\ node = [x \in Nodes |->
          NewRouter([n \in DOMAIN InterfacesOf[x] |->
                        NewInterface(<<x, n>>, InterfacesOf[x][n])], RoutesOf[x])]
    /\ unsent = Traffic
    /\ received = [h \in Hosts |-> <<>>]

Dgram(d) == [dst |-> d.dst, ttl |-> d.ttl, payload |-> d.payload]

\* Host::send_to
SendTo(d) ==
    /\ d \in unsent
    /\ node' = [node EXCEPT ![d.from].interfaces[1] =
                   send_datagram(@, Dgram(d), NextHopOf[d.from])]
    /\ unsent' = unsent \ {d}
    /\ UNCHANGED received

\* One turn of exchange_frames: the first frame of end e reaches the others.
Carry(l, e) ==
    LET frame == Head(Interface(e).frames_out)
        arrive(f, i) == IF f = e THEN [i EXCEPT !.frames_out = Tail(@)]
                        ELSE IF f \in l THEN recv_frame(i, frame) ELSE i
    IN  /\ Interface(e).frames_out # <<>>
        /\ node' = [x \in Nodes |-> [node[x] EXCEPT !.interfaces =
                       [n \in DOMAIN @ |-> arrive(<<x, n>>, @[n])]]]
        /\ UNCHANGED <<unsent, received>>

Route(x) ==
    /\ \E n \in DOMAIN node[x].interfaces : node[x].interfaces[n].datagrams_out # <<>>
    /\ node' = [node EXCEPT ![x] = route(@)]
    /\ UNCHANGED <<unsent, received>>

\* Host::check takes what the host received.
Check(h) ==
    LET got == node[h].interfaces[1].datagrams_out
    IN  /\ got # <<>>
        /\ received' = [received EXCEPT ![h] = @ \o got]
        /\ node' = [node EXCEPT ![h].interfaces[1].datagrams_out = <<>>]
        /\ UNCHANGED unsent

\* What the loop of simulate does.
Simulate ==
    \/ \E l \in Links : \E e \in l : Carry(l, e)
    \/ \E x \in Nodes \ Hosts : Route(x)
    \/ \E h \in Hosts : Check(h)

Next == Simulate \/ \E d \in unsent : SendTo(d)

Busy == \E e \in Ends : Interface(e).frames_out # <<>> \/ Interface(e).datagrams_out # <<>>

\* The simulator goes on as long as there is something to do; in which order
\* does not matter, since no frame can be carried for ever.  This is
\* WF_vars(Simulate), with the condition that enables it written out.
Fairness == []<>~Busy \/ []<><<Simulate>>_vars

Spec == Init /\ [][Next]_vars /\ Fairness

-----------------------------------------------------------------------------
Sent(p) == CHOOSE d \in Traffic : d.payload = p

\* Host::check throws on an "unexpected Internet datagram": whatever is sent
\* at the same time, a host receives a datagram once, only if it is the
\* host's, and with a time to live that one router has decremented
\* (network_simulator.cc:279-341).
NothingUnexpected ==
    \A h \in Hosts :
        /\ \A k \in DOMAIN received[h] :
              LET d == received[h][k]
              IN  Destination[d.payload] = h /\ d.ttl = Sent(d.payload).ttl - 1
        /\ \A j, k \in DOMAIN received[h] :
              received[h][j].payload = received[h][k].payload => j = k

Arrived(p) == \E h \in Hosts : \E k \in DOMAIN received[h] : received[h][k].payload = p

\* Host::check throws when a host "did NOT receive an expected Internet
\* datagram": every datagram sent with a destination arrives, though its
\* frames wait for three rounds of ARP on the way.
EverythingArrives ==
    \A d \in Traffic :
        Destination[d.payload] \in Hosts => (d \notin unsent ~> Arrived(d.payload))

Moves(i, p) ==
    \/ \E k \in DOMAIN i.datagrams_out : i.datagrams_out[k].payload = p
    \/ \E k \in DOMAIN i.frames_out :
          i.frames_out[k].type = "IPv4" /\ i.frames_out[k].payload.payload = p

WaitsFor(i, p) ==
    {ip \in DOMAIN i.unsend_frame :
        \E k \in DOMAIN i.unsend_frame[ip] : i.unsend_frame[ip][k].payload.payload = p}

Reachable(e) == {Interface(f).ip_address : f \in UNION {l \in Links : e \in l}}

\* A datagram that no host should get does not go round for ever, even where
\* the routes of two routers lead to each other: each forwarding takes one
\* from its time to live (router.cc:46-47).  It leaves the network, or it
\* waits at an interface that asks for an address nobody on the link has, and
\* then for ever: nothing gives up a frame of network_interface.cc:43.
NobodysDatagramStops ==
    \A d \in Traffic :
        Destination[d.payload] \notin Hosts =>
            <>[]\A e \in Ends :
                  /\ ~Moves(Interface(e), d.payload)
                  /\ WaitsFor(Interface(e), d.payload) \cap Reachable(e) = {}
=============================================================================
