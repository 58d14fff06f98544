------------------------------- MODULE Ethernet -------------------------------
(***************************************************************************)
(* Hosts with one network interface each on a shared Ethernet.  A host's   *)
(* frames_out is its transmit queue; the link takes the frame at its head  *)
(* to the other hosts, and may lose or garble it for any of them.          *)
(*                                                                         *)
(* The next hop of a datagram is a host of the link.  A datagram may be    *)
(* sent again once no copy of it is left, so that behaviours are infinite  *)
(* though datagrams are few.                                               *)
(***************************************************************************)
EXTENDS NetworkInterface, FiniteSets

CONSTANTS Hosts,
          Datagrams,    \* the datagrams the hosts send one another
          Steps,        \* what a call of tick may add to the clock
          MaxOut,       \* nothing is sent while this many frames wait on the link
          MaxLosses,    \* how many frames may be lost or garbled, or Unlimited
          Unlimited,
          Paced         \* the applications send no faster than requests may be repeated

VARIABLES iface,        \* the interface of each host
          losses,       \* frames lost or garbled so far, when they are limited
          sinceArp,     \* ticks since a host last asked for another, up to ArpRetry
          sinceLearnt   \* ticks since a host last heard from another, up to CacheTTL

vars == <<iface, losses, sinceArp, sinceLearnt>>

ASSUME DatagramsAssumption ==
    \A d \in Datagrams : d.src \in Hosts /\ d.dst \in Hosts \ {d.src}

\* The addresses of a host: its own name serves as its IP address.
EthernetOf(h) == <<"eth", h>>

\* The broadcast address is nobody's.
ASSUME BroadcastAssumption == \A h \in Hosts : EthernetOf(h) # Broadcast

Init ==
    /\ iface = [h \in Hosts |-> NewInterface(EthernetOf(h), h)]
    /\ losses = 0
    /\ sinceArp = [h \in Hosts |-> [g \in Hosts |-> ArpRetry]]
    /\ sinceLearnt = [h \in Hosts |-> [g \in Hosts |-> CacheTTL]]

IsDatagram(f, d) == f.type = "IPv4" /\ f.payload = d
CopiesAmong(frames, d) == Len(SelectSeq(frames, LAMBDA f : IsDatagram(f, d)))

\* The copies of datagram d in an interface: received, queued, waiting.
Copies(i, d) ==
    Len(SelectSeq(i.datagrams_out, LAMBDA e : e = d))
    + CopiesAmong(i.frames_out, d)
    + FoldFunction(LAMBDA frames, n : n + CopiesAmong(frames, d), 0, i.unsend_frame)
Exists(d) == \E h \in Hosts : Copies(iface[h], d) > 0

\* Requests for g among the frames a step appended to h's transmit queue.
Requests(old, new, g) ==
    {k \in DOMAIN new : /\ k > Len(old) /\ new[k].type = "ARP"
                        /\ new[k].payload.opcode = "REQUEST"
                        /\ new[k].payload.target_ip_address = g}

-----------------------------------------------------------------------------
Send(d) ==
    LET h == d.src IN
    /\ iface[h].up /\ ~Exists(d)
    /\ FoldFunction(LAMBDA i, n : n + Len(i.frames_out), 0, iface) < MaxOut
    /\ Paced => ~asked_recently(iface[h], d.dst)
    /\ iface' = [iface EXCEPT ![h] = send_datagram(@, d, d.dst)]
    /\ sinceArp' = [sinceArp EXCEPT ![h][d.dst] =
          IF Requests(iface[h].frames_out, iface'[h].frames_out, d.dst) = {} THEN @ ELSE 0]
    /\ UNCHANGED <<losses, sinceLearnt>>

\* The other hosts that are there to hear a frame of h.
Others(h) == {g \in Hosts \ {h} : iface[g].up}

\* The link takes h's first frame to the hosts R as it is, to the hosts G
\* garbled, and loses it for the others.
Carry(h, R, G) ==
    LET frame == Head(iface[h].frames_out)
        heard(g) == g \in R /\ for_us(iface[g], frame) /\ frame.type = "ARP"
                    /\ frame.payload.sender_ip_address = h
    IN  /\ iface[h].up /\ iface[h].frames_out # <<>>
        /\ IF R = Others(h) \/ MaxLosses = Unlimited
           THEN UNCHANGED losses
           ELSE losses < MaxLosses /\ losses' = losses + 1
        /\ iface' = [g \in Hosts |->
              IF g = h THEN [iface[h] EXCEPT !.frames_out = Tail(@)]
              ELSE IF g \in R THEN recv_frame(iface[g], frame)
              ELSE IF g \in G THEN recv_frame(iface[g], [frame EXCEPT !.payload = Garbled])
              ELSE iface[g]]
        /\ sinceLearnt' = [g \in Hosts |->
              IF heard(g) THEN [sinceLearnt[g] EXCEPT ![h] = 0] ELSE sinceLearnt[g]]
        /\ UNCHANGED sinceArp

\* The owner of h's interface takes the first datagram received.
Take(h) ==
    /\ iface[h].up /\ iface[h].datagrams_out # <<>>
    /\ iface' = [iface EXCEPT ![h].datagrams_out = Tail(@)]
    /\ UNCHANGED <<losses, sinceArp, sinceLearnt>>

Aged(ages, n, limit) == [g \in Hosts |-> IF ages[g] + n < limit THEN ages[g] + n ELSE limit]

Tick(h, n) ==
    /\ iface[h].up
    /\ \E i \in tick(iface[h], n) : iface' = [iface EXCEPT ![h] = i]
    /\ sinceArp' = [sinceArp EXCEPT ![h] = Aged(@, n, ArpRetry)]
    /\ sinceLearnt' = [sinceLearnt EXCEPT ![h] = Aged(@, n, CacheTTL)]
    /\ UNCHANGED losses

Next ==
    \/ \E d \in Datagrams : Send(d)
    \/ \E h \in Hosts : \E R \in SUBSET Others(h) : \E G \in SUBSET (Others(h) \ R) : Carry(h, R, G)
    \/ \E h \in Hosts : Take(h)
    \/ \E h \in Hosts, n \in Steps : Tick(h, n)

Spec == Init /\ [][Next]_vars

(***************************************************************************)
(* Fairness: the owner of an interface empties its queues and ticks it;    *)
(* the application goes on sending, so that again and again a datagram is  *)
(* sent when a new request is due (only send_datagram repeats a request    *)
(* that was lost).  Liveness is checked of paced applications, which do    *)
(* not use up their few datagrams between two requests.                    *)
(***************************************************************************)
SendWhenDue(h, g) ==
    /\ g \notin DOMAIN iface[h].ip_address_map
    /\ ~asked_recently(iface[h], g)
    /\ \E d \in Datagrams : d.src = h /\ d.dst = g /\ Send(d)

Fairness ==
    /\ \A h, g \in Hosts : SF_vars(SendWhenDue(h, g))
    /\ \A h \in Hosts : /\ WF_vars(Carry(h, Others(h), {}))
                        /\ WF_vars(Take(h))
                        /\ \A n \in Steps : WF_vars(Tick(h, n))

LiveSpec == Spec /\ Fairness

-----------------------------------------------------------------------------
\* Whatever requests, replies and broadcasts cross, and whatever is lost, a
\* datagram leaves in a frame addressed to its next hop and is passed up the
\* stack there and nowhere else (send_datagram, recv_frame).
ReachesItsHop ==
    \A h \in Hosts :
        /\ \A k \in DOMAIN iface[h].frames_out :
              LET f == iface[h].frames_out[k]
              IN  f.type = "IPv4" => f.dst = EthernetOf(f.payload.dst)
        /\ \A k \in DOMAIN iface[h].datagrams_out : iface[h].datagrams_out[k].dst = h

\* A datagram is in one place at a time: send_datagram either queues its
\* frame or keeps it, and what recv_frame queues it no longer keeps, so that
\* one call to send_datagram never puts two copies on the link.
OneCopy ==
    \A d \in Datagrams :
        FoldFunction(LAMBDA i, n : n + Copies(i, d), 0, iface) <= 1

\* A datagram that waits for an address is never dropped: it disappears from
\* its interface only by leaving as the first frame of frames_out
\* (network_interface.cc:106-114 moves every waiting frame before it erases
\* the list), or with the process.
NeverForgotten ==
    [][\A h \in Hosts, d \in Datagrams :
          Copies(iface[h], d) = 1 /\ Copies(iface'[h], d) = 0 /\ iface'[h].up
          => \/ iface[h].frames_out # <<>> /\ IsDatagram(Head(iface[h].frames_out), d)
             \/ iface[h].datagrams_out # <<>> /\ Head(iface[h].datagrams_out) = d]_vars

\* At least five seconds pass between two requests for the same address
\* (network_interface.cc:44-47), although flushing erases the time of the last
\* request (line 113) and the clock wraps around.
RequestsSpaced ==
    [][\A h, g \in Hosts :
          LET asked == Requests(iface[h].frames_out, iface'[h].frames_out, g)
          IN  /\ Cardinality(asked) <= 1
              /\ asked # {} => sinceArp[h][g] = ArpRetry]_vars

\* A mapping is kept for thirty seconds after the last frame it was learnt
\* from, each frame prolonging it (map_time, network_interface.cc:89-90, 125).
KeptThirtySeconds ==
    \A h, g \in Hosts :
        sinceLearnt[h][g] < CacheTTL => g \in DOMAIN iface[h].ip_address_map

\* tests/net_interface.cc:180, "active mappings last 30 seconds": a mapping is
\* gone thirty seconds after it was last learnt, where erasing under the loop of
\* tick does what the code means.
GoneAfterThirtySeconds ==
    \A h \in Hosts : \A g \in DOMAIN iface[h].ip_address_map : sinceLearnt[h][g] < CacheTTL

Waiting(d) ==
    /\ d.dst \in DOMAIN iface[d.src].unsend_frame
    /\ CopiesAmong(iface[d.src].unsend_frame[d.dst], d) > 0

\* A host that only answers is found: as long as the application sends and
\* the link loses finitely many frames, every datagram that waits for its
\* address leaves (send_datagram repeats the request, recv_frame flushes).
WaitingIsSent ==
    \A d \in Datagrams : Waiting(d) ~> ~Waiting(d)
=============================================================================
