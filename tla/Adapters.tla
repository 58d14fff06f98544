------------------------------- MODULE Adapters -------------------------------
(***************************************************************************)
(* Hosts that exchange TCP segments through their adapters.  The server    *)
(* listens; each client has been told to connect to it.  All hosts use the *)
(* same kind of adapter.                                                   *)
(*                                                                         *)
(* The network loses and reorders packets, hands a packet to any host, and *)
(* may change a byte of it or cut its end off; what a link does to a frame *)
(* the link finds out, so that only what carries a segment is damaged.     *)
(***************************************************************************)
EXTENDS FdAdapter

CONSTANTS Server, Clients,
          Kinds,        \* the kinds of adapters: "udp", "tun", "tap", "lab7"
          AddressOf,    \* host |-> its IP address and port
          Segments,     \* host |-> the segments its connection writes, each once
          Flips,        \* what a damaged byte is off by
          Cuts          \* how many bytes may be cut off

VARIABLES adapter,      \* the adapter of each host
          wire,         \* the packets on their way: [from, packet]
          unwritten,    \* host |-> the segments it has not written yet
          written,      \* what was written: [from, to, segment, body]
          passed        \* host |-> the segments passed up to its connection

vars == <<adapter, wire, unwritten, written, passed>>

\* A device has room for one next hop: on Ethernet there is one client.
HostsOf(kind) ==
    {Server} \cup (IF kind \in {"tap", "lab7"} THEN {CHOOSE c \in Clients : TRUE} ELSE Clients)
Hosts == DOMAIN adapter

\* An address that marks itself as a private one.
EthernetOf(h) == <<2, 0, 0, 0>> \o put_u16(AddressOf[h].ip[2])

interface(h) == NewInterface(EthernetOf(h), AddressOf[h].ip)
hop(kind, h) == AddressOf[CHOOSE g \in HostsOf(kind) : g # h].ip

\* A client over UDP leaves its source to the kernel and writes port 0 into
\* its segments.
connecting(kind, h) ==
    NewAdapter(kind, IF kind = "udp" THEN AnyAddress ELSE AddressOf[h], AddressOf[Server], FALSE,
               interface(h), hop(kind, h))

\* A server is bound to no address in particular, except in lab7.
listening(kind, h) ==
    NewAdapter(kind, IF kind = "lab7" THEN AddressOf[h] ELSE Address(INADDR_ANY, AddressOf[h].port),
               AnyAddress, TRUE, interface(h), hop(kind, h))

Init ==
    \E kind \in Kinds :
        /\ adapter = [h \in HostsOf(kind) |->
                         IF h = Server THEN listening(kind, h) ELSE connecting(kind, h)]
        /\ wire = IF kind = "tap" THEN {[from |-> h, packet |-> dummy_frame] : h \in HostsOf(kind)}
                  ELSE {}
        /\ unwritten = [h \in HostsOf(kind) |-> Segments[h]]
        /\ written = {}
        /\ passed = [h \in HostsOf(kind) |-> {}]

\* A host's adapter becomes what it is after a read or a write.
Done(h, outcome, rest) ==
    /\ adapter' = [adapter EXCEPT ![h] = outcome.adapter]
    /\ wire' = rest \cup {[from |-> h, packet |-> outcome.sent[k]] : k \in DOMAIN outcome.sent}

\* The bytes that carry a segment, below the frame.
body(a, seg) ==
    IF a.kind = "udp" THEN concatenate(tcp_segment_serialize(with_ports(a, seg), 0))
    ELSE concatenate(ipv4_datagram_serialize(wrap_tcp_in_ip(a, seg)))

\* A connection writes once it has a peer.
Write(h, seg) ==
    /\ ~adapter[h].listen
    /\ \E outcome \in lossy_write(adapter[h], seg) : Done(h, outcome, wire)
    /\ unwritten' = [unwritten EXCEPT ![h] = @ \ {seg}]
    /\ written' = written \cup
          {[from |-> h, to |-> adapter[h].destination,
            segment |-> with_ports(adapter[h], seg), body |-> body(adapter[h], seg)]}
    /\ UNCHANGED passed

ends_with(data, b) ==
    Len(b) <= Len(data) /\ SubSeq(data, Len(data) - Len(b) + 1, Len(data)) = b
carried_by(data) == {e \in written : ends_with(data, e.body)}

\* What may come out of the network for a packet that went in.  The kernel
\* drops a UDP datagram that is not as long as its header says.
Damaged(kind, data) ==
    {data} \cup
    IF carried_by(data) = {} THEN {}
    ELSE {[data EXCEPT ![k] = (@ + x) % 256] : k \in DOMAIN data, x \in Flips}
         \cup {SubSeq(data, 1, Len(data) - n) : n \in IF kind = "udp" THEN {} ELSE Cuts}

Read(h, w) ==
    /\ w.from # h
    /\ w.packet.destination \in {AnyAddress, AddressOf[h]}
    /\ \E data \in Damaged(adapter[h].kind, w.packet.data) :
          \E outcome \in lossy_read(adapter[h], AddressOf[w.from], data) :
             /\ Done(h, outcome, wire \ {w})
             /\ passed' = [passed EXCEPT ![h] = @ \cup outcome.segments]
    /\ UNCHANGED <<unwritten, written>>

Lose(w) ==
    /\ wire' = wire \ {w}
    /\ UNCHANGED <<adapter, unwritten, written, passed>>

Tick(h) ==
    /\ \E a \in adapter_tick(adapter[h], 1) : adapter' = [adapter EXCEPT ![h] = a]
    /\ UNCHANGED <<wire, unwritten, written, passed>>

Next ==
    \/ \E h \in Hosts : \E seg \in unwritten[h] : Write(h, seg)
    \/ \E w \in wire : Lose(w) \/ \E h \in Hosts : Read(h, w)
    \/ \E h \in Hosts : Tick(h)

Spec == Init /\ [][Next]_vars

-----------------------------------------------------------------------------
same(s, t) == s.payload = t.payload /\ [s.header EXCEPT !.cksum = 0] = [t.header EXCEPT !.cksum = 0]

\* What reaches a connection is, field by field, a segment that its peer's
\* connection wrote to it: none that was damaged on the way, addressed to
\* another host or written by one that is not the peer, whatever kind of
\* adapter wrapped, addressed, checked and unwrapped it.
OnlyWhatWasWritten ==
    \A h \in Hosts : \A s \in passed[h] :
        /\ ~adapter[h].listen
        /\ \E e \in written :
              /\ same(s, e.segment)
              /\ e.to = AddressOf[h] /\ AddressOf[e.from] = adapter[h].destination

\* A server that listens turns to the first client whose SYN arrives, and to
\* no other afterwards, although the SYNs of several are on their way, and
\* although the lossy adapter may drop the SYN that it has acted on.
BoundByOneSyn ==
    [][\A h \in Hosts :
          LET old == adapter[h]
              new == adapter'[h]
          IN  IF old.destination # AnyAddress
              THEN new.destination = old.destination /\ new.source = old.source /\ ~new.listen
              ELSE new.destination # AnyAddress =>
                       \E e \in written :
                           /\ opens(e.segment) /\ e.to = AddressOf[h]
                           /\ AddressOf[e.from] = new.destination]_vars

Bound(h, e) ==
    /\ AddressOf[e.from] = adapter[h].destination /\ e.to = AddressOf[h] /\ ~adapter[h].listen

\* Nothing that is intact is refused: the server takes the SYN of any client
\* while it listens, and a host takes every segment of its peer, when the
\* packet that carries it arrives as it was sent.
IntactIsPassedUp ==
    \A h \in Hosts, w \in wire : \A e \in carried_by(w.packet.data) :
        (Bound(h, e) \/ (adapter[h].listen /\ e.to = AddressOf[h] /\ opens(e.segment))) =>
            \E s \in adapter_read(adapter[h], AddressOf[w.from], w.packet.data).segments :
                same(s, e.segment)
=============================================================================
