---------------------------- MODULE EthernetProofs ----------------------------
(***************************************************************************)
(* For any hosts and datagrams on the link, whatever is lost and whatever  *)
(* erasing under the loop of tick does: a datagram goes to its next hop.   *)
(*                                                                         *)
(* ReachesItsHop says nothing of the ARP traffic and of what waits, and is *)
(* not inductive.  IInv adds that every address learnt, and every sender   *)
(* in an ARP message on its way, is true, and that what waits for a hop is *)
(* meant for it.                                                           *)
(***************************************************************************)
EXTENDS Ethernet, TLAPS

Addresses == {EthernetOf(h) : h \in Hosts} \cup {Broadcast, ZeroAddress}

DatagramFrames == [src : Addresses, dst : Addresses, type : {"IPv4"}, payload : Datagrams]

ARPMessages ==
    {m \in [opcode : {"REQUEST", "REPLY"},
            sender_ip_address : Hosts, sender_ethernet_address : Addresses,
            target_ip_address : Hosts, target_ethernet_address : Addresses] :
        m.sender_ethernet_address = EthernetOf(m.sender_ip_address)}

\* What may be in frames_out, and what may wait for hop g.
Frames ==
    {f \in DatagramFrames : f.dst = EthernetOf(f.payload.dst)}
    \cup [src : Addresses, dst : Addresses, type : {"ARP"}, payload : ARPMessages]
WaitingFrames(g) == {f \in DatagramFrames : f.payload.dst = g}

DatagramsFor(h) == {d \in Datagrams : d.dst = h}

\* A record with the fields of an interface.
IsInterface(i) ==
    DOMAIN i = {"up", "ethernet_address", "ip_address", "frames_out", "datagrams_out", "now_time",
                "ip_address_map", "map_time", "unsend_frame", "latest_arp_time"}

\* The interface of host h: what it knows is true, what it holds is well addressed.
Sound(i, h) ==
    /\ IsInterface(i)
    /\ i.ethernet_address = EthernetOf(h) /\ i.ip_address = h
    /\ i.frames_out \in Seq(Frames)
    /\ i.datagrams_out \in Seq(DatagramsFor(h))
    /\ \A g \in DOMAIN i.ip_address_map : g \in Hosts /\ i.ip_address_map[g] = EthernetOf(g)
    /\ \A g \in DOMAIN i.unsend_frame : i.unsend_frame[g] \in Seq(WaitingFrames(g))

IInv ==
    /\ iface = [h \in Hosts |-> iface[h]]
    /\ \A h \in Hosts : Sound(iface[h], h)

-----------------------------------------------------------------------------
\* Different hosts have different Ethernet addresses.
LEMMA EthernetInjective ==
    ASSUME NEW g, NEW h, EthernetOf(g) = EthernetOf(h)
    PROVE  g = h
  BY DEF EthernetOf

\* A new interface is sound.
LEMMA InitSound == Init => IInv
<1> SUFFICES ASSUME Init PROVE IInv
  OBVIOUS
<1>1. iface = [h \in Hosts |-> NewInterface(EthernetOf(h), h)]
  BY DEF Init
<1>2. ASSUME NEW h \in Hosts PROVE Sound(NewInterface(EthernetOf(h), h), h)
  BY DEF Sound, IsInterface, NewInterface, NoKeys
<1> QED
  BY <1>1, <1>2 DEF IInv

\* Other well addressed frames may be put into frames_out.
LEMMA FramesSound ==
    ASSUME NEW i, NEW h, Sound(i, h), NEW fs \in Seq(Frames)
    PROVE  Sound([i EXCEPT !.frames_out = fs], h)
  BY DEF Sound, IsInterface

\* The same for datagrams_out,
LEMMA DatagramsSound ==
    ASSUME NEW i, NEW h, Sound(i, h), NEW ds \in Seq(DatagramsFor(h))
    PROVE  Sound([i EXCEPT !.datagrams_out = ds], h)
  BY DEF Sound, IsInterface

\* for what waits,
LEMMA UnsendSound ==
    ASSUME NEW i, NEW h, Sound(i, h), NEW u,
           \A g \in DOMAIN u : u[g] \in Seq(WaitingFrames(g))
    PROVE  Sound([i EXCEPT !.unsend_frame = u], h)
  BY DEF Sound, IsInterface

\* for the mappings,
LEMMA MapSound ==
    ASSUME NEW i, NEW h, Sound(i, h), NEW m,
           \A g \in DOMAIN m : g \in Hosts /\ m[g] = EthernetOf(g)
    PROVE  Sound([i EXCEPT !.ip_address_map = m], h)
  BY DEF Sound, IsInterface

\* and for the times and the flag, anything will do.
LEMMA TimesSound ==
    ASSUME NEW i, NEW h, Sound(i, h), NEW x
    PROVE  /\ Sound([i EXCEPT !.now_time = x], h)
           /\ Sound([i EXCEPT !.map_time = x], h)
           /\ Sound([i EXCEPT !.latest_arp_time = x], h)
           /\ Sound([i EXCEPT !.up = x], h)
  BY DEF Sound, IsInterface

\* The empty sequence is one over any set.
LEMMA EmptyIsSeq ==
    ASSUME NEW S
    PROVE  <<>> \in Seq(S)
  OBVIOUS

\* What waits for a hop waits for that hop, also when nothing does.
LEMMA PendingSound ==
    ASSUME NEW i, NEW h, Sound(i, h), NEW g
    PROVE  Pending(i, g) \in Seq(WaitingFrames(g))
<1>1. CASE g \in DOMAIN i.unsend_frame
  BY <1>1 DEF Sound, Pending
<1>2. CASE g \notin DOMAIN i.unsend_frame
  <2>1. Pending(i, g) = <<>>
    BY <1>2 DEF Pending
  <2> QED
    BY <2>1, EmptyIsSeq
<1> QED
  BY <1>1, <1>2

\* send_datagram: what is sent at once carries a learnt address, which is true;
\* what waits is kept under its own hop.
LEMMA SendSound ==
    ASSUME NEW i, NEW h \in Hosts, Sound(i, h), NEW d \in Datagrams
    PROVE  Sound(send_datagram(i, d, d.dst), h)
<1> DEFINE g == d.dst
           frame == EthernetFrame(i.ethernet_address, ZeroAddress, "IPv4", d)
           queued == [i EXCEPT !.unsend_frame = Put(@, g, Append(Pending(i, g), frame))]
<1>0. g \in Hosts
  BY DatagramsAssumption
<1>1. frame \in WaitingFrames(g)
  BY DEF Sound, EthernetFrame, WaitingFrames, DatagramFrames, Addresses
<1>2. Pending(i, g) \in Seq(WaitingFrames(g))
  BY PendingSound
<1>3. Append(Pending(i, g), frame) \in Seq(WaitingFrames(g))
  BY <1>1, <1>2
<1>4. Sound(queued, h)
  <2> DEFINE u == Put(i.unsend_frame, g, Append(Pending(i, g), frame))
  <2>1. ASSUME NEW k \in DOMAIN u PROVE u[k] \in Seq(WaitingFrames(k))
    <3> HIDE DEF frame, g
    <3>1. CASE k = g
      BY <1>3, <3>1 DEF Put
    <3>2. CASE k # g
      BY <3>2 DEF Put, Sound
    <3> QED
      BY <3>1, <3>2
  <2> HIDE DEF u
  <2>2. Sound([i EXCEPT !.unsend_frame = u], h)
    BY <2>1, UnsendSound
  <2> QED
    BY <2>2 DEF u
<1>5. ArpRequest(i, g) \in Frames
  BY <1>0 DEF Sound, ArpRequest, EthernetFrame, ARPMessage, Frames, ARPMessages, Addresses
<1>6. CASE g \in DOMAIN i.ip_address_map
  <2>1. [frame EXCEPT !.dst = i.ip_address_map[g]] \in Frames
    BY <1>0, <1>6 DEF Sound, EthernetFrame, Frames, DatagramFrames, Addresses
  <2> HIDE DEF frame
  <2>2. Append(i.frames_out, [frame EXCEPT !.dst = i.ip_address_map[g]]) \in Seq(Frames)
    BY <2>1 DEF Sound
  <2>3. send_datagram(i, d, g) = [i EXCEPT !.frames_out =
            Append(i.frames_out, [frame EXCEPT !.dst = i.ip_address_map[g]])]
    BY <1>6 DEF send_datagram, frame
  <2> QED
    BY <2>2, <2>3 DEF Sound, IsInterface
<1>7. CASE g \notin DOMAIN i.ip_address_map /\ asked_recently(i, g)
  BY <1>4, <1>7 DEF send_datagram
<1>8. CASE g \notin DOMAIN i.ip_address_map /\ ~asked_recently(i, g)
  <2> DEFINE asked == [queued EXCEPT !.frames_out = Append(@, ArpRequest(i, g)),
                                     !.latest_arp_time = Put(@, g, i.now_time)]
  <2>1. send_datagram(i, d, g) = asked
    BY <1>8 DEF send_datagram
  <2> HIDE DEF queued
  <2>2. Append(queued.frames_out, ArpRequest(i, g)) \in Seq(Frames)
    BY <1>4, <1>5 DEF Sound
  <2>3. Sound(asked, h)
    <3> DEFINE fs == Append(queued.frames_out, ArpRequest(i, g))
               sent == [queued EXCEPT !.frames_out = fs]
               times == Put(queued.latest_arp_time, g, i.now_time)
    <3>1. Sound(sent, h)
      BY <1>4, <2>2, FramesSound
    <3>2. sent.latest_arp_time = queued.latest_arp_time
      BY <1>4 DEF Sound, IsInterface
    <3>3. Sound([sent EXCEPT !.latest_arp_time = times], h)
      <4> HIDE DEF sent, times
      <4> QED BY <3>1, TimesSound
    <3>4. asked = [sent EXCEPT !.latest_arp_time = times]
      <4> HIDE DEF fs
      <4> QED BY <3>2 DEF fs
    <3> QED
      BY <3>3, <3>4
  <2> QED
    BY <2>1, <2>3
<1> QED
  BY <1>6, <1>7, <1>8

\* What is learnt from a true message is true.
LEMMA LearnSound ==
    ASSUME NEW i, NEW h \in Hosts, Sound(i, h), NEW msg \in ARPMessages
    PROVE  Sound(learn(i, msg), h)
<1> DEFINE g == msg.sender_ip_address
           m == Put(i.ip_address_map, g, msg.sender_ethernet_address)
           known == [i EXCEPT !.ip_address_map = m]
           t == Put(i.map_time, g, i.now_time)
<1>1. g \in Hosts /\ msg.sender_ethernet_address = EthernetOf(g)
  BY DEF ARPMessages
<1>2. ASSUME NEW k \in DOMAIN m PROVE k \in Hosts /\ m[k] = EthernetOf(k)
  BY <1>1 DEF Put, Sound
<1>3. Sound(known, h)
  <2> HIDE DEF m
  <2> QED BY <1>2, MapSound
<1>4. Sound([known EXCEPT !.map_time = t], h)
  <2> HIDE DEF known, t
  <2> QED BY <1>3, TimesSound
<1>5. learn(i, msg) = [known EXCEPT !.map_time = t]
  BY DEF learn, Sound, IsInterface
<1> QED
  BY <1>4, <1>5

\* A reply tells the address of the host that sends it.
LEMMA ReplySound ==
    ASSUME NEW i, NEW h \in Hosts, Sound(i, h), NEW msg \in ARPMessages
    PROVE  Sound(reply(i, msg), h)
<1> DEFINE f == EthernetFrame(i.ethernet_address, msg.sender_ethernet_address, "ARP",
                    ARPMessage("REPLY", i.ip_address, i.ethernet_address,
                               msg.sender_ip_address, msg.sender_ethernet_address))
<1>1. f \in Frames
  BY DEF Sound, EthernetFrame, ARPMessage, Frames, ARPMessages, Addresses
<1>2. reply(i, msg) = [i EXCEPT !.frames_out = Append(i.frames_out, f)]
  BY DEF reply
<1> HIDE DEF f
<1> DEFINE fs == Append(i.frames_out, f)
<1>3. fs \in Seq(Frames)
  BY <1>1 DEF Sound
<1>4. Sound([i EXCEPT !.frames_out = fs], h)
  <2> HIDE DEF fs
  <2> QED BY <1>3, FramesSound
<1> QED
  BY <1>2, <1>4

\* What flush appends is addressed to the hop it has waited for, because the
\* sender in the message is true.
LEMMA FlushSound ==
    ASSUME NEW i, NEW h \in Hosts, Sound(i, h), NEW msg \in ARPMessages
    PROVE  Sound(flush(i, msg), h)
<1> DEFINE g == msg.sender_ip_address
           waiting == Pending(i, g)
           addressed == [k \in DOMAIN waiting |->
                            [waiting[k] EXCEPT !.dst = msg.sender_ethernet_address]]
           fs == i.frames_out \o addressed
           u == Erase(i.unsend_frame, {g})
           t == Erase(i.latest_arp_time, {g})
           sent == [i EXCEPT !.frames_out = fs]
           erased == [sent EXCEPT !.unsend_frame = u]
<1>1. g \in Hosts /\ msg.sender_ethernet_address = EthernetOf(g)
  BY DEF ARPMessages
<1>2. waiting \in Seq(WaitingFrames(g))
  BY PendingSound
<1>3. ASSUME NEW f \in WaitingFrames(g)
      PROVE  [f EXCEPT !.dst = msg.sender_ethernet_address] \in Frames
  BY <1>1 DEF WaitingFrames, DatagramFrames, Frames, Addresses
<1>4. addressed \in Seq(Frames)
  <2> HIDE DEF waiting
  <2>1. DOMAIN waiting = 1..Len(waiting) /\ Len(waiting) \in Nat
    BY <1>2
  <2>2. \A k \in DOMAIN waiting : waiting[k] \in WaitingFrames(g)
    BY <1>2
  <2>3. addressed \in [1..Len(waiting) -> Frames]
    BY <1>3, <2>1, <2>2
  <2> HIDE DEF addressed
  <2> QED
    BY <2>1, <2>3
<1>5. fs \in Seq(Frames)
  <2> HIDE DEF addressed
  <2> QED BY <1>4 DEF Sound
<1>6. Sound(sent, h)
  <2> HIDE DEF fs
  <2> QED BY <1>5, FramesSound
<1>7. ASSUME NEW k \in DOMAIN u PROVE u[k] \in Seq(WaitingFrames(k))
  BY DEF Erase, Restrict, Sound
<1>8. Sound(erased, h)
  <2> HIDE DEF u, sent
  <2> QED BY <1>6, <1>7, UnsendSound
<1>9. Sound([erased EXCEPT !.latest_arp_time = t], h)
  <2> HIDE DEF erased, t
  <2> QED BY <1>8, TimesSound
<1>10. CASE g \in DOMAIN i.unsend_frame
  <2> HIDE DEF addressed
  <2>1. flush(i, msg) = [erased EXCEPT !.latest_arp_time = t]
    BY <1>10 DEF flush, addressed, Sound, IsInterface
  <2> QED
    BY <1>9, <2>1
<1>11. CASE g \notin DOMAIN i.unsend_frame
  BY <1>11 DEF flush
<1> QED
  BY <1>10, <1>11

\* Both branches of an ARP message learn first.
LEMMA ArpSound ==
    ASSUME NEW i, NEW h \in Hosts, Sound(i, h), NEW msg \in ARPMessages
    PROVE  Sound(recv_arp(i, msg), h)
<1>1. Sound(learn(i, msg), h)
  BY LearnSound
<1>2. Sound(reply(learn(i, msg), msg), h) /\ Sound(flush(learn(i, msg), msg), h)
  BY <1>1, ReplySound, FlushSound
<1> QED
  BY <1>2 DEF recv_arp

\* A datagram is passed up only by the host it is for: its frame carries the
\* Ethernet address of that host, which is no other's and not the broadcast one.
LEMMA RecvSound ==
    ASSUME NEW i, NEW h \in Hosts, Sound(i, h), NEW frame \in Frames
    PROVE  Sound(recv_frame(i, frame), h)
<1>1. CASE ~for_us(i, frame) \/ frame.payload = Garbled
  BY <1>1 DEF recv_frame
<1>2. CASE for_us(i, frame) /\ frame.payload # Garbled /\ frame.type = "IPv4"
  <2> DEFINE ds == Append(i.datagrams_out, frame.payload)
  <2>1. frame.payload \in Datagrams /\ frame.dst = EthernetOf(frame.payload.dst)
    BY <1>2 DEF Frames, DatagramFrames
  <2>2. frame.payload.dst \in Hosts
    BY <2>1, DatagramsAssumption
  <2>3. EthernetOf(frame.payload.dst) = EthernetOf(h)
    BY <1>2, <2>1, <2>2, BroadcastAssumption DEF for_us, Sound
  <2>4. frame.payload \in DatagramsFor(h)
    BY <2>1, <2>3, EthernetInjective DEF DatagramsFor
  <2>5. ds \in Seq(DatagramsFor(h))
    BY <2>4 DEF Sound
  <2>6. Sound([i EXCEPT !.datagrams_out = ds], h)
    <3> HIDE DEF ds
    <3> QED BY <2>5, DatagramsSound
  <2> QED
    BY <1>2, <2>6 DEF recv_frame
<1>3. CASE for_us(i, frame) /\ frame.payload # Garbled /\ frame.type # "IPv4"
  <2>1. frame.payload \in ARPMessages
    BY <1>3 DEF Frames, DatagramFrames
  <2> QED
    BY <1>3, <2>1, ArpSound DEF recv_frame
<1> QED
  BY <1>1, <1>2, <1>3

\* Erasing only takes away.
LEMMA EraseSound ==
    ASSUME NEW i, NEW h, Sound(i, h), NEW times, NEW mappings
    PROVE  Sound(erase(i, times, mappings), h)
<1> DEFINE t == Erase(i.map_time, times)
           m == Erase(i.ip_address_map, mappings)
           timed == [i EXCEPT !.map_time = t]
<1>1. Sound(timed, h)
  <2> HIDE DEF t
  <2> QED BY TimesSound
<1>2. ASSUME NEW k \in DOMAIN m PROVE k \in Hosts /\ m[k] = EthernetOf(k)
  BY DEF Erase, Restrict, Sound
<1>3. Sound([timed EXCEPT !.ip_address_map = m], h)
  <2> HIDE DEF timed, m
  <2> QED BY <1>1, <1>2, MapSound
<1>4. erase(i, times, mappings) = [timed EXCEPT !.ip_address_map = m]
  BY DEF erase, Sound, IsInterface
<1> QED
  BY <1>3, <1>4

\* Whatever erasing under the loop does, a mapping that stays is a true one.
LEMMA TickSound ==
    ASSUME NEW i, NEW h, Sound(i, h), NEW n, NEW k \in tick(i, n)
    PROVE  Sound(k, h)
<1> DEFINE now == (i.now_time + n) % TimeMod
           j == [i EXCEPT !.now_time = now]
<1>1. Sound(j, h)
  <2> HIDE DEF now
  <2> QED BY TimesSound
<1>2. CASE k = j
  BY <1>1, <1>2
<1>3. CASE \E times, mappings : k = erase(j, times, mappings)
  <2> HIDE DEF j
  <2> QED BY <1>1, <1>3, EraseSound
<1>4. CASE k = [j EXCEPT !.up = FALSE]
  <2> HIDE DEF j
  <2> QED BY <1>1, <1>4, TimesSound
<1>5. \/ k = j
      \/ \E times, mappings : k = erase(j, times, mappings)
      \/ k = [j EXCEPT !.up = FALSE]
  <2> DEFINE old == expired(j)
             kept == {erase(j, t[1], t[2]) :
                         t \in {u \in (SUBSET old) \X (SUBSET old) :
                                   u[1] # {} /\ u[2] \subseteq u[1]}}
             after(o) == CASE o = "intended" -> {erase(j, old, old)}
                           [] o = "mapping kept" -> kept
                           [] o = "crash" -> {[j EXCEPT !.up = FALSE]}
  <2>1. tick(i, n) = IF old = {} THEN {j} ELSE UNION {after(o) : o \in Erasures}
    BY Zenon DEF tick
  <2>2. ASSUME k \in kept PROVE \E times, mappings : k = erase(j, times, mappings)
    <3> HIDE DEF old, j
    <3> QED BY <2>2, Zenon
  <2>3. ASSUME NEW o \in Erasures, k \in after(o)
        PROVE  \/ k \in kept
               \/ k = erase(j, old, old)
               \/ k = [j EXCEPT !.up = FALSE]
    <3> HIDE DEF old, j, kept
    <3>1. o \in {"intended", "mapping kept", "crash"}
      BY ErasuresAssumption
    <3> QED
      BY <2>3, <3>1
  <2>4. k = j \/ \E o \in Erasures : k \in after(o)
    <3> HIDE DEF after, old, j
    <3> QED BY <2>1
  <2> HIDE DEF after, old, j, kept
  <2> QED
    BY <2>2, <2>3, <2>4
<1> QED
  BY <1>2, <1>3, <1>4, <1>5

-----------------------------------------------------------------------------
\* The head of frames_out is a sound frame and its tail is sound.
LEMMA QueueSound ==
    ASSUME NEW i, NEW h, Sound(i, h), i.frames_out # <<>>
    PROVE  Head(i.frames_out) \in Frames /\ Sound([i EXCEPT !.frames_out = Tail(@)], h)
<1> DEFINE fs == Tail(i.frames_out)
<1>1. Head(i.frames_out) \in Frames /\ fs \in Seq(Frames)
  BY DEF Sound
<1>2. Sound([i EXCEPT !.frames_out = fs], h)
  <2> HIDE DEF fs
  <2> QED BY <1>1, FramesSound
<1> QED
  BY <1>1, <1>2

\* A frame that is garbled on the way changes nothing.
LEMMA GarbledIgnored ==
    ASSUME NEW i, NEW frame \in Frames
    PROVE  recv_frame(i, [frame EXCEPT !.payload = Garbled]) = i
<1>1. [frame EXCEPT !.payload = Garbled].payload = Garbled
  BY DEF Frames, DatagramFrames
<1> QED
  BY <1>1 DEF recv_frame

\* IInv is inductive: one case for each action.
LEMMA StepSound == IInv /\ [Next]_vars => IInv'
<1> SUFFICES ASSUME IInv, [Next]_vars PROVE IInv'
  OBVIOUS
<1>0. ASSUME NEW h \in Hosts PROVE Sound(iface[h], h)
  BY DEF IInv
<1> DEFINE One(h, i) == iface' = [iface EXCEPT ![h] = i]
<1>1. ASSUME NEW h \in Hosts, NEW i, One(h, i), Sound(i, h) PROVE IInv'
  BY <1>1 DEF IInv
<1>2. ASSUME NEW d \in Datagrams, Send(d) PROVE IInv'
  <2>1. d.src \in Hosts
    BY DatagramsAssumption
  <2>2. Sound(send_datagram(iface[d.src], d, d.dst), d.src)
    BY <1>0, <2>1, SendSound
  <2>3. One(d.src, send_datagram(iface[d.src], d, d.dst))
    BY <1>2 DEF Send
  <2> QED
    BY <1>1, <2>1, <2>2, <2>3
<1>3. ASSUME NEW h \in Hosts, NEW R, NEW G, Carry(h, R, G) PROVE IInv'
  <2> DEFINE frame == Head(iface[h].frames_out)
             rest == [iface[h] EXCEPT !.frames_out = Tail(@)]
             garbled == [frame EXCEPT !.payload = Garbled]
             after(g) == IF g = h THEN rest
                         ELSE IF g \in R THEN recv_frame(iface[g], frame)
                         ELSE IF g \in G THEN recv_frame(iface[g], garbled)
                         ELSE iface[g]
  <2>1. frame \in Frames /\ Sound(rest, h)
    BY <1>0, <1>3, QueueSound DEF Carry
  <2>2. iface' = [g \in Hosts |-> after(g)]
    BY <1>3 DEF Carry
  <2>3. ASSUME NEW g \in Hosts PROVE Sound(after(g), g)
    <3>1. Sound(iface[g], g)
      BY <1>0
    <3>2. Sound(recv_frame(iface[g], frame), g)
      BY <2>1, <3>1, RecvSound
    <3>3. recv_frame(iface[g], garbled) = iface[g]
      BY <2>1, GarbledIgnored
    <3> HIDE DEF frame, rest, garbled
    <3> QED
      BY <2>1, <3>1, <3>2, <3>3
  <2> HIDE DEF after
  <2> QED
    BY <2>2, <2>3 DEF IInv
<1>4. ASSUME NEW h \in Hosts, Take(h) PROVE IInv'
  <2> DEFINE ds == Tail(iface[h].datagrams_out)
  <2>1. ds \in Seq(DatagramsFor(h))
    BY <1>0, <1>4 DEF Take, Sound
  <2>2. Sound([iface[h] EXCEPT !.datagrams_out = ds], h)
    <3> HIDE DEF ds
    <3> QED BY <1>0, <2>1, DatagramsSound
  <2>3. One(h, [iface[h] EXCEPT !.datagrams_out = ds])
    BY <1>4 DEF Take
  <2> QED
    BY <1>1, <2>2, <2>3
<1>5. ASSUME NEW h \in Hosts, NEW n, Tick(h, n) PROVE IInv'
  <2>1. PICK i \in tick(iface[h], n) : One(h, i)
    BY <1>5 DEF Tick
  <2>2. Sound(i, h)
    BY <1>0, TickSound
  <2> QED
    BY <1>1, <2>1, <2>2
<1>6. CASE UNCHANGED vars
  BY <1>6 DEF vars, IInv
<1> QED
  BY <1>2, <1>3, <1>4, <1>5, <1>6 DEF Next

\* IInv is stronger than the property.
LEMMA IInvImplies == IInv => ReachesItsHop
<1> SUFFICES ASSUME IInv, NEW h \in Hosts
             PROVE  /\ \A k \in DOMAIN iface[h].frames_out :
                          LET f == iface[h].frames_out[k]
                          IN  f.type = "IPv4" => f.dst = EthernetOf(f.payload.dst)
                    /\ \A k \in DOMAIN iface[h].datagrams_out :
                          iface[h].datagrams_out[k].dst = h
  BY DEF ReachesItsHop
<1>1. /\ iface[h].frames_out \in Seq(Frames)
      /\ iface[h].datagrams_out \in Seq(DatagramsFor(h))
  BY DEF IInv, Sound
<1>2. ASSUME NEW f \in Frames, f.type = "IPv4" PROVE f.dst = EthernetOf(f.payload.dst)
  BY <1>2 DEF Frames
<1>3. \A k \in DOMAIN iface[h].frames_out : iface[h].frames_out[k] \in Frames
  BY <1>1
<1>4. \A k \in DOMAIN iface[h].datagrams_out : iface[h].datagrams_out[k] \in DatagramsFor(h)
  BY <1>1
<1> QED
  BY <1>2, <1>3, <1>4 DEF DatagramsFor

\* Every frame that carries a datagram is addressed to its next hop, and what is
\* passed up the stack is meant for this host (send_datagram, recv_frame, tick).
THEOREM DatagramsReachTheirHops == Spec => []ReachesItsHop
<1>1. Spec => []IInv
  BY InitSound, StepSound, PTL DEF Spec
<1> QED
  BY <1>1, IInvImplies, PTL
=============================================================================
