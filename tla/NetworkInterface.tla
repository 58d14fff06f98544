--------------------------- MODULE NetworkInterface ---------------------------
(***************************************************************************)
(* NetworkInterface and AsyncNetworkInterface (libsponge/network_interface,*)
(* libsponge/router.hh): an interface turns datagrams into Ethernet frames,*)
(* asking for the Ethernet address of a next hop with ARP.  An interface is*)
(* a record; each method is an operator from the interface to the next one.*)
(*                                                                         *)
(* The unordered_maps are functions on the keys they hold.  Times are      *)
(* uint32_t counts of ticks, modulo TimeMod.                               *)
(***************************************************************************)
EXTENDS Integers, Sequences, Functions

CONSTANTS TimeMod,      \* 2^32: the clock is a uint32_t
          ArpRetry,     \* 5000 ms
          CacheTTL,     \* 30000 ms
          Broadcast,    \* ETHERNET_BROADCAST
          ZeroAddress,  \* the all-zero Ethernet address of an ARP request
          Garbled,      \* a payload that does not parse
          Erasures      \* what erasing under the loop of tick may do (below)

ASSUME TimeAssumption ==
    /\ TimeMod \in Nat /\ ArpRetry \in Nat \ {0} /\ CacheTTL \in Nat
    /\ ArpRetry <= CacheTTL /\ CacheTTL < TimeMod
ASSUME ErasuresAssumption ==
    Erasures \subseteq {"intended", "mapping kept", "crash"} /\ Erasures # {}

Put(f, k, v) == [x \in DOMAIN f \cup {k} |-> IF x = k THEN v ELSE f[x]]
Erase(f, K) == Restrict(f, DOMAIN f \ K)
Elapsed(now, then) == (now - then) % TimeMod
NoKeys == [k \in {} |-> k]

EthernetFrame(src, dst, type, payload) ==
    [src |-> src, dst |-> dst, type |-> type, payload |-> payload]
ARPMessage(opcode, sender_ip, sender_eth, target_ip, target_eth) ==
    [opcode |-> opcode,
     sender_ip_address |-> sender_ip, sender_ethernet_address |-> sender_eth,
     target_ip_address |-> target_ip, target_ethernet_address |-> target_eth]

\* "up" is FALSE once the process has crashed.
NewInterface(ethernet_address, ip_address) ==
    [up |-> TRUE, ethernet_address |-> ethernet_address, ip_address |-> ip_address,
     frames_out |-> <<>>, datagrams_out |-> <<>>, now_time |-> 0,
     ip_address_map |-> NoKeys, map_time |-> NoKeys,
     unsend_frame |-> NoKeys, latest_arp_time |-> NoKeys]

Pending(i, ip) == IF ip \in DOMAIN i.unsend_frame THEN i.unsend_frame[ip] ELSE <<>>

-----------------------------------------------------------------------------
ArpRequest(i, next_hop) ==
    EthernetFrame(i.ethernet_address, Broadcast, "ARP",
        ARPMessage("REQUEST", i.ip_address, i.ethernet_address, next_hop, ZeroAddress))

MutAskAlways(i, next_hop) == FALSE
MutAskOnce(i, next_hop) == next_hop \in DOMAIN i.latest_arp_time

\* A request for next_hop went out less than five seconds ago.
asked_recently(i, next_hop) ==
    /\ next_hop \in DOMAIN i.latest_arp_time
    /\ Elapsed(i.now_time, i.latest_arp_time[next_hop]) < ArpRetry

send_datagram(i, dgram, next_hop) ==
    LET frame == EthernetFrame(i.ethernet_address, ZeroAddress, "IPv4", dgram)
        queued == [i EXCEPT !.unsend_frame =
                      Put(@, next_hop, Append(Pending(i, next_hop), frame))]
    IN  IF next_hop \in DOMAIN i.ip_address_map
        THEN [i EXCEPT !.frames_out =
                 Append(@, [frame EXCEPT !.dst = i.ip_address_map[next_hop]])]
        ELSE IF asked_recently(i, next_hop)
        THEN queued
        ELSE [queued EXCEPT !.frames_out = Append(@, ArpRequest(i, next_hop)),
                            !.latest_arp_time = Put(@, next_hop, i.now_time)]

-----------------------------------------------------------------------------
MutLearnOnce(i, msg) ==
    [i EXCEPT !.ip_address_map = Put(@, msg.sender_ip_address, msg.sender_ethernet_address),
              !.map_time = IF msg.sender_ip_address \in DOMAIN @ THEN @
                           ELSE Put(@, msg.sender_ip_address, i.now_time)]

learn(i, msg) ==
    [i EXCEPT !.ip_address_map = Put(@, msg.sender_ip_address, msg.sender_ethernet_address),
              !.map_time = Put(@, msg.sender_ip_address, i.now_time)]

MutReplySwapped(i, msg) ==
    [i EXCEPT !.frames_out = Append(@,
        EthernetFrame(i.ethernet_address, msg.sender_ethernet_address, "ARP",
            ARPMessage("REPLY", i.ip_address, msg.sender_ethernet_address,
                       msg.sender_ip_address, i.ethernet_address)))]

reply(i, msg) ==
    [i EXCEPT !.frames_out = Append(@,
        EthernetFrame(i.ethernet_address, msg.sender_ethernet_address, "ARP",
            ARPMessage("REPLY", i.ip_address, i.ethernet_address,
                       msg.sender_ip_address, msg.sender_ethernet_address)))]

MutFlushNotErased(i, msg) ==
    LET hop == msg.sender_ip_address
        waiting == Pending(i, hop)
    IN  [i EXCEPT !.frames_out = @ \o [k \in DOMAIN waiting |->
            [waiting[k] EXCEPT !.dst = msg.sender_ethernet_address]]]
MutEraseUnsent(i, msg) ==
    [i EXCEPT !.unsend_frame = Erase(@, {msg.sender_ip_address}),
              !.latest_arp_time = Erase(@, {msg.sender_ip_address})]

flush(i, msg) ==
    LET hop == msg.sender_ip_address
        waiting == Pending(i, hop)
        addressed == [k \in DOMAIN waiting |->
                         [waiting[k] EXCEPT !.dst = msg.sender_ethernet_address]]
    IN  IF hop \in DOMAIN i.unsend_frame
        THEN [i EXCEPT !.frames_out = @ \o addressed,
                       !.unsend_frame = Erase(@, {hop}),
                       !.latest_arp_time = Erase(@, {hop})]
        ELSE i

recv_arp(i, msg) ==
    IF msg.opcode = "REQUEST" /\ msg.target_ip_address = i.ip_address
    THEN reply(learn(i, msg), msg)
    ELSE flush(learn(i, msg), msg)

for_us(i, frame) == frame.dst \in {i.ethernet_address, Broadcast}

\* AsyncNetworkInterface::recv_frame: a datagram goes to datagrams_out.
recv_frame(i, frame) ==
    IF ~for_us(i, frame) \/ frame.payload = Garbled THEN i
    ELSE IF frame.type = "IPv4"
         THEN [i EXCEPT !.datagrams_out = Append(@, frame.payload)]
         ELSE recv_arp(i, frame.payload)

-----------------------------------------------------------------------------
(***************************************************************************)
(* tick erases from map_time the entry its range-for stands on, then reads *)
(* the freed entry: its key, for ip_address_map.erase, and its link, to go *)
(* on.  That is undefined.  What a build may do is in Erasures:            *)
(*   "intended"      both reads still see the old entry, as the code means;*)
(*   "mapping kept"  the freed key or link is overwritten: some expired    *)
(*                   entries leave map_time, fewer leave ip_address_map,   *)
(*                   and the loop may stop before the others;              *)
(*   "crash"         the overwritten link is followed.                     *)
(***************************************************************************)
MutExpiredLate(i) ==
    {ip \in DOMAIN i.map_time : Elapsed(i.now_time, i.map_time[ip]) > CacheTTL}

expired(i) == {ip \in DOMAIN i.map_time : Elapsed(i.now_time, i.map_time[ip]) >= CacheTTL}

erase(i, times, mappings) ==
    [i EXCEPT !.map_time = Erase(@, times), !.ip_address_map = Erase(@, mappings)]

\* The interfaces a tick may leave.
tick(i, since_last_tick) ==
    LET j == [i EXCEPT !.now_time = (@ + since_last_tick) % TimeMod]
        old == expired(j)
    IN  IF old = {} THEN {j}
        ELSE UNION {
            CASE o = "intended" -> {erase(j, old, old)}
              [] o = "mapping kept" ->
                   {erase(j, t[1], t[2]) :
                       t \in {u \in (SUBSET old) \X (SUBSET old) :
                                 u[1] # {} /\ u[2] \subseteq u[1]}}
              [] o = "crash" -> {[j EXCEPT !.up = FALSE]}
            : o \in Erasures}
=============================================================================
