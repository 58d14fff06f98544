----------------------------- MODULE RoutingTable -----------------------------
(***************************************************************************)
(* The routing table of a Router (libsponge/router): Router::rout_map, a   *)
(* std::set<RoutNode> ordered by RoutNode::operator<, and the lookup of    *)
(* route_one_datagram, which takes the first route that matches.           *)
(*                                                                         *)
(* A set is the sequence in which it is iterated.  operator< is not a      *)
(* strict weak order (two direct routes are each less than the other), so  *)
(* what insert does is what the tree of libstdc++ does: it walks down to   *)
(* the place before the first element the new one is less than, and drops  *)
(* the new one unless the element before that place is less than it.       *)
(***************************************************************************)
EXTENDS Integers, Sequences

CONSTANTS Width,    \* bits of an address: 32
          Direct    \* no next hop: the network is attached to the router

ASSUME WidthAssumption == Width \in Nat

Address == 0..(2^Width - 1)

RoutNode(route_prefix, prefix_length, next_hop, interface_num) ==
    [route_prefix |-> route_prefix, prefix_length |-> prefix_length,
     next_hop |-> next_hop, interface_num |-> interface_num]

MutShorterFirst(a, b) ==
    a.next_hop = Direct \/ (b.next_hop # Direct /\ a.prefix_length < b.prefix_length)

\* RoutNode::operator<
less(a, b) ==
    \/ a.next_hop = Direct
    \/ b.next_hop # Direct /\ a.prefix_length > b.prefix_length

\* Where the walk ends: the number of elements before the new one.
place(table, x) ==
    CHOOSE n \in 0..Len(table) :
        /\ \A k \in 1..n : ~less(x, table[k])
        /\ n < Len(table) => less(x, table[n + 1])

insert(table, x) ==
    LET n == place(table, x)
    IN  IF n = 0 \/ less(table[n], x)
        THEN SubSeq(table, 1, n) \o <<x>> \o SubSeq(table, n + 1, Len(table))
        ELSE table

add_route(table, route_prefix, prefix_length, next_hop, interface_num) ==
    insert(table, RoutNode(route_prefix, prefix_length, next_hop, interface_num))

-----------------------------------------------------------------------------
\* ip >> n of an integer of Width bits.  A shift by Width bits is undefined in
\* C++; the instruction it compiles to takes the count modulo Width.
shr(ip, n) == ip \div 2^(n % Width)

MutNoDefault(rout_ip, prefix_len, ip) == shr(rout_ip, Width - prefix_len) = shr(ip, Width - prefix_len)

\* Router::match: the prefix_len high-order bits agree; with no bits to agree
\* there would be a shift by Width.
match(rout_ip, prefix_len, ip) ==
    prefix_len = 0 \/ shr(rout_ip, Width - prefix_len) = shr(ip, Width - prefix_len)

Matches(x, ip) == match(x.route_prefix, x.prefix_length, ip)

\* The route route_one_datagram takes: the first that matches, if there is one.
IsFirstMatch(table, k, ip) ==
    Matches(table[k], ip) /\ \A j \in 1..(k - 1) : ~Matches(table[j], ip)
=============================================================================
