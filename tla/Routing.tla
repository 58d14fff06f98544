-------------------------------- MODULE Routing --------------------------------
(***************************************************************************)
(* A routing table filled by calls of add_route in any order, against what *)
(* router.hh promises of it: "longest-prefix-match routing".               *)
(***************************************************************************)
EXTENDS RoutingTable

CONSTANTS Routes,     \* the routes an owner of the router may add
          MaxRoutes   \* bound on the calls of add_route

VARIABLES rout_map,   \* the table
          added       \* the routes add_route was called with, in that order

vars == <<rout_map, added>>

ASSUME RoutesAssumption ==
    /\ \A x \in Routes :
          /\ x = RoutNode(x.route_prefix, x.prefix_length, x.next_hop, x.interface_num)
          /\ x.prefix_length \in 0..Width /\ x.route_prefix \in Address
    /\ MaxRoutes \in Nat

Init == rout_map = <<>> /\ added = <<>>

AddRoute(x) ==
    /\ Len(added) < MaxRoutes
    /\ rout_map' = add_route(rout_map, x.route_prefix, x.prefix_length,
                             x.next_hop, x.interface_num)
    /\ added' = Append(added, x)

Next == \E x \in Routes : AddRoute(x)

Spec == Init /\ [][Next]_vars

-----------------------------------------------------------------------------
IsDirect(x) == x.next_hop = Direct

\* The table is a sequence of routes.
TypeOK == rout_map \in Seq(Routes) /\ added \in Seq(Routes)

\* Direct routes come first, then the others by falling prefix length, no two
\* of them of the same length: the order on which the walk of insert relies,
\* though operator< (router.hh:59-67) is not a strict weak order.
TableInOrder ==
    \A j, k \in 1..Len(rout_map) :
        j < k => \/ IsDirect(rout_map[j])
                 \/ /\ ~IsDirect(rout_map[k])
                    /\ rout_map[j].prefix_length > rout_map[k].prefix_length

\* A route that insert must not take for one that is there: a direct one, or
\* the first of its length through a gateway.
Distinct(a, m) ==
    IsDirect(a[m]) \/ \A j \in 1..(m - 1) : ~IsDirect(a[j]) => a[j].prefix_length # a[m].prefix_length

\* What became of the calls of add_route: the table holds, of the routes added,
\* every direct one and of those through gateways the first of each length.
\* The later ones insert drops, whatever their prefix: by TableInOrder no two
\* through gateways are of one length.
RoutesKept ==
    /\ \A k \in 1..Len(rout_map) : \E m \in 1..Len(added) : rout_map[k] = added[m]
    /\ \A m \in 1..Len(added) :
          Distinct(added, m) => \E k \in 1..Len(rout_map) : rout_map[k] = added[m]

\* The bits of an address, from the most significant one, numbered 1.
Bit(ip, n) == (ip \div 2^(Width - n)) % 2

\* router.cc:22, a route applies when its prefix_length "high-order
\* (most-significant) bits" match those of the destination: match, which
\* shifts the others out, says so for every length from none to all.
MatchesHighBits ==
    \A k \in 1..Len(rout_map) : \A ip \in Address :
        Matches(rout_map[k], ip) <=>
            \A n \in 1..rout_map[k].prefix_length : Bit(rout_map[k].route_prefix, n) = Bit(ip, n)

\* The table chooses a route r for address ip.
Chooses(ip, r) == \E k \in 1..Len(rout_map) : rout_map[k] = r /\ IsFirstMatch(rout_map, k, ip)

\* Route r is a longest match for ip among the routes added.
IsLongest(ip, r) ==
    /\ Matches(r, ip)
    /\ \A k \in 1..Len(added) : Matches(added[k], ip) => added[k].prefix_length <= r.prefix_length

\* router.hh:48-50: a datagram is sent "as specified by the route with the
\* longest prefix_length that matches the datagram's destination address".
LongestPrefixMatch ==
    \A ip \in Address :
        (\E k \in 1..Len(added) : Matches(added[k], ip))
        => \E k \in 1..Len(added) : Chooses(ip, added[k]) /\ IsLongest(ip, added[k])

\* No two routes through a gateway are of one length, and no direct route
\* overlaps a longer route, unless that one is direct and was added later.
Separated ==
    \A j, k \in 1..Len(added) :
        /\ j < k /\ ~IsDirect(added[j]) /\ ~IsDirect(added[k])
           => added[j].prefix_length # added[k].prefix_length
        /\ /\ IsDirect(added[j]) /\ added[j].prefix_length < added[k].prefix_length
           /\ \E ip \in Address : Matches(added[j], ip) /\ Matches(added[k], ip)
           => IsDirect(added[k]) /\ j < k

\* Where routes are so separated, as in apps/network_simulator.cc:224-232, the
\* table of add_route and the lookup of route_one_datagram do match the
\* longest prefix, in whatever order the routes were added.
SeparatedMatchLongest == Separated => LongestPrefixMatch
=============================================================================
