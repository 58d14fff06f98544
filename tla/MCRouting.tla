------------------------------ MODULE MCRouting ------------------------------
(***************************************************************************)
(* Routes for checking Routing with addresses of three bits.               *)
(***************************************************************************)
EXTENDS Routing

CONSTANT Gateway

Prefixes(n) == {p \in Address : p % 2^(Width - n) = 0}

Through(hops, lengths) ==
    UNION {{RoutNode(p, n, hop, 0) : p \in Prefixes(n), hop \in hops} : n \in lengths}

\* The simulator's table on a smaller scale: a default route and routes of
\* three lengths through gateways, and direct routes, that overlap or do not.
AllRoutes == Through({Gateway}, 0..2) \cup Through({Direct}, {1, 3})
DefaultAndDirect == Through({Gateway}, {2}) \cup Through({Direct}, {1})
=============================================================================
