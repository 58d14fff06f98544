------------------------------ MODULE MCEthernet ------------------------------
(***************************************************************************)
(* Traffic for checking Ethernet on small links.                           *)
(***************************************************************************)
EXTENDS Ethernet

CONSTANTS a, b, c

Datagram(h, g, n) == [src |-> h, dst |-> g, number |-> n]

OneWay == {Datagram(a, b, n) : n \in 1..2}
BothWays == {Datagram(a, b, 1), Datagram(a, b, 2), Datagram(b, a, 1)}
=============================================================================
