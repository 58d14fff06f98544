----------------------------- MODULE MCTCPTimely -----------------------------
(* Values for the constants of TCPTimely that are functions of the endpoint. *)
EXTENDS TCPTimely

PerEndpoint(c, s) == [e \in {Client, Server} |-> IF e = Client THEN c ELSE s]

C1S0 == PerEndpoint(1, 0)
C3S3 == PerEndpoint(3, 3)
C9S9 == PerEndpoint(9, 9)
NearWrap == PerEndpoint(14, 15)
=============================================================================
