----------------------------- MODULE MCTCPSystem -----------------------------
(* Values for the constants of TCPSystem that are functions of the endpoint. *)
EXTENDS TCPStreams

PerEndpoint(c, s) == [e \in {Client, Server} |-> IF e = Client THEN c ELSE s]

C2S0 == PerEndpoint(2, 0)
C2S1 == PerEndpoint(2, 1)
C2S2 == PerEndpoint(2, 2)
NearWrap == PerEndpoint(14, 15)
=============================================================================
