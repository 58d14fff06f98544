------------------------------ MODULE TCPStreams ------------------------------
(* The two directions of a connection as the reliable byte streams that the
   applications at its two ends see. *)
EXTENDS TCPSystem

\* A direction as a reliable byte stream: what the reading application has
\* got, against what the writing one wrote.
written(e) == [k \in 1 .. sender(e).stream.totoalWrite |-> k]

C2S ==
  INSTANCE ReliableStream WITH
    sent <- written(Client), ended <- sender(Client).stream.inputEnd,
    rcvd <- received[Server], eofSeen <- eof(inbound_stream(conn[Server]))

S2C ==
  INSTANCE ReliableStream WITH
    sent <- written(Server), ended <- sender(Server).stream.inputEnd,
    rcvd <- received[Client], eofSeen <- eof(inbound_stream(conn[Client]))

\* The connection implements two reliable byte streams, from client to server
\* and from server to client, although they share the segments, the
\* acknowledgments and the shutdown.
BothWaysReliable == C2S!Spec /\ S2C!Spec
=============================================================================
