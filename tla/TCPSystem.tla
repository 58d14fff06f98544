------------------------------- MODULE TCPSystem -------------------------------
(***************************************************************************)
(* Two TCPConnections over a network that loses, duplicates and reorders   *)
(* segments, each driven by the rules of TCPSpongeSocket::_initialize_TCP  *)
(* and the tick of _tcp_loop.  The client connects, the server listens;    *)
(* the k-th byte an application writes is the number k.                    *)
(*                                                                         *)
(* Rule 4 hands segments_out to the network as soon as a handler ends: a   *)
(* segment that stays queued is one the network delays.                    *)
(***************************************************************************)
EXTENDS TCPConnection, FiniteSets, Functions

CONSTANTS
  Client, Server,
  RecvCapacity,    \* per endpoint: TCPConfig::recv_capacity
  SendCapacity,    \* per endpoint: TCPConfig::send_capacity
  Isn,             \* per endpoint: TCPConfig::fixed_isn
  MaxBytes,        \* bound, per endpoint: bytes its application writes
  Enders,          \* the endpoints whose application may end its stream
  MaxInTransit     \* bound, per endpoint: different segments on their way to it

Endpoint == {Client, Server}

\* The network may keep a segment for ever, and unwrap tells an old one from a
\* new one only while a direction uses less than half of the sequence space.
ASSUME SystemAssumption ==
  /\ Client # Server
  /\ RecvCapacity \in [Endpoint -> Nat \ {0}]
  /\ SendCapacity \in [Endpoint -> Nat \ {0}]
  /\ Isn \in [Endpoint -> WrappingInt32]
  /\ MaxBytes \in [Endpoint -> Nat]
  /\ \A e \in Endpoint : MaxInt > 2 * (MaxBytes[e] + 3)
  /\ Enders \subseteq Endpoint
  /\ MaxInTransit \in [Endpoint -> Nat \ {0}]

VARIABLES
  conn,      \* the two TCPConnections
  net,       \* per endpoint: the segments on their way to it
  received   \* per endpoint: the bytes its application has read

vars == <<conn, net, received>>

peer(e) == IF e = Client THEN Server ELSE Client

Init ==
  /\ conn = [e \in Endpoint |-> NewConnection(RecvCapacity[e], SendCapacity[e], Isn[e])]
  /\ net = [e \in Endpoint |-> {}]
  /\ received = [e \in Endpoint |-> <<>>]

\* Endpoint e becomes c, whose queued segments go out (rule 4).
Transmit(e, c) ==
  LET inTransit == net[peer(e)] \cup Range(c.segments_out)
  IN  /\ Cardinality(inTransit) <= MaxInTransit[peer(e)]
      /\ net' = [net EXCEPT ![peer(e)] = inTransit]
      /\ conn' = [conn EXCEPT ![e] = [c EXCEPT !.segments_out = <<>>]]

\* connect() of the socket.
Connect ==
  /\ in_state(conn[Client], "LISTEN")
  /\ Transmit(Client, connect(conn[Client]))
  /\ UNCHANGED received

\* The states in which the socket's connect() and listen_and_accept() block.
blocking(e) == IF e = Client THEN {"LISTEN", "SYN_SENT"} ELSE {"LISTEN", "SYN_RCVD", "SYN_SENT"}

\* connect() or listen_and_accept() has returned: the application runs.
accepted(e) == \A name \in blocking(e) : ~in_state(conn[e], name)

\* _outbound_shutdown is set exactly when the outbound stream is ended.
may_write(e) ==
  /\ accepted(e) /\ active(conn[e])
  /\ ~conn[e].sender.stream.inputEnd
  /\ remaining_capacity(conn[e].sender.stream) > 0

\* Rule 2: bytes of the application; at its end, an empty read and the end.
Write(e, n) ==
  /\ may_write(e)
  /\ n <= remaining_capacity(conn[e].sender.stream)
  /\ LET old == conn[e].sender.stream.totoalWrite
     IN  /\ old + n <= MaxBytes[e]
         /\ Transmit(e, connection_write(conn[e], [k \in 1 .. n |-> old + k]))
  /\ UNCHANGED received

End(e) ==
  /\ e \in Enders /\ may_write(e)
  /\ Transmit(e, end_input_stream(connection_write(conn[e], <<>>)))
  /\ UNCHANGED received

\* Rule 3: the application takes n bytes.
Read(e, n) ==
  /\ n <= buffer_size(inbound_stream(conn[e]))
  /\ received' = [received EXCEPT ![e] = @ \o peek_output(inbound_stream(conn[e]), n)]
  /\ conn' = [conn EXCEPT ![e] = with_inbound(@, pop_output(inbound_stream(@), n))]
  /\ UNCHANGED net

\* Rule 1: a segment arrives.  The network keeps it until Lose: every delivery
\* may be repeated, and one that is not is a delivery followed by Lose.
Deliver(e, seg) ==
  /\ active(conn[e])
  /\ Transmit(e, connection_segment_received(conn[e], seg))
  /\ UNCHANGED received

\* The network drops a segment: before it arrived once, or after.
Lose(e, seg) ==
  /\ net' = [net EXCEPT ![e] = @ \ {seg}]
  /\ UNCHANGED <<conn, received>>

\* One unit of time passes for e (_tcp_loop).
Tick(e) ==
  /\ active(conn[e])
  /\ Transmit(e, connection_tick(conn[e], 1))
  /\ UNCHANGED received

AppNext(e) ==
  \/ End(e)
  \/ \E n \in 1 .. MaxBytes[e] : Write(e, n)
  \/ \E n \in 1 .. RecvCapacity[e] : Read(e, n)

Next ==
  \/ Connect
  \/ \E e \in Endpoint :
        \/ AppNext(e)
        \/ Tick(e)
        \/ \E seg \in net[e] : Lose(e, seg) \/ Deliver(e, seg)

Spec == Init /\ [][Next]_vars

-----------------------------------------------------------------------------
sender(e) == conn[e].sender

\* The sequence number that follows what e's receiver has assembled.
assembled(e) ==
  IF ~conn[e].receiver.recieve_isn THEN 0
  ELSE 1 + inbound_stream(conn[e]).totoalWrite
         + (IF inbound_stream(conn[e]).inputEnd THEN 1 ELSE 0)

\* What an endpoint has thrown away as acknowledged the peer has assembled:
\* no segment that still has to arrive is ever dropped from seg_buffer,
\* whatever acknowledgments were lost, repeated or overtaken.
AckedIsAssembled ==
  \A e \in Endpoint :
     /\ sender(e).cur_ack_index <= assembled(peer(e))
     /\ assembled(peer(e)) <= sender(e).next_seqno

\* The window a sender believes in never reaches beyond the space the peer's
\* receiver really has, so nothing sent within it has to be refused.
WindowNeverOverrun ==
  \A e \in Endpoint :
     sender(e).wd_right_edge > 1 =>
        sender(e).wd_right_edge <=
           1 + inbound_stream(conn[peer(e)]).totoalRead + RecvCapacity[peer(e)]
             + (IF inbound_stream(conn[peer(e)]).inputEnd THEN 1 ELSE 0)

\* A connection that closes without an error has read all of the peer's stream,
\* its end included, and the peer has assembled every byte of its own.  The
\* peer has its end too, unless it was never sent: stream_both_eof (lines 33-35)
\* asks only that nothing is in flight, and fill_window sends no FIN while the
\* window is full (tcp_sender.cc:53), so that a side whose peer ended first may
\* close with its own FIN unsent.
CleanCloseMeansDelivered ==
  \A e \in Endpoint :
     (~active(conn[e]) /\ ~sender(e).stream.error) =>
        /\ \A d \in Endpoint :
              /\ sender(d).stream.inputEnd
              /\ inbound_stream(conn[peer(d)]).totoalWrite = sender(d).stream.totoalWrite
        /\ inbound_stream(conn[e]).inputEnd
        /\ inbound_stream(conn[peer(e)]).inputEnd \/ sender(e).fin_ack_index = NoFin

\* The moves of the official state diagram, those of one call that pass
\* through a state on the way included (a FIN that waited for the window and
\* crosses the peer's: ESTABLISHED to CLOSING); any state may be reset.
official_moves ==
  {<<"LISTEN", "SYN_SENT">>, <<"LISTEN", "SYN_RCVD">>, <<"SYN_SENT", "ESTABLISHED">>,
   <<"SYN_RCVD", "ESTABLISHED">>, <<"SYN_RCVD", "CLOSE_WAIT">>,
   <<"ESTABLISHED", "FIN_WAIT_1">>, <<"ESTABLISHED", "CLOSE_WAIT">>, <<"ESTABLISHED", "CLOSING">>,
   <<"FIN_WAIT_1", "FIN_WAIT_2">>, <<"FIN_WAIT_1", "CLOSING">>, <<"FIN_WAIT_1", "TIME_WAIT">>,
   <<"FIN_WAIT_2", "TIME_WAIT">>, <<"CLOSING", "TIME_WAIT">>,
   <<"CLOSE_WAIT", "LAST_ACK">>, <<"LAST_ACK", "CLOSED">>, <<"TIME_WAIT", "CLOSED">>}

state_names(c) ==
  LET now == state(c) IN {name \in DOMAIN official_states : official_states[name] = now}

\* An endpoint moves through the official states only along the official
\* transitions: no call skips the lingering of TIME_WAIT or reopens a stream.
OfficialMoves ==
  [][\A e \in Endpoint : conn'[e] # conn[e] =>
       \A from \in state_names(conn[e]), to \in state_names(conn'[e]) :
          from = to \/ to = "RESET" \/ <<from, to>> \in official_moves]_vars
=============================================================================
