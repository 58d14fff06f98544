------------------------------- MODULE TCPTimely -------------------------------
(***************************************************************************)
(* The system of TCPSystem on a network that is fast compared with the     *)
(* retransmission timeout and loses at most MaxLosses segments: a segment  *)
(* is in transit over at most one tick, so that an answer is there within  *)
(* two, before the timeout of a tick more.  Within that, delivery is in    *)
(* any order, and a tick (the one on which a connection gives up or stops  *)
(* lingering included) finds segments and acknowledgments on their way.    *)
(* Both event loops tick with the same clock.                              *)
(***************************************************************************)
EXTENDS TCPStreams

CONSTANT MaxLosses    \* bound: how many segments the network loses

ASSUME TimelyAssumption == MaxLosses \in Nat /\ rt_timeout > 2

VARIABLES late,   \* per endpoint: segments that were in transit at the last tick
          losses

tvars == <<vars, late, losses>>

TInit == Init /\ late = [e \in Endpoint |-> {}] /\ losses = 0

\* A segment arrives, once; a loop that has ended does not read it.  net is
\* what was sent since the last tick.
arrived(e, seg) ==
  IF active(conn[e]) THEN connection_segment_received(conn[e], seg) ELSE conn[e]

TDeliver(e, seg) ==
  LET c == arrived(e, seg)
      answered(transit) == [transit EXCEPT ![peer(e)] = @ \cup Range(c.segments_out)]
      without(transit) == [transit EXCEPT ![e] = @ \ {seg}]
  IN  /\ \/ seg \in net[e] /\ net' = answered(without(net)) /\ UNCHANGED late
         \/ seg \in late[e] /\ net' = answered(net) /\ late' = without(late)
      /\ conn' = [conn EXCEPT ![e] = [c EXCEPT !.segments_out = <<>>]]
      /\ UNCHANGED <<received, losses>>

TLose(e, seg) ==
  /\ losses < MaxLosses
  /\ losses' = losses + 1
  /\ \/ seg \in net[e] /\ Lose(e, seg) /\ UNCHANGED late
     \/ seg \in late[e] /\ late' = [late EXCEPT ![e] = @ \ {seg}] /\ UNCHANGED vars

ticked(e) == IF active(conn[e]) THEN connection_tick(conn[e], 1) ELSE conn[e]

\* A unit of time passes: an endpoint is ticked while it is active (_tcp_loop),
\* whatever is on its way to it.
TTick ==
  /\ \A e \in Endpoint : late[e] = {}
  /\ late' = net
  /\ conn' = [e \in Endpoint |-> [ticked(e) EXCEPT !.segments_out = <<>>]]
  /\ net' = [e \in Endpoint |-> Range(ticked(peer(e)).segments_out)]
  /\ UNCHANGED <<received, losses>>

TApp ==
  /\ Connect \/ \E e \in Endpoint : AppNext(e)
  /\ UNCHANGED <<late, losses>>

TNext ==
  \/ TApp \/ TTick
  \/ \E e \in Endpoint : \E seg \in net[e] \cup late[e] : TDeliver(e, seg) \/ TLose(e, seg)

\* Whether an application, and whether anybody, can take a step that changes
\* something: ENABLED <<TApp>>_tvars and ENABLED <<TNext>>_tvars.
AppReady ==
  \/ in_state(conn[Client], "LISTEN")
  \/ \E e \in Endpoint :
        \/ may_write(e) /\ (e \in Enders \/ sender(e).stream.totoalWrite < MaxBytes[e])
        \/ buffer_size(inbound_stream(conn[e])) > 0

Busy ==
  \/ \E e \in Endpoint : net[e] # {} \/ late[e] # {}
  \/ AppReady
  \/ \E e \in Endpoint : ticked(e) # conn[e]

\* Weak fairness of TApp and of TNext, with these conditions written out.
\* Applications write what they have, end their stream and read (the loop of
\* bidirectional_stream_copy.cc runs until both directions are done), and only
\* finitely often; the event loops and the clock do not stop.  A state in which
\* every tick changes nothing is one where a behaviour may stay for ever.
AppFairness == []<>~AppReady
LoopFairness == []<>~Busy \/ []<><<TRUE>>_tvars

TSpec == TInit /\ [][TNext]_tvars /\ AppFairness /\ LoopFairness

-----------------------------------------------------------------------------
\* No sender makes as many retransmissions as make it give up.
RetransmissionsSuffice == MaxLosses < MAX_RETX_ATTEMPTS

\* And an end lingers until the last of them, which the doubled timeouts put
\* off, has arrived.  With the values of the code, 8 attempts and 10 timeouts,
\* this is so up to three losses, and no more: when the acknowledgment of a FIN
\* is lost and so are the FINs sent again after 1, 3 and 7 timeouts, the next
\* comes after 15 and finds nobody.
LingerSuffices ==
  RetransmissionsSuffice /\ rt_timeout * (2^MaxLosses - 1) + 1 < linger_time

\* Everything an application wrote reaches the other, and so does the end of
\* its stream: retransmission (tcp_sender.cc:108-124) makes up for any loss
\* within the limit.
AllDelivered ==
  RetransmissionsSuffice =>
    <>\A e \in Endpoint :
         /\ sender(e).stream.inputEnd
         /\ received[peer(e)] = written(e)
         /\ eof(inbound_stream(conn[peer(e)]))

\* Both connections come to an end by themselves, in the official state
\* CLOSED: the one that lingers stops lingering, and the other is not left
\* waiting for an acknowledgment the lingering one should have sent.
BothClose ==
  LingerSuffices => <>[]\A e \in Endpoint : in_state(conn[e], "CLOSED")

\* A connection gives up on a tick (tcp_connection.cc:101), perhaps with the
\* acknowledgment on its way: losses within the limits never make one do so,
\* whatever segments they hit.  A loss less than MAX_RETX_ATTEMPTS is needed,
\* as the last retransmission is given one tick to be answered.
NoFalseAbort ==
  LingerSuffices => \A e \in Endpoint : ~sender(e).stream.error
=============================================================================
