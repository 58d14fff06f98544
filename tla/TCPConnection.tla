----------------------------- MODULE TCPConnection -----------------------------
(***************************************************************************)
(* tcp_connection.cc: a TCPSender and a TCPReceiver joined into one        *)
(* endpoint, with its shutdown rules; tcp_state.cc: the official state it  *)
(* is in.                                                                  *)
(*                                                                         *)
(* idle is now_time - last_recive_time, counted up to the linger time, the *)
(* only value it is compared with.                                         *)
(***************************************************************************)
EXTENDS TCPReceiver, TCPSender

CONSTANTS
  UINT16_MAX,          \* the largest window a header can carry
  MAX_RETX_ATTEMPTS,   \* TCPConfig::MAX_RETX_ATTEMPTS
  LingerTimeouts       \* 10 in check_close: how many rt_timeouts to linger

ASSUME ConnectionAssumption ==
  /\ UINT16_MAX \in Nat \ {0}
  /\ MAX_RETX_ATTEMPTS \in Nat
  /\ LingerTimeouts \in Nat \ {0}

linger_time == LingerTimeouts * rt_timeout

NewConnection(recv_capacity, send_capacity, isn) ==
  [sender |-> NewSender(send_capacity, isn), receiver |-> NewReceiver(recv_capacity),
   idle |-> 0, close |-> FALSE, linger |-> TRUE, segments_out |-> <<>>]

active(c) == ~c.close

inbound_stream(c) == stream_out(c.receiver)

\* The read end of a connection is changed by its owner, through a reference.
with_inbound(c, stream) == [c EXCEPT !.receiver.reassembler.outputStream = stream]

bad_shutdown(c, send_rst) ==
  LET rst == [EmptySegment EXCEPT !.rst = TRUE,
                                  !.seqno = wrap(c.sender.next_seqno, c.sender.isn)]
  IN  [with_inbound(c, set_error(inbound_stream(c)))
         EXCEPT !.close = TRUE,
                !.sender.stream = set_error(@),
                !.segments_out = IF send_rst THEN Append(@, rst) ELSE @]

MutIgnoreFlight(c) ==
  inbound_stream(c).inputEnd /\ eof(c.sender.stream)

stream_both_eof(c) ==
  inbound_stream(c).inputEnd /\ eof(c.sender.stream) /\ bytes_in_flight(c.sender) = 0

MutNeverLinger(c) == IF stream_both_eof(c) THEN [c EXCEPT !.close = TRUE] ELSE c

check_close(c) ==
  IF stream_both_eof(c) /\ (~c.linger \/ c.idle >= linger_time)
  THEN [c EXCEPT !.close = TRUE] ELSE c

\* ackno and window of an outgoing segment, retransmitted ones included.
stamp(c, seg) ==
  [seg EXCEPT !.ack = c.receiver.recieve_isn,
              !.ackno = IF c.receiver.recieve_isn THEN ackno(c.receiver) ELSE @,
              !.win = min(UINT16_MAX, window_size(c.receiver))]

clean(c) ==
  LET out == c.sender.segments_out
  IN  check_close(
        [c EXCEPT !.segments_out = @ \o [k \in 1 .. Len(out) |-> stamp(c, out[k])],
                  !.sender.segments_out = <<>>])

\* Lines 74-77: the peer ended first, so it is the peer that lingers.
decide_linger(c) ==
  IF inbound_stream(c).inputEnd /\ ~eof(c.sender.stream)
  THEN [c EXCEPT !.linger = FALSE] ELSE c

MutAckDataOnly(c, seg) ==
  clean(IF Len(seg.payload) > 0 THEN [c EXCEPT !.sender = send_empty_ack(@)] ELSE c)

\* Lines 82-84.
answer(c, seg) ==
  clean(IF length_in_sequence_space(seg) > 0
        THEN [c EXCEPT !.sender = send_empty_ack(@)] ELSE c)

connection_segment_received(c0, seg) ==
  LET c1 == [c0 EXCEPT !.idle = 0]
      c2 == decide_linger([c1 EXCEPT !.receiver = receiver_segment_received(@, seg)])
      c3 == IF seg.ack THEN [c2 EXCEPT !.sender = ack_received(@, seg.ackno, seg.win)] ELSE c2
  IN  IF seg.rst THEN bad_shutdown(c1, FALSE) ELSE answer(c3, seg)

connection_write(c, data) ==
  LET s == [c.sender EXCEPT !.stream = stream_write(@, data)]
  IN  clean([c EXCEPT !.sender = fill_window(s)])

end_input_stream(c) ==
  LET s == [c.sender EXCEPT !.stream = end_input(@)]
  IN  clean([c EXCEPT !.sender = fill_window(s)])

connect(c) == clean([c EXCEPT !.sender = fill_window(@)])

MutGiveUpEarly(c) == c.sender.retrans_num + 1 >= MAX_RETX_ATTEMPTS

give_up(c) == c.sender.retrans_num >= MAX_RETX_ATTEMPTS

connection_tick(c0, ms) ==
  LET c == [c0 EXCEPT !.idle = min(@ + ms, linger_time)]
  IN  IF give_up(c) THEN bad_shutdown(c, TRUE)
      ELSE clean([c EXCEPT !.sender = sender_tick(@, ms)])

-----------------------------------------------------------------------------
(* tcp_state.cc *)

receiver_summary(rcv) ==
  IF stream_out(rcv).error THEN "ERROR"
  ELSE IF ~rcv.recieve_isn THEN "LISTEN"
  ELSE IF stream_out(rcv).inputEnd THEN "FIN_RECV"
  ELSE "SYN_RECV"

sender_summary(s) ==
  IF s.stream.error THEN "ERROR"
  ELSE IF s.next_seqno = 0 THEN "CLOSED"
  ELSE IF s.next_seqno = bytes_in_flight(s) THEN "SYN_SENT"
  ELSE IF ~eof(s.stream) \/ s.next_seqno < s.stream.totoalWrite + 2 THEN "SYN_ACKED"
  ELSE IF bytes_in_flight(s) > 0 THEN "FIN_SENT"
  ELSE "FIN_ACKED"

\* The official states, as TCPState(State) describes them.
official_states ==
  LET st(rcv, snd, act, lin) == [receiver |-> rcv, sender |-> snd, active |-> act, linger |-> lin]
  IN  [LISTEN      |-> st("LISTEN",   "CLOSED",    TRUE,  TRUE),
       SYN_RCVD    |-> st("SYN_RECV", "SYN_SENT",  TRUE,  TRUE),
       SYN_SENT    |-> st("LISTEN",   "SYN_SENT",  TRUE,  TRUE),
       ESTABLISHED |-> st("SYN_RECV", "SYN_ACKED", TRUE,  TRUE),
       CLOSE_WAIT  |-> st("FIN_RECV", "SYN_ACKED", TRUE,  FALSE),
       LAST_ACK    |-> st("FIN_RECV", "FIN_SENT",  TRUE,  FALSE),
       CLOSING     |-> st("FIN_RECV", "FIN_SENT",  TRUE,  TRUE),
       FIN_WAIT_1  |-> st("SYN_RECV", "FIN_SENT",  TRUE,  TRUE),
       FIN_WAIT_2  |-> st("SYN_RECV", "FIN_ACKED", TRUE,  TRUE),
       TIME_WAIT   |-> st("FIN_RECV", "FIN_ACKED", TRUE,  TRUE),
       RESET       |-> st("ERROR",    "ERROR",     FALSE, FALSE),
       CLOSED      |-> st("FIN_RECV", "FIN_ACKED", FALSE, FALSE)]

\* TCPConnection::state()
state(c) ==
  [receiver |-> receiver_summary(c.receiver), sender |-> sender_summary(c.sender),
   active |-> active(c), linger |-> active(c) /\ c.linger]

in_state(c, name) == state(c) = official_states[name]
=============================================================================
