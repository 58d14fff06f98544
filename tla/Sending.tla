-------------------------------- MODULE Sending --------------------------------
(***************************************************************************)
(* A TCPSender at work: the application writes and ends its stream, time   *)
(* passes, and acknowledgments arrive for any prefix of what has been      *)
(* sent, with any window, late, repeated or out of order.  The k-th byte   *)
(* written is the number k, which therefore has sequence number k.         *)
(***************************************************************************)
EXTENDS TCPSender

CONSTANTS
  SendCapacity,   \* TCPConfig::send_capacity
  Isn,            \* the sender's initial sequence number
  MaxBytes,       \* bound: bytes the application writes
  MaxWindow,      \* bound: the largest window advertised
  MaxRetx         \* TCPConfig::MAX_RETX_ATTEMPTS: TCPConnection stops ticking there

ASSUME SendingAssumption ==
  /\ SendCapacity \in Nat \ {0}
  /\ Isn \in WrappingInt32
  /\ MaxBytes \in Nat /\ MaxWindow \in Nat /\ MaxRetx \in Nat
  /\ MaxInt > 2 * (MaxBytes + 3)   \* sequence numbers are unambiguous

\* The law of powers, which the provers lack.
ASSUME PowersAssumption == \A n \in 0 .. MaxRetx : 2 ^ n \in Nat /\ 2 ^ (n + 1) = 2 * 2 ^ n

VARIABLE s        \* the TCPSender; segments_out holds what the last step sent

vars == <<s>>

\* The queue is emptied by TCPConnection::clean after every call.
flushed == [s EXCEPT !.segments_out = <<>>]

Init == s = NewSender(SendCapacity, Isn)

Connect ==
  /\ s.next_seqno = 0
  /\ s' = fill_window(flushed)

Write(n) ==
  /\ s.next_seqno > 0 /\ ~s.stream.inputEnd
  /\ s.stream.totoalWrite + n <= MaxBytes
  /\ LET data == [k \in 1 .. n |-> s.stream.totoalWrite + k]
     IN  s' = fill_window([flushed EXCEPT !.stream = stream_write(@, data)])

End ==
  /\ s.next_seqno > 0 /\ ~s.stream.inputEnd
  /\ s' = fill_window([flushed EXCEPT !.stream = end_input(@)])

Ack(ack, window) ==
  /\ ack <= s.next_seqno
  /\ s' = ack_received(flushed, wrap(ack, Isn), window)

Tick ==
  /\ s.retrans_num < MaxRetx
  /\ s' = sender_tick(flushed, 1)

EmptyAck == s' = send_empty_ack(flushed)

Next ==
  \/ Connect \/ End \/ Tick \/ EmptyAck
  \/ \E n \in 1 .. MaxBytes : Write(n)
  \/ \E ack \in 1 .. MaxBytes + 2, window \in 0 .. MaxWindow : Ack(ack, window)

Spec == Init /\ [][Next]_vars

\* The event loop calls tick again and again; nothing else is promised.
FairSpec == Spec /\ WF_vars(Tick)

-----------------------------------------------------------------------------
TypeOK ==
  s \in SenderType /\ s.isn = Isn /\ s.stream.capcity = SendCapacity /\ s.stream.error = FALSE

\* Where the k-th outstanding segment starts in the sequence space.
flight_start(k) == IF k = 1 THEN s.cur_ack_index ELSE s.seg_buffer[k - 1].ack_index

\* The outstanding segments are exactly what lies between cur_ack_index and
\* _next_seqno: each starts where the one before it ends and carries the SYN,
\* the bytes and the FIN of its sequence numbers.  A retransmission therefore
\* sends the first unacknowledged byte, and no byte is ever left out.  The
\* sequence numbers are used up by the SYN, the bytes read from the stream and
\* the FIN, and by nothing else, and the FIN comes after the last byte written.
FlightTiled ==
  /\ \A k \in DOMAIN s.seg_buffer :
        LET from == flight_start(k)
            seg  == s.seg_buffer[k].seg
        IN  /\ s.seg_buffer[k].ack_index = from + length_in_sequence_space(seg)
            /\ length_in_sequence_space(seg) > 0
            /\ Len(seg.payload) <= MAX_PAYLOAD_SIZE
            /\ seg.seqno = wrap(from, Isn)
            /\ seg.syn <=> from = 0
            /\ seg.syn => Len(seg.payload) = 0
            /\ seg.fin <=> s.seg_buffer[k].ack_index = s.fin_ack_index
            /\ \A i \in DOMAIN seg.payload : seg.payload[i] = from + i - 1
  /\ s.next_seqno = flight_start(Len(s.seg_buffer) + 1)
  /\ s.next_seqno > 0 /\ s.fin_ack_index = NoFin => s.next_seqno = s.stream.totoalRead + 1
  /\ s.fin_ack_index # NoFin =>
        /\ eof(s.stream)
        /\ s.next_seqno = s.fin_ack_index
        /\ s.fin_ack_index = s.stream.totoalWrite + 2

\* Nothing is sent beyond the right edge of the window except the single
\* sequence number of a zero-window probe, and the edge never lies behind
\* what is acknowledged ("a full window of nonzero size should be respected",
\* tests/send_extra.cc:364; otherwise the unsigned wind_size at line 118
\* would wrap).
WindowRespected ==
  /\ s.cur_ack_index <= s.wd_right_edge
  /\ s.next_seqno <= s.wd_right_edge + 1

\* The timer is never started explicitly: it must be found at zero whenever
\* there is nothing in flight, so that a new flight gets a whole RTO; a count
\* of retransmissions belongs to a flight, and the RTO is the initial one
\* doubled once per counted retransmission.
TimerAndBackoff ==
  /\ s.seg_buffer = <<>> => s.timer = 0 /\ s.retrans_num = 0
  /\ s.timer < s.RTO
  /\ s.RTO = rt_timeout * 2 ^ s.retrans_num

\* No step takes back a sequence number, an acknowledgment or window space,
\* the temporary wd_right_edge++ of a zero window included.
NothingTakenBack ==
  [][/\ s.next_seqno <= s'.next_seqno
     /\ s.cur_ack_index <= s'.cur_ack_index
     /\ s.wd_right_edge <= s'.wd_right_edge]_vars

\* Whatever is in flight is retransmitted, or all of it acknowledged, or the
\* retransmission limit is reached: the timer cannot be put off for ever.
FlightResolved ==
  (s.seg_buffer # <<>>) ~>
     \/ s.seg_buffer = <<>>
     \/ s.retrans_num = MaxRetx
     \/ \E k \in DOMAIN s.segments_out :
           /\ s.segments_out[k] = s.seg_buffer[1].seg
           /\ s.timer = 0

=============================================================================
