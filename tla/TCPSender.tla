------------------------------- MODULE TCPSender -------------------------------
(***************************************************************************)
(* tcp_sender.cc: cuts the outgoing ByteStream into segments, keeps those  *)
(* that are not acknowledged, and retransmits the oldest when the timer    *)
(* expires.                                                                *)
(*                                                                         *)
(* timer is the Timer's now_time - last_flash_time.  fin_ack_index is NoFin*)
(* (UINT64_MAX in the code) until the FIN has been sent.                   *)
(***************************************************************************)
EXTENDS ByteStream, WrappingIntegers, TCPSegment

CONSTANTS
  MAX_PAYLOAD_SIZE,   \* TCPConfig::MAX_PAYLOAD_SIZE
  rt_timeout          \* TCPConfig::rt_timeout, the initial RTO

ASSUME PayloadAssumption == MAX_PAYLOAD_SIZE \in Nat \ {0}

ASSUME TimeoutAssumption == rt_timeout \in Nat \ {0}

NoFin == -1

\* The types of the fields.
SegmentType ==
  [seqno : WrappingInt32, ack : {FALSE}, ackno : {0}, win : {0}, syn : BOOLEAN,
   fin : BOOLEAN, rst : {FALSE}, payload : Seq(Nat)]

ItemType == [seg : SegmentType, ack_index : Nat]

FlightType == Seq(ItemType)

StreamType ==
  [buffer : Seq(Nat), capcity : Nat, inputEnd : BOOLEAN,
   totoalWrite : Nat, totoalRead : Nat, error : BOOLEAN]

SenderType ==
  [isn : WrappingInt32, segments_out : Seq(SegmentType), stream : StreamType,
   next_seqno : Nat, cur_ack_index : Nat, fin_ack_index : Nat \cup {NoFin},
   seg_buffer : FlightType, wd_right_edge : Nat, retrans_num : Nat, RTO : Nat, timer : Nat]

NewSender(capacity, isn) ==
  [isn |-> isn, segments_out |-> <<>>, stream |-> NewByteStream(capacity),
   next_seqno |-> 0, cur_ack_index |-> 0, fin_ack_index |-> NoFin,
   seg_buffer |-> <<>>, wd_right_edge |-> 1, retrans_num |-> 0,
   RTO |-> rt_timeout, timer |-> 0]

bytes_in_flight(s) == s.next_seqno - s.cur_ack_index

get_init_seg(s) == [EmptySegment EXCEPT !.seqno = wrap(s.next_seqno, s.isn)]

send_new_seg(s, seg) ==
  LET next == s.next_seqno + length_in_sequence_space(seg)
  IN  [s EXCEPT !.segments_out = Append(@, seg),
                !.next_seqno = next,
                !.seg_buffer = Append(@, [seg |-> seg, ack_index |-> next])]

send_syn(s) == send_new_seg(s, [get_init_seg(s) EXCEPT !.syn = TRUE])

\* How many segments lines 58-72 cut data into.
segment_count(data, fin_flg) ==
  IF data = <<>> THEN IF fin_flg THEN 1 ELSE 0
  ELSE (Len(data) + MAX_PAYLOAD_SIZE - 1) \div MAX_PAYLOAD_SIZE

\* Lines 58-73: data goes out in segments of at most MAX_PAYLOAD_SIZE bytes,
\* the last of them with the FIN if fin_flg; with no data, the FIN alone.
\* sent(k) is how much of data the first k segments carry.
send_data(s, data, fin_flg) ==
  LET n       == segment_count(data, fin_flg)
      sent(k) == min(k * MAX_PAYLOAD_SIZE, Len(data))
      fin(k)  == IF fin_flg /\ k = n THEN 1 ELSE 0
      segs    == [k \in 1 .. n |->
                    [EmptySegment EXCEPT !.seqno = wrap(s.next_seqno + sent(k - 1), s.isn),
                                         !.fin = (fin(k) = 1),
                                         !.payload = SubSeq(data, sent(k - 1) + 1, sent(k))]]
      next    == s.next_seqno + Len(data) + (IF fin_flg THEN 1 ELSE 0)
  IN  [s EXCEPT !.segments_out = @ \o segs,
                !.seg_buffer = @ \o [k \in 1 .. n |->
                   [seg |-> segs[k], ack_index |-> s.next_seqno + sent(k) + fin(k)]],
                !.next_seqno = next,
                !.fin_ack_index = IF fin_flg THEN next ELSE @]

MutFinInFullWindow(s) ==
  LET fill_size == max(s.wd_right_edge - s.next_seqno, 0)
      data      == peek_output(s.stream, fill_size)
      rest      == pop_output(s.stream, fill_size)
  IN  send_data([s EXCEPT !.stream = rest], data, eof(rest))

\* Lines 50-73: read what the window admits; the FIN needs room of its own.
fill_from_stream(s) ==
  LET fill_size == max(s.wd_right_edge - s.next_seqno, 0)
      data      == peek_output(s.stream, fill_size)
      rest      == pop_output(s.stream, fill_size)
  IN  send_data([s EXCEPT !.stream = rest], data, eof(rest) /\ Len(data) < fill_size)

fill_window(s) ==
  IF s.next_seqno = s.fin_ack_index THEN s
  ELSE IF s.next_seqno = 0 THEN send_syn(s)
  ELSE fill_from_stream(s)

MutStartAcked(s, ack) ==
  CHOOSE n \in 0 .. Len(s.seg_buffer) :
     LET start(k) == s.seg_buffer[k].ack_index - length_in_sequence_space(s.seg_buffer[k].seg)
     IN  /\ \A k \in 1 .. n : start(k) <= ack
         /\ n < Len(s.seg_buffer) => start(n + 1) > ack

\* How many segments at the front of seg_buffer ack covers entirely.
acked_count(s, ack) ==
  CHOOSE n \in 0 .. Len(s.seg_buffer) :
     /\ \A k \in 1 .. n : s.seg_buffer[k].ack_index <= ack
     /\ n < Len(s.seg_buffer) => s.seg_buffer[n + 1].ack_index > ack

MutAckInsideSegment(s, ack) ==
  LET n == acked_count(s, ack)
  IN  IF n = 0 THEN s
      ELSE [s EXCEPT !.cur_ack_index = ack,
                     !.seg_buffer = SubSeq(@, n + 1, Len(@)),
                     !.RTO = rt_timeout, !.retrans_num = 0, !.timer = 0]

MutTimerNotRestarted(s, ack) ==
  LET n == acked_count(s, ack)
  IN  IF n = 0 THEN s
      ELSE [s EXCEPT !.cur_ack_index = s.seg_buffer[n].ack_index,
                     !.seg_buffer = SubSeq(@, n + 1, Len(@)),
                     !.RTO = rt_timeout, !.retrans_num = 0]

\* Lines 83-95.
pop_acked(s, ack) ==
  LET n == acked_count(s, ack)
  IN  IF n = 0 THEN s
      ELSE [s EXCEPT !.cur_ack_index = s.seg_buffer[n].ack_index,
                     !.seg_buffer = SubSeq(@, n + 1, Len(@)),
                     !.RTO = rt_timeout, !.retrans_num = 0, !.timer = 0]

MutEdgeFollowsAck(s, ack, window) == ack + window

\* Lines 96-100: the right edge only moves right.
right_edge(s, ack, window) == max(s.wd_right_edge, ack + window)

\* Lines 80-82.
ack_ignored(s, ack) == ack > s.next_seqno \/ ack < s.cur_ack_index

\* A zero window counts as one byte while fill_window runs (lines 102-104).
ack_received(s, ackNo, window) ==
  LET ack   == unwrap(ackNo, s.isn, s.next_seqno)
      edge  == right_edge(s, ack, window)
      probe == IF window = 0 THEN 1 ELSE 0
  IN  IF ack_ignored(s, ack) THEN s
      ELSE [fill_window([pop_acked(s, ack) EXCEPT !.wd_right_edge = edge + probe])
              EXCEPT !.wd_right_edge = edge]

timed_out(s, ms) == s.timer + ms >= s.RTO

MutTickNotAdded(s, ms) ==
  IF s.seg_buffer = <<>> \/ ~timed_out(s, ms) THEN s
  ELSE [s EXCEPT !.segments_out = Append(@, s.seg_buffer[1].seg), !.timer = 0]

sender_tick(s, ms) ==
  LET backoff == s.wd_right_edge # s.cur_ack_index
  IN  IF s.seg_buffer = <<>> THEN s
      ELSE IF ~timed_out(s, ms) THEN [s EXCEPT !.timer = @ + ms]
      ELSE [s EXCEPT !.segments_out = Append(@, s.seg_buffer[1].seg),
                     !.retrans_num = IF backoff THEN @ + 1 ELSE @,
                     !.RTO = IF backoff THEN 2 * @ ELSE @,
                     !.timer = 0]

\* Segments without SYN, data or FIN are not kept for retransmission.
send_empty_ack(s) ==
  IF s.next_seqno = 0 THEN send_syn(s)
  ELSE [s EXCEPT !.segments_out = Append(@, get_init_seg(s))]
=============================================================================
