------------------------------ MODULE TCPReceiver ------------------------------
(***************************************************************************)
(* tcp_receiver.cc: turns inbound segments into substrings for the         *)
(* StreamReassembler, and computes the ackno and window to advertise.      *)
(* _capacity is the capacity of the reassembler and of its output.         *)
(***************************************************************************)
EXTENDS StreamReassembler, TCPSegment

NewReceiver(capacity) ==
  [reassembler |-> NewReassembler(capacity), recieve_isn |-> FALSE, isn |-> 0]

stream_out(rcv) == rcv.reassembler.outputStream

\* The SYN occupies a sequence number of its own: isn is that of byte 0.
learn_isn(rcv, seg) ==
  IF seg.syn
  THEN [rcv EXCEPT !.recieve_isn = TRUE, !.isn = wrap(1, seg.seqno)]
  ELSE rcv

\* The stream index of the segment's first payload byte.
seg_start(rcv, seg) ==
  IF seg.syn THEN 0 ELSE unwrap(seg.seqno, rcv.isn, stream_out(rcv).totoalWrite)

\* Does some part of the segment lie in the window?
in_window(rcv, seg) ==
  LET win_left  == stream_out(rcv).totoalWrite
      win_right == remaining_capacity(stream_out(rcv)) + win_left - 1
  IN  /\ seg_start(rcv, seg) <= win_right
      /\ seg_start(rcv, seg) + length_in_sequence_space(seg) > win_left

receiver_segment_received(rcv0, seg) ==
  LET rcv == learn_isn(rcv0, seg)
  IN  IF rcv.recieve_isn /\ in_window(rcv, seg)
      THEN [rcv EXCEPT !.reassembler =
              push_substring(@, seg.payload, seg_start(rcv, seg), seg.fin)]
      ELSE rcv

\* ackno(): meaningful once recieve_isn holds; the FIN counts once it is assembled.
ackno(rcv) ==
  wrap(stream_out(rcv).totoalWrite + (IF stream_out(rcv).inputEnd THEN 1 ELSE 0), rcv.isn)

MutWholeCapacity(rcv) == stream_out(rcv).capcity

window_size(rcv) == remaining_capacity(stream_out(rcv))
=============================================================================
