------------------------------ MODULE TCPSegment ------------------------------
(***************************************************************************)
(* tcp_segment.cc, tcp_header.hh: the fields of a segment that the state   *)
(* machines read.  Ports, checksum, urgent pointer, options and the byte   *)
(* layout are left out; a segment with a bad checksum is a lost one.       *)
(***************************************************************************)
EXTENDS Integers, Sequences

\* A default-constructed TCPSegment.
EmptySegment ==
  [seqno |-> 0, ack |-> FALSE, ackno |-> 0, win |-> 0,
   syn |-> FALSE, fin |-> FALSE, rst |-> FALSE, payload |-> <<>>]

length_in_sequence_space(seg) ==
  Len(seg.payload) + (IF seg.syn THEN 1 ELSE 0) + (IF seg.fin THEN 1 ELSE 0)
=============================================================================
