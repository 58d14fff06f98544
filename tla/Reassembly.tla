------------------------------ MODULE Reassembly ------------------------------
(***************************************************************************)
(* A StreamReassembler at work: pieces of the logical stream Source arrive *)
(* cut anywhere, in any order and any number of times, the piece that ends *)
(* the stream with or without the eof mark (a TCP peer may send FIN apart  *)
(* from the last byte), while a reader takes bytes from the output.        *)
(***************************************************************************)
EXTENDS StreamReassembler

CONSTANTS
  Byte,       \* the values a byte can have
  Source,     \* the logical stream, a sequence of bytes
  Capacity    \* the reassembler's capacity

ASSUME SourceAssumption == Source \in Seq(Byte)

ASSUME CapacityAssumption == Capacity \in Nat \ {0}

VARIABLES
  r,          \* the StreamReassembler
  delivered   \* the bytes the reader has taken so far

vars == <<r, delivered>>

Init == r = NewReassembler(Capacity) /\ delivered = <<>>

\* push_substring of the bytes with index first, ..., last - 1 of the stream.
Push(first, last, eofFlag) ==
  /\ eofFlag => last = Len(Source)
  /\ r' = push_substring(r, SubSeq(Source, first + 1, last), first, eofFlag)
  /\ UNCHANGED delivered

\* peek_output and pop_output of len bytes, as rule 3 of the socket does.
Read(len) ==
  /\ len <= buffer_size(r.outputStream)
  /\ delivered' = delivered \o peek_output(r.outputStream, len)
  /\ r' = [r EXCEPT !.outputStream = pop_output(@, len)]

Next ==
  \/ \E first \in 0 .. Len(Source) : \E last \in first .. Len(Source) :
        \E eofFlag \in BOOLEAN : Push(first, last, eofFlag)
  \/ \E len \in 1 .. Capacity : Read(len)

Spec == Init /\ [][Next]_vars

\* The peer keeps sending the oldest byte that is not assembled, and then the
\* end of the stream; the reader reads.
Retransmit ==
  IF r.cur_idx < Len(Source) THEN Push(r.cur_idx, r.cur_idx + 1, FALSE)
                             ELSE Push(r.cur_idx, r.cur_idx, TRUE)

Fairness == WF_vars(Retransmit) /\ WF_vars(Read(1))

FairSpec == Spec /\ Fairness

\* The indices of the bytes a node holds, and of all bytes accepted so far.
indices(s) == s.start_idx .. s.end_idx

accepted == (0 .. r.cur_idx - 1) \cup UNION {indices(s) : s \in r.seg_buffer}

-----------------------------------------------------------------------------
NodeType == [start_idx : Nat, end_idx : Nat, data : Seq(Byte)]

TypeOK ==
  /\ DOMAIN r = {"outputStream", "seg_buffer", "cur_idx", "input_end_idx",
                 "unassembled_bytes"}
  /\ r.outputStream \in [buffer : Seq(Byte), capcity : {Capacity},
                         inputEnd : BOOLEAN, totoalWrite : Nat,
                         totoalRead : Nat, error : {FALSE}]
  /\ \A s \in r.seg_buffer : s \in NodeType
  /\ r.cur_idx \in Nat
  /\ r.input_end_idx \in Nat
  /\ delivered \in Seq(Byte)

\* What has been read and what is waiting to be read are together the first
\* _cur_idx bytes of the stream: push_substring loses, repeats and reorders
\* nothing, however the pieces were cut and in whatever order they came.
AssembledIsPrefix ==
  /\ r.cur_idx = r.outputStream.totoalWrite
  /\ delivered \o r.outputStream.buffer = SubSeq(Source, 1, r.cur_idx)

\* Stored nodes hold the stream's bytes at their indices, lie beyond what is
\* assembled with a gap before them, and neither overlap nor touch each
\* other: otherwise the loop at lines 53-72 would miss one of them.
SegmentsSeparated ==
  /\ \A s \in r.seg_buffer :
        /\ r.cur_idx < s.start_idx /\ s.start_idx <= s.end_idx
        /\ s.end_idx < Len(Source)
        /\ s.data = SubSeq(Source, s.start_idx + 1, s.end_idx + 1)
  /\ \A s, t \in r.seg_buffer :
        s # t => s.end_idx + 1 < t.start_idx \/ t.end_idx + 1 < s.start_idx

\* The bytes held, assembled and unread or stored, never exceed the capacity
\* (stream_reassembler.hh: "both bytes that have been reassembled, and those
\* that have not yet been"), and no stored byte lies beyond the window that
\* an empty output would have.
CapacityRespected ==
  /\ buffer_size(r.outputStream) <= Capacity
  /\ \A s \in r.seg_buffer : s.end_idx < r.outputStream.totoalRead + Capacity

\* The output ends only when every byte of the stream has been assembled
\* ("the last byte of `data` will be the last byte in the entire stream",
\* stream_reassembler.hh:50).
EndsOnlyWhenComplete == r.outputStream.inputEnd => r.cur_idx = Len(Source)

\* A byte the reassembler has accepted stays accepted: a later push never
\* makes it forget a stored node, and _cur_idx never moves back.
NothingForgotten == [][accepted \subseteq accepted']_vars

\* Once the eof mark has been seen and all bytes are assembled the output has
\* ended, even if the mark came before the bytes or after them.
EndIsNotMissed ==
  (r.input_end_idx = Len(Source) /\ r.cur_idx = Len(Source)) => r.outputStream.inputEnd

\* If the oldest missing byte keeps being offered and the reader keeps reading, the whole
\* stream is delivered and the reader sees its end: no window, however full
\* of stored nodes, keeps the next byte out for ever.
AllDelivered == <>(delivered = Source /\ eof(r.outputStream))
=============================================================================
