--------------------------- MODULE StreamReassembler ---------------------------
(***************************************************************************)
(* stream_reassembler.cc: substrings of a stream, arriving in any order,   *)
(* are held until they are contiguous with what has been assembled, and    *)
(* are then written to the output ByteStream.                              *)
(*                                                                         *)
(* _seg_buffer is a set of nodes (std::set<node>).  The while loop that    *)
(* walks it (lines 53-72) is the pair touching/absorb below: the stored    *)
(* nodes are separated (see SegmentsSeparated in Reassembly), so at most   *)
(* one of them reaches out of the new node on each side and all others     *)
(* that touch it lie inside it.  ReassemblyLoop has the loop as written    *)
(* and the check that the two agree.                                       *)
(***************************************************************************)
EXTENDS ByteStream, WrappingIntegers, Folds

\* _input_end_idx before any eof has been seen: not "none" but a number.
UINT32_MAX == MaxInt - 1

NewReassembler(capacity) ==
  [outputStream |-> NewByteStream(capacity), seg_buffer |-> {},
   cur_idx |-> 0, input_end_idx |-> UINT32_MAX, unassembled_bytes |-> 0]

node(index, data) ==
  [start_idx |-> index, end_idx |-> index + Len(data) - 1, data |-> data]

MutMergeLeftOnly(a, b) ==
  IF a.start_idx < b.start_idx
  THEN [start_idx |-> a.start_idx, end_idx |-> b.end_idx,
        data |-> SubSeq(a.data, 1, b.start_idx - a.start_idx) \o b.data]
  ELSE b

\* b extended by the bytes of a that lie outside b; b's own bytes stay.
mergeTo(a, b) ==
  LET left  == IF a.start_idx < b.start_idx
               THEN SubSeq(a.data, 1, b.start_idx - a.start_idx) ELSE <<>>
      right == IF a.end_idx > b.end_idx
               THEN SubSeq(a.data, Len(a.data) - (a.end_idx - b.end_idx) + 1, Len(a.data))
               ELSE <<>>
  IN  [start_idx |-> min(a.start_idx, b.start_idx),
       end_idx   |-> max(a.end_idx, b.end_idx),
       data      |-> left \o b.data \o right]

MutOverlapping(seg_buffer, nd) ==
  {s \in seg_buffer : s.end_idx >= nd.start_idx /\ nd.end_idx >= s.start_idx}

\* The stored nodes that overlap nd or are adjacent to it.
touching(seg_buffer, nd) ==
  {s \in seg_buffer : s.end_idx + 1 >= nd.start_idx /\ nd.end_idx + 1 >= s.start_idx}

\* nd merged with the stored nodes it touches.
absorb(segs, nd) ==
  LET lefts  == {s \in segs : s.start_idx < nd.start_idx}
      rights == {s \in segs : s.end_idx > nd.end_idx}
      nd1    == IF lefts = {} THEN nd ELSE mergeTo(CHOOSE s \in lefts : TRUE, nd)
  IN  IF rights = {} THEN nd1 ELSE mergeTo(CHOOSE s \in rights : TRUE, nd1)

\* The last byte index that fits the window.
max_idx(r) == r.cur_idx + remaining_capacity(r.outputStream) - 1

trim_left(r, nd) ==
  IF nd.start_idx < r.cur_idx
  THEN [nd EXCEPT !.start_idx = r.cur_idx,
                  !.data = SubSeq(@, r.cur_idx - nd.start_idx + 1, Len(@))]
  ELSE nd

MutTrimNothing(r, nd) == nd

trim_right(r, nd) ==
  IF nd.end_idx > max_idx(r)
  THEN [nd EXCEPT !.end_idx = max_idx(r),
                  !.data = SubSeq(@, 1, Len(@) - (nd.end_idx - max_idx(r)))]
  ELSE nd

MutEndPastLast(r) ==
  IF r.cur_idx > r.input_end_idx
  THEN [r EXCEPT !.outputStream = end_input(@)] ELSE r

MutEndOnMark(r) ==
  IF r.input_end_idx # UINT32_MAX
  THEN [r EXCEPT !.outputStream = end_input(@)] ELSE r

\* `if (_cur_idx >= _input_end_idx) _outputStream.end_input()`
end_if_complete(r) ==
  IF r.cur_idx >= r.input_end_idx
  THEN [r EXCEPT !.outputStream = end_input(@)] ELSE r

stored_bytes(segs) ==
  MapThenFoldSet(+, 0, LAMBDA s : Len(s.data), LAMBDA S : CHOOSE s \in S : TRUE, segs)

\* Lines 53-81, for a node that lies within the window.
insert_node(r, nd) ==
  LET segs == touching(r.seg_buffer, nd)
      nd1  == absorb(segs, nd)
      rest == [r EXCEPT !.seg_buffer = @ \ segs,
                        !.unassembled_bytes = @ - stored_bytes(segs)]
  IN  IF nd1.start_idx = r.cur_idx
      THEN end_if_complete(
             [rest EXCEPT !.outputStream = stream_write(@, nd1.data),
                          !.cur_idx = nd1.end_idx + 1])
      ELSE [rest EXCEPT !.seg_buffer = @ \cup {nd1},
                        !.unassembled_bytes = @ + Len(nd1.data)]

push_substring(r, data, index, eofFlag) ==
  LET nd == node(index, data)
      r0 == IF eofFlag THEN [r EXCEPT !.input_end_idx = index + Len(data)] ELSE r
  IN  IF r.cur_idx > nd.end_idx \/ nd.start_idx > max_idx(r) \/ data = <<>>
      THEN end_if_complete(r0)
      ELSE insert_node(r0, trim_right(r0, trim_left(r0, nd)))
=============================================================================
