---------------------------- MODULE ReassemblyLoop ----------------------------
(***************************************************************************)
(* The merge loop of push_substring as it is written (an iterator from     *)
(* upper_bound, one step back, forward until a node lies to the right),    *)
(* against the set-based insert_node of StreamReassembler.                 *)
(***************************************************************************)
EXTENDS Reassembly, SequencesExt

\* The order of std::set<node>.
in_order(seg_buffer) ==
  [k \in 1 .. Cardinality(seg_buffer) |->
     CHOOSE s \in seg_buffer :
        Cardinality({t \in seg_buffer : t.start_idx < s.start_idx}) = k - 1]

MutNoStepBack(segs, nd) ==
  SelectSeq(segs, LAMBDA s : s.start_idx > nd.start_idx)

\* The nodes the iterator can reach: from one before upper_bound(nd) on.
from_iterator(segs, nd) ==
  LET upper == Len(SelectSeq(segs, LAMBDA s : s.start_idx <= nd.start_idx))
  IN  SubSeq(segs, max(upper, 1), Len(segs))

\* One turn of the while loop.
loop_step(it, s) ==
  IF it.stop THEN it
  ELSE IF s.end_idx + 1 >= it.nd.start_idx /\ it.nd.end_idx + 1 >= s.start_idx
       THEN [it EXCEPT !.nd = mergeTo(s, @), !.erased = @ \cup {s}]
       ELSE [it EXCEPT !.stop = s.start_idx > it.nd.end_idx]

merge_loop(seg_buffer, nd) ==
  FoldLeft(loop_step, [nd |-> nd, erased |-> {}, stop |-> FALSE],
           from_iterator(in_order(seg_buffer), nd))

-----------------------------------------------------------------------------
\* In every reachable state, for every piece that may arrive, the loop erases
\* exactly the nodes the piece touches and ends with the same merged node.
LoopAgrees ==
  \A first \in r.cur_idx .. max_idx(r) : \A last \in first .. max_idx(r) :
     last < Len(Source) =>
       LET nd   == node(first, SubSeq(Source, first + 1, last + 1))
           segs == touching(r.seg_buffer, nd)
       IN  LET end == merge_loop(r.seg_buffer, nd)
           IN  end.erased = segs /\ end.nd = absorb(segs, nd)
=============================================================================
