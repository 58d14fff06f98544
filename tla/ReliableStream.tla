---------------------------- MODULE ReliableStream ----------------------------
(***************************************************************************)
(* What one direction of a connection promises to the two applications:    *)
(* bytes come out as they were put in, in order and once, and the reader   *)
(* sees the end of the stream only after the writer ended it and the       *)
(* reader has every byte.                                                  *)
(***************************************************************************)
EXTENDS Naturals, Sequences

VARIABLES sent, rcvd, ended, eofSeen

Init == sent = <<>> /\ rcvd = <<>> /\ ended = FALSE /\ eofSeen = FALSE

IsPrefix(s, t) == Len(s) <= Len(t) /\ SubSeq(t, 1, Len(s)) = s

Write ==
  /\ ~ended
  /\ Len(sent) < Len(sent') /\ IsPrefix(sent, sent')
  /\ UNCHANGED <<rcvd, ended, eofSeen>>

End ==
  /\ ended' = TRUE
  /\ UNCHANGED <<sent, rcvd, eofSeen>>

\* The reader gets more bytes, or learns that there are no more, or both.
Receive ==
  /\ ~eofSeen
  /\ IsPrefix(rcvd, rcvd') /\ IsPrefix(rcvd', sent)
  /\ eofSeen' => ended /\ rcvd' = sent
  /\ UNCHANGED <<sent, ended>>

Next == Write \/ End \/ Receive

Spec == Init /\ [][Next]_<<sent, rcvd, ended, eofSeen>>
=============================================================================
