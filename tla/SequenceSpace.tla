----------------------------- MODULE SequenceSpace -----------------------------
(***************************************************************************)
(* Two ends of one stream agree on absolute sequence numbers although the  *)
(* wire carries them modulo MaxInt.  seqno is the number one end wraps,    *)
(* checkpoint the number the other end unwraps it against: a receiver's    *)
(* checkpoint is bytes_written (tcp_receiver.cc:24-31), a sender's is      *)
(* _next_seqno (tcp_sender.cc:78).  Both only grow.                        *)
(***************************************************************************)
EXTENDS WrappingIntegers

CONSTANT MaxSeqno    \* bound: how far the two ends run

ASSUME MaxSeqnoAssumption == MaxSeqno \in Nat

VARIABLES isn, seqno, checkpoint

spaceVars == <<isn, seqno, checkpoint>>

SpaceInit == isn \in WrappingInt32 /\ seqno = 0 /\ checkpoint = 0

AdvanceSeqno ==
  /\ seqno < MaxSeqno
  /\ seqno' = seqno + 1
  /\ UNCHANGED <<isn, checkpoint>>

AdvanceCheckpoint ==
  /\ checkpoint < MaxSeqno
  /\ checkpoint' = checkpoint + 1
  /\ UNCHANGED <<isn, seqno>>

SpaceNext == AdvanceSeqno \/ AdvanceCheckpoint

SpaceSpec == SpaceInit /\ [][SpaceNext]_spaceVars

received == unwrap(wrap(seqno, isn), isn, checkpoint)

distance(a, b) == IF a < b THEN b - a ELSE a - b

\* The types of the code's unsigned variables; unwrap does not underflow.
SpaceTypeOK ==
  /\ isn \in WrappingInt32 /\ seqno \in Nat /\ checkpoint \in Nat
  /\ received \in Nat

\* unwrap inverts wrap for every number less than half of the 32-bit space
\* away from the checkpoint, wherever in the 64-bit space the two are: what
\* TCPReceiver::segment_received and TCPSender::ack_received rely on.
RoundTrip ==
  (2 * (seqno - checkpoint) < MaxInt /\ 2 * (checkpoint - seqno) <= MaxInt)
    => received = seqno

\* unwrap returns a number that wraps to n, and no number that wraps to n is
\* strictly closer to the checkpoint (the contract at wrapping_integers.cc:23).
UnwrapIsClosest ==
  LET d == distance(received, checkpoint)
  IN  /\ wrap(received, isn) = wrap(seqno, isn)
      /\ \A x \in (checkpoint - d + 1) .. (checkpoint + d - 1) :
            x >= 0 => wrap(x, isn) # wrap(seqno, isn)
=============================================================================
