--------------------------- MODULE WrappingIntegers ---------------------------
(***************************************************************************)
(* wrapping_integers.cc: the conversion between 64-bit absolute sequence   *)
(* numbers and the 32-bit sequence numbers of the wire.                    *)
(*                                                                         *)
(* MaxInt is max_int, 2^32 in the code.  The 64-bit arithmetic of unwrap   *)
(* is that of the integers here: `checkpoint - left` is exact modulo 2^64  *)
(* even where `left` itself wraps below zero, and `right` overflows only   *)
(* for a checkpoint within 2^33 of 2^64.                                   *)
(*                                                                         *)
(* Definitions whose name starts with Mut, here and in the other modules,  *)
(* are not part of the model: each is the definition that follows it with  *)
(* a plausible bug, kept to show that some property notices it.            *)
(***************************************************************************)
EXTENDS Integers

CONSTANT MaxInt

ASSUME MaxIntAssumption == MaxInt \in Nat \ {0, 1}

\* WrappingInt32: the raw values.
WrappingInt32 == 0 .. MaxInt - 1

\* The raw value of absolute sequence number n of a stream that starts at isn.
wrap(n, isn) == (isn + n) % MaxInt

\* The candidate for raw value n that lies in the checkpoint's own block.
candidate(n, isn, checkpoint) ==
  ((MaxInt - isn + n) % MaxInt) + (checkpoint \div MaxInt) * MaxInt

MutNeverRight(n, isn, checkpoint) ==
  LET mid  == candidate(n, isn, checkpoint)
      left == mid - MaxInt
  IN  IF mid > checkpoint
      THEN IF mid - checkpoint < checkpoint - left \/ mid < MaxInt THEN mid ELSE left
      ELSE mid

\* The absolute sequence number that raw value n stands for, near checkpoint.
unwrap(n, isn, checkpoint) ==
  LET mid   == candidate(n, isn, checkpoint)
      right == mid + MaxInt
      left  == mid - MaxInt
  IN  IF mid > checkpoint
      THEN IF mid - checkpoint < checkpoint - left \/ mid < MaxInt THEN mid ELSE left
      ELSE IF right - checkpoint < checkpoint - mid THEN right ELSE mid
=============================================================================
