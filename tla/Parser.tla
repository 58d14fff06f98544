-------------------------------- MODULE Parser --------------------------------
(***************************************************************************)
(* What the wire formats are read and written with: Buffer and BufferList  *)
(* (util/buffer), NetParser and NetUnparser (util/parser) and              *)
(* InternetChecksum (util/util.cc).                                        *)
(*                                                                         *)
(* A Buffer is the sequence of the bytes it shows; its storage is shared   *)
(* but never written to.  A BufferList is a sequence of Buffers.  A        *)
(* uint32_t is the pair of its halves: TLC's own numbers have 32 bits with *)
(* the sign.                                                               *)
(***************************************************************************)
EXTENDS Integers, Sequences

Zeros(n) == [k \in 1..n |-> 0]

\* Buffer::remove_prefix, for an n that the caller has checked.
remove_prefix(buffer, n) == SubSeq(buffer, n + 1, Len(buffer))

\* BufferList::concatenate, and what writev does with the list.
concatenate(list) ==
    LET joined[n \in 0..Len(list)] == IF n = 0 THEN <<>> ELSE joined[n - 1] \o list[n]
    IN  joined[Len(list)]

-----------------------------------------------------------------------------
(***************************************************************************)
(* A NetParser keeps the first error.  Here the fields of a header are read*)
(* at their places in its buffer, and whether all of them were there is    *)
(* told by too_short: once one is missing so are the ones behind it.       *)
(***************************************************************************)
too_short(buffer, n) == n > Len(buffer)

u8(buffer, at) == buffer[at + 1]
u16(buffer, at) == 256 * buffer[at + 1] + buffer[at + 2]
u32(buffer, at) == <<u16(buffer, at), u16(buffer, at + 2)>>

\* Bit n of a byte, of a flag on its way into one.
bit(value, n) == (value \div 2^n) % 2 = 1
flag(value, n) == IF value THEN 2^n ELSE 0

\* NetUnparser.
put_u16(value) == <<value \div 256, value % 256>>
put_u32(value) == put_u16(value[1]) \o put_u16(value[2])

-----------------------------------------------------------------------------
\* InternetChecksum::add from an even place: bytes are high and low in turn.
added(data) ==
    LET sum[n \in 0..Len(data)] ==
          IF n = 0 THEN 0
          ELSE sum[n - 1] + (IF n % 2 = 0 THEN data[n] ELSE 256 * data[n])
    IN  sum[Len(data)]

\* One turn of the loop in value(): the carries are added to the low half.
carried(sum) == sum \div 65536 + (sum % 65536)

\* InternetChecksum::value, for a sum of fewer than 2^15 terms, whose carries
\* are gone after two turns.
checksum(initial_sum, data) == 65535 - carried(carried(initial_sum + added(data)))
=============================================================================
