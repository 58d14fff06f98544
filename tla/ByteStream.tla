------------------------------ MODULE ByteStream ------------------------------
(***************************************************************************)
(* byte_stream.cc: a bounded FIFO of bytes with an end mark.               *)
(*                                                                         *)
(* The object is a record and its methods are operators on it, so that the *)
(* classes that own a ByteStream compose them.  The code's `size` counter  *)
(* is Len(buffer) (every method changes the two together).                 *)
(***************************************************************************)
EXTENDS Integers, Sequences

\* std::min and std::max.
min(a, b) == IF a < b THEN a ELSE b

max(a, b) == IF a < b THEN b ELSE a

NewByteStream(capacity) ==
  [buffer |-> <<>>, capcity |-> capacity, inputEnd |-> FALSE,
   totoalWrite |-> 0, totoalRead |-> 0, error |-> FALSE]

buffer_size(s) == Len(s.buffer)

remaining_capacity(s) == s.capcity - buffer_size(s)

eof(s) == s.inputEnd /\ buffer_size(s) = 0

\* Takes the bytes that fit, whether or not the input has been ended.
stream_write(s, data) ==
  LET addsize == min(Len(data), remaining_capacity(s))
  IN  [s EXCEPT !.buffer = @ \o SubSeq(data, 1, addsize),
                !.totoalWrite = @ + addsize]

peek_output(s, len) == SubSeq(s.buffer, 1, min(len, buffer_size(s)))

pop_output(s, len) ==
  LET n == min(len, buffer_size(s))
  IN  [s EXCEPT !.buffer = SubSeq(@, n + 1, Len(@)),
                !.totoalRead = @ + n]

end_input(s) == [s EXCEPT !.inputEnd = TRUE]

set_error(s) == [s EXCEPT !.error = TRUE]
=============================================================================
