---------------------------- MODULE ReceivingProofs ----------------------------
(***************************************************************************)
(* What a receiver is made of, for every size: its sequence numbers        *)
(* (SequenceSpace) and its StreamReassembler (Reassembly).                 *)
(*                                                                         *)
(* The inductive invariant IInv of Reassembly says that the output is a    *)
(* slice of the stream, that the stored nodes are separated Pieces beyond  *)
(* it and within the window, and that the end mark is set exactly when it  *)
(* should be; it is stronger than the properties in that it places the     *)
(* boundary between delivered and unread bytes.  The sum in                *)
(* _unassembled_bytes is left out.                                         *)
(***************************************************************************)
EXTENDS Reassembly, SequenceSpace, TCPReceiverProofs, TLAPS

\* The stream and the capacity, as the lemmas want them.
LEMMA SourceStream ==
  /\ Source \in Seq(Values(Source)) /\ Capacity \in Nat
  /\ Values(Source) \subseteq Byte /\ Seq(Values(Source)) \subseteq Seq(Byte)
<1>1. Values(Source) \subseteq Byte
  BY SourceAssumption DEF Values
<1>2. Source \in Seq(Values(Source))
  <2>1. /\ Len(Source) \in Nat /\ DOMAIN Source = 1 .. Len(Source)
        /\ Source = [i \in 1 .. Len(Source) |-> Source[i]]
    BY SourceAssumption
  <2>2. \A i \in 1 .. Len(Source) : Source[i] \in Values(Source)
    BY <2>1 DEF Values
  <2>3. QED
    BY <2>1, <2>2
<1>3. Seq(Values(Source)) \subseteq Seq(Byte)
  BY <1>1
<1>4. QED
  BY <1>1, <1>2, <1>3, CapacityAssumption

\* The inductive invariant.
IInv == ReassemblerCore(Source, Capacity, FALSE, r, delivered) /\ EndSeen(Source, r)

\* The constructor establishes the invariant.
LEMMA InitIInv == Init => IInv
  BY Zenon, SourceStream, NewKeepsCore DEF Init, IInv

\* Every step keeps the invariant, and what has been accepted.
LEMMA NextIInv == IInv /\ [Next]_vars => IInv' /\ accepted \subseteq accepted'
<1> SUFFICES ASSUME IInv, [Next]_vars PROVE IInv' /\ accepted \subseteq accepted'
  OBVIOUS
<1>1. accepted = Accepted(r) /\ accepted' = Accepted(r')
  BY DEF accepted, Accepted, indices, Indices
<1>2. ASSUME NEW first \in 0 .. Len(Source), NEW last \in first .. Len(Source),
             NEW eofFlag \in BOOLEAN, Push(first, last, eofFlag)
      PROVE  IInv' /\ accepted \subseteq accepted'
  <2>1. /\ first \in Nat /\ last \in Nat /\ first <= last /\ last <= Len(Source)
        /\ eofFlag => last = Len(Source)
        /\ delivered' = delivered
        /\ r' = push_substring(r, Slice(Source, first, last), first, eofFlag)
    BY <1>2, SourceAssumption DEF Push, Slice
  <2>2. /\ ReassemblerCore(Source, Capacity, FALSE, r', delivered)
        /\ EndSeen(Source, r') /\ Accepted(r) \subseteq Accepted(r')
    BY Zenon, <2>1, SourceStream, PushKeepsCore DEF IInv
  <2>3. QED
    BY Zenon, <2>1, <2>2, <1>1 DEF IInv
<1>3. ASSUME NEW len \in 1 .. Capacity, Read(len)
      PROVE  IInv' /\ accepted \subseteq accepted'
  <2>1. /\ len \in Nat /\ len <= buffer_size(r.outputStream)
        /\ delivered' = Taken(r, delivered, len) /\ r' = Popped(r, len)
    BY <1>3, CapacityAssumption DEF Read, Taken, Popped
  <2>2. ReassemblerCore(Source, Capacity, FALSE, r, delivered) /\ EndSeen(Source, r)
    BY Zenon DEF IInv
  <2>3. /\ ReassemblerCore(Source, Capacity, FALSE, r', delivered')
        /\ EndSeen(Source, r') /\ Accepted(r') = Accepted(r)
    <3>1. /\ ReassemblerCore(Source, Capacity, FALSE, Popped(r, len), Taken(r, delivered, len))
          /\ EndSeen(Source, Popped(r, len)) /\ Accepted(Popped(r, len)) = Accepted(r)
      BY ONLY Zenon, <2>1, <2>2, SourceStream, ReadKeepsCore
    <3>2. QED
      BY Zenon, <3>1, <2>1
  <2>4. QED
    BY Zenon, <2>1, <2>3, <1>1 DEF IInv
<1>4. CASE UNCHANGED vars
  BY Zenon, <1>4 DEF vars, IInv, accepted
<1>5. QED
  BY <1>2, <1>3, <1>4 DEF Next

\* IInv is an invariant of the specification.
LEMMA Invariance == Spec => []IInv
  BY InitIInv, NextIInv, PTL DEF Spec

\* What ReassemblerCore says in terms of the properties.
LEMMA IInvImplies ==
  IInv => /\ TypeOK /\ AssembledIsPrefix /\ SegmentsSeparated
          /\ CapacityRespected /\ EndIsNotMissed
          /\ (Len(Source) <= UINT32_MAX => EndsOnlyWhenComplete)
<1> SUFFICES ASSUME IInv
             PROVE  /\ TypeOK /\ AssembledIsPrefix /\ SegmentsSeparated
                    /\ CapacityRespected /\ EndIsNotMissed
                    /\ (Len(Source) <= UINT32_MAX => EndsOnlyWhenComplete)
  OBVIOUS
<1> DEFINE out == r.outputStream
           cur == r.cur_idx
           rd  == r.outputStream.totoalRead
<1>1. /\ cur \in Nat /\ rd \in Nat /\ Capacity \in Nat /\ Len(Source) \in Nat
      /\ rd <= cur /\ cur <= Len(Source) /\ cur <= rd + Capacity
      /\ out \in OutputType(Source, Capacity, FALSE) /\ out.buffer = Slice(Source, rd, cur)
      /\ delivered = Slice(Source, 0, rd)
      /\ out.totoalWrite = cur /\ DOMAIN r = Fields
      /\ StoreCore(Source, r.seg_buffer, cur, rd + Capacity)
      /\ r.input_end_idx \in Nat
  <2>1. cur \in Nat /\ rd \in Nat /\ Capacity \in Nat /\ Len(Source) \in Nat
    <3>1. Capacity \in Nat /\ Len(Source) \in Nat
      BY CapacityAssumption, SourceAssumption
    <3>2. OutputCore(Source, Capacity, FALSE, out, cur, delivered)
      BY Zenon DEF IInv, ReassemblerCore
    <3>3. cur \in Nat /\ out \in OutputType(Source, Capacity, FALSE)
      BY Zenon, <3>2 DEF OutputCore
    <3>4. rd \in Nat
      BY Zenon, <3>3 DEF OutputType
    <3>5. QED
      BY <3>1, <3>3, <3>4
  <2>2. r.input_end_idx \in Nat
    BY <2>1, MaxIntAssumption DEF IInv, ReassemblerCore, UINT32_MAX
  <2>3. QED
    BY Zenon, <2>1, <2>2 DEF IInv, ReassemblerCore, OutputCore
<1>2. (Len(Source) <= UINT32_MAX => EndsOnlyWhenComplete) /\ EndIsNotMissed
  BY DEF IInv, ReassemblerCore, OutputCore, EndSeen, EndsOnlyWhenComplete, EndIsNotMissed
<1>3. \A s \in r.seg_buffer :
         /\ s.start_idx \in Nat /\ s.end_idx \in Nat /\ s.start_idx <= s.end_idx
         /\ s.end_idx < Len(Source) /\ cur < s.start_idx /\ s.end_idx < rd + Capacity
         /\ s = Piece(Source, s.start_idx, s.end_idx)
  BY <1>1 DEF StoreCore, IsPiece
<1> HIDE DEF cur, rd
<1>4. AssembledIsPrefix
  <2>1. Slice(Source, 0, rd) \o Slice(Source, rd, cur) = Slice(Source, 0, cur)
    <3>1. 0 \in Nat /\ rd \in Nat /\ cur \in Nat /\ 0 <= rd /\ rd <= cur /\ cur <= Len(Source)
      BY <1>1
    <3>2. Source \in Seq(Values(Source))
      BY SourceStream
    <3>3. QED
      BY <3>1, <3>2, SliceConcat
  <2>2. Slice(Source, 0, cur) = SubSeq(Source, 1, cur)
    BY DEF Slice
  <2>3. QED
    BY <2>1, <2>2, <1>1 DEF AssembledIsPrefix, cur
<1>5. SegmentsSeparated
  <2>1. \A s \in r.seg_buffer : s.data = SubSeq(Source, s.start_idx + 1, s.end_idx + 1)
    BY <1>3 DEF Piece, Slice
  <2>2. QED
    BY <2>1, <1>1, <1>3 DEF SegmentsSeparated, StoreCore, Separated, cur
<1>6. CapacityRespected
  <2>1. Len(Slice(Source, rd, cur)) = cur - rd
    BY <1>1, SourceStream, SliceType
  <2>2. buffer_size(out) <= Capacity
    BY <2>1, <1>1 DEF buffer_size
  <2>3. QED
    BY <2>2, <1>3 DEF CapacityRespected, rd
<1>7. TypeOK
  <2>1. ASSUME NEW s \in r.seg_buffer PROVE s \in NodeType
    <3>1. PICK a \in Nat, b \in Nat : a = s.start_idx /\ b = s.end_idx + 1
      BY <1>3
    <3>2. a <= b /\ b <= Len(Source)
      BY <3>1, <1>1, <1>3
    <3>3. Slice(Source, a, b) \in Seq(Byte)
      BY <3>2, SourceStream, SliceType
    <3>4. QED
      BY <3>1, <3>3, <1>3 DEF NodeType, Piece
  <2>2. delivered \in Seq(Byte)
    <3>1. 0 \in Nat /\ 0 <= rd /\ rd <= Len(Source)
      BY <1>1
    <3>2. QED
      BY <3>1, <1>1, SourceStream, SliceType
  <2>3. out \in [buffer : Seq(Byte), capcity : {Capacity}, inputEnd : BOOLEAN, totoalWrite : Nat,
                 totoalRead : Nat, error : {FALSE}]
    <3> HIDE DEF out
    <3>1. QED
      BY Zenon, <1>1, SourceStream DEF OutputType
  <2>4. QED
    BY Zenon, <2>1, <2>2, <2>3, <1>1 DEF TypeOK, Fields, cur
<1>8. QED
  BY <1>2, <1>4, <1>5, <1>6, <1>7

\* The reassembler keeps its types.
THEOREM Typing == Spec => []TypeOK
  BY Invariance, IInvImplies, PTL

\* However a stream of any length is cut, reordered and repeated, push_substring
\* puts out a prefix of it: nothing lost, repeated or out of order.
THEOREM AssembledPrefix == Spec => []AssembledIsPrefix
  BY Invariance, IInvImplies, PTL

\* The stored nodes always hold the stream's own bytes and never overlap or
\* touch, which is what the merge loop of lines 53-72 relies on.
THEOREM Separation == Spec => []SegmentsSeparated
  BY Invariance, IInvImplies, PTL

\* The capacity limits what is held, for every capacity.
THEOREM CapacityKept == Spec => []CapacityRespected
  BY Invariance, IInvImplies, PTL

\* The end of the stream is signalled as soon as mark and bytes are there.
THEOREM EndSignalled == Spec => []EndIsNotMissed
  BY Invariance, IInvImplies, PTL

\* No step forgets a byte that was accepted.
THEOREM Remembering == Spec => NothingForgotten
  BY Invariance, NextIInv, PTL DEF Spec, NothingForgotten

\* The output ends only when complete, for a stream no longer than the
\* UINT32_MAX that _input_end_idx starts with.
THEOREM EndComplete ==
  ASSUME Len(Source) <= UINT32_MAX
  PROVE  Spec => []EndsOnlyWhenComplete
<1>1. IInv => EndsOnlyWhenComplete
  BY IInvImplies
<1>2. QED
  BY <1>1, Invariance, PTL
-----------------------------------------------------------------------------
(* The sequence numbers. *)

\* No number that is not negative and wraps to the same value is closer.
LEMMA NoneCloser ==
  ASSUME NEW n \in Nat, NEW i \in WrappingInt32, NEW cp \in Nat, NEW x \in Nat,
         wrap(x, i) = wrap(n, i)
  PROVE  distance(unwrap(wrap(n, i), i, cp), cp) <= distance(x, cp)
<1> DEFINE u == unwrap(wrap(n, i), i, cp)
<1>1. /\ u \in Nat /\ wrap(u, i) = wrap(n, i)
      /\ 2 * (cp - u) <= MaxInt
      /\ 2 * (u - cp) < MaxInt \/ (u < MaxInt /\ u - cp < MaxInt)
  BY UnwrapChoice
<1> HIDE DEF u
<1>2. i \in Int /\ u \in Int /\ x \in Int
  BY <1>1 DEF WrappingInt32
<1>3. PICK k \in Int : x = u + MaxInt * k
  BY <1>1, <1>2, SameWrap
<1>4. /\ MaxInt * k \in Int /\ (k = 0 => MaxInt * k = 0)
      /\ (k >= 1 => MaxInt * k >= MaxInt) /\ (k <= -1 => MaxInt * k <= -MaxInt)
  BY MultipleGap, MaxIntAssumption
<1>5. distance(u, cp) <= distance(x, cp)
  <2>1. CASE k = 0
    BY <2>1, <1>1, <1>3, <1>4 DEF distance
  <2>2. CASE k >= 1
    BY <2>2, <1>1, <1>3, <1>4, MaxIntAssumption DEF distance
  <2>3. CASE k <= -1
    BY <2>3, <1>1, <1>3, <1>4, MaxIntAssumption DEF distance
  <2>4. QED
    BY <2>1, <2>2, <2>3
<1>6. QED
  BY <1>5 DEF u

\* The two ends' counters and what unwrap returns stay unsigned, whatever
\* block of the 64-bit space they are in.
THEOREM SpaceTyping == SpaceSpec => []SpaceTypeOK
<1> DEFINE Base == isn \in WrappingInt32 /\ seqno \in Nat /\ checkpoint \in Nat
<1>1. SpaceInit => Base
  BY DEF SpaceInit
<1>2. Base /\ [SpaceNext]_spaceVars => Base'
  BY DEF SpaceNext, AdvanceSeqno, AdvanceCheckpoint, spaceVars
<1>3. Base => SpaceTypeOK
  BY UnwrapChoice DEF SpaceTypeOK, received
<1>4. QED
  BY <1>1, <1>2, <1>3, PTL DEF SpaceSpec

\* wrap on one side and unwrap on the other (tcp_receiver.cc:30,
\* tcp_sender.cc:78) give back the number as long as the two ends are less
\* than half of the sequence space apart, for every modulus and every ISN.
THEOREM RoundTripHolds == SpaceSpec => []RoundTrip
<1>1. SpaceTypeOK => RoundTrip
  BY UnwrapInverts DEF SpaceTypeOK, RoundTrip, received
<1>2. QED
  BY <1>1, SpaceTyping, PTL

\* unwrap keeps the promise of wrapping_integers.cc:23, for every modulus,
\* ISN, raw value and checkpoint.
THEOREM UnwrapIsClosestHolds == SpaceSpec => []UnwrapIsClosest
<1>1. ASSUME SpaceTypeOK PROVE UnwrapIsClosest
  <2> DEFINE d == distance(received, checkpoint)
  <2>1. received \in Nat /\ wrap(received, isn) = wrap(seqno, isn)
    BY <1>1, UnwrapChoice DEF SpaceTypeOK, received
  <2>2. d \in Nat /\ checkpoint \in Nat
    BY <1>1, <2>1 DEF SpaceTypeOK, distance
  <2>3. ASSUME NEW x \in (checkpoint - d + 1) .. (checkpoint + d - 1), x >= 0,
               wrap(x, isn) = wrap(seqno, isn)
        PROVE  FALSE
    <3>1. x \in Nat
      BY <2>2, <2>3
    <3>2. d <= distance(x, checkpoint)
      BY <3>1, <1>1, <2>3, NoneCloser DEF SpaceTypeOK, received
    <3> HIDE DEF d
    <3>3. distance(x, checkpoint) < d
      BY <3>1, <2>2, <2>3 DEF distance
    <3>4. QED
      BY <3>1, <3>2, <3>3, <2>2 DEF distance
  <2>4. QED
    BY <2>1, <2>3 DEF UnwrapIsClosest
<1>2. QED
  BY <1>1, SpaceTyping, PTL
=============================================================================
