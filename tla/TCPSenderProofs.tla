---------------------------- MODULE TCPSenderProofs ----------------------------
(***************************************************************************)
(* What the operations of a TCPSender preserve, for any sender record: the *)
(* lemmas on which the theorems about Sending rest.                        *)
(***************************************************************************)
EXTENDS TCPSender, TCPReceiverProofs, WellFoundedInduction

\* Where the k-th segment of flight b starts, if the first starts at a.
Start(a, b, k) == IF k = 1 THEN a ELSE b[k - 1].ack_index

\* Segment seg covers exactly the sequence numbers from .. to - 1.
Covers(seg, from, to, isn, fin) ==
  /\ to = from + length_in_sequence_space(seg)
  /\ length_in_sequence_space(seg) > 0
  /\ Len(seg.payload) <= MAX_PAYLOAD_SIZE
  /\ seg.seqno = wrap(from, isn)
  /\ seg.syn <=> from = 0
  /\ seg.syn => Len(seg.payload) = 0
  /\ seg.fin <=> to = fin
  /\ \A i \in DOMAIN seg.payload : seg.payload[i] = from + i - 1

\* The segments of b follow one another from a on.
Tiled(a, b, isn, fin) ==
  /\ b \in FlightType
  /\ \A k \in DOMAIN b : Covers(b[k].seg, Start(a, b, k), b[k].ack_index, isn, fin)
  /\ \A k \in DOMAIN b : a < b[k].ack_index
  /\ \A j, k \in DOMAIN b : j < k => b[j].ack_index < b[k].ack_index

-----------------------------------------------------------------------------

\* Facts that no proof below cites.
HIDE DEF DivModUnique, MultipleGap, SameWrap, CandidateNear, UnwrapChoice, SliceType,
  SliceConcat, CutSlice, PieceLength, NodeIsPiece, TrimLeftPiece, TrimRightPiece,
  MergePieces, AbsorbPieces, WriteSlice, EndKeepsCore, InsertKeepsCore, InsertNothing,
  PushKeepsCore, ReadKeepsCore, NewKeepsCore, NumbersSeq, NumbersSlice, SliceOfNumbers,
  GrowthKeepsCore, NatInduction, DownwardNatInduction, GeneralNatInduction,
  SmallestNatural, RecursiveFcnOfNat, NatInductiveDef, RecursiveFcnOfNatType,
  NatInductiveDefType, RecursiveFcnOfNatUnique, NatInductiveUnique, FiniteNatInductiveDef,
  FiniteNatInductiveDefType, FiniteNatInductiveUnique, EmptyIsWellFounded,
  IsWellFoundedOnSubset, IsWellFoundedOnSubrelation, MinWF, WellFoundedIsIrreflexive,
  WellFoundedIsAsymmetric, WFSetLessThanIrreflexive, SetLessTransitive, WFInduction,
  WFDefOnUnique, WFInductiveDefLemma, TransitiveClosureThm, TransitiveClosureMinimal,
  TCTCTC, TCRTC, RTCTC, TransitiveClosureChopLast, TransitiveClosureWF, WFInductiveDef,
  WFInductiveDefType, PreImageWellFounded, WFLexPairOrdering, WFLexProductOrdering

\* A set of natural numbers that is not empty has a least element.
LEMMA LeastElement ==
  ASSUME NEW S \in SUBSET Nat, S # {}
  PROVE  \E x \in S : \A y \in S : x <= y
<1> DEFINE R == {ss \in Nat \X Nat : ss[1] < ss[2]}
<1>1. IsWellFoundedOn(OpToRel(<, Nat), Nat)
  BY NatLessThanWellFounded
<1>2. \E x \in S : \A y \in S : ~ (<<y, x>> \in OpToRel(<, Nat))
  BY <1>1, WFMin
<1>3. OpToRel(<, Nat) = R
  BY DEF OpToRel
<1>4. PICK x \in S : \A y \in S : <<y, x>> \notin R
  BY <1>2, <1>3
<1>5. ASSUME NEW y \in S PROVE x <= y
  <2>1. x \in Nat /\ y \in Nat
    OBVIOUS
  <2>2. <<y, x>> \in Nat \X Nat /\ <<y, x>>[1] = y /\ <<y, x>>[2] = x
    BY <2>1
  <2>3. ~(y < x)
    BY <2>2, <1>4
  <2>4. QED
    BY <2>1, <2>3
<1>6. QED
  BY <1>5

\* acked_count is well defined: it is the number of segments at the front of
\* the flight that end at or before ack.
LEMMA AckedCount ==
  ASSUME NEW x, x.seg_buffer \in FlightType, NEW ack \in Nat
  PROVE  LET n == acked_count(x, ack)
         IN  /\ n \in 0 .. Len(x.seg_buffer)
             /\ \A k \in 1 .. n : x.seg_buffer[k].ack_index <= ack
             /\ n < Len(x.seg_buffer) => x.seg_buffer[n + 1].ack_index > ack
<1> DEFINE b == x.seg_buffer
           S == {k \in 1 .. Len(b) : b[k].ack_index > ack}
           Q(n) == /\ \A k \in 1 .. n : b[k].ack_index <= ack
                   /\ n < Len(b) => b[n + 1].ack_index > ack
<1>1. Len(b) \in Nat /\ \A k \in 1 .. Len(b) : b[k].ack_index \in Nat
  <2>1. Len(b) \in Nat /\ \A k \in 1 .. Len(b) : b[k] \in ItemType
    BY DEF FlightType
  <2>2. QED
    BY <2>1 DEF ItemType
<1>2. \E n \in 0 .. Len(b) : Q(n)
  <2>1. CASE S = {}
    <3>1. Q(Len(b))
      BY <2>1, <1>1
    <3>2. QED
      BY <3>1, <1>1
  <2>2. CASE S # {}
    <3>1. S \in SUBSET Nat
      BY <1>1
    <3>2. PICK m \in S : \A y \in S : m <= y
      BY <2>2, <3>1, LeastElement
    <3>3. m \in 1 .. Len(b) /\ b[m].ack_index > ack
      BY <3>2
    <3>4. Q(m - 1)
      BY <3>2, <3>3, <1>1
    <3>5. m - 1 \in 0 .. Len(b)
      BY <3>3, <1>1
    <3>6. QED
      BY <3>4, <3>5
  <2>3. QED
    BY <2>1, <2>2
<1>3. acked_count(x, ack) = CHOOSE n \in 0 .. Len(b) : Q(n)
  BY DEF acked_count
<1>4. QED
  BY <1>2, <1>3

-----------------------------------------------------------------------------

\* Facts that no proof below cites.
HIDE DEF WFMin, NatLessThanWellFounded, LeastElement

\* How the bytes are divided among the segments: segment k carries at least
\* one byte, at most MAX_PAYLOAD_SIZE, and the last of them the last byte.
LEMMA Division ==
  ASSUME NEW data \in Seq(Nat), NEW f \in BOOLEAN,
         NEW k \in 1 .. segment_count(data, f)
  PROVE  LET n  == segment_count(data, f)
             s0 == min((k - 1) * MAX_PAYLOAD_SIZE, Len(data))
             s1 == min(k * MAX_PAYLOAD_SIZE, Len(data))
         IN  /\ n \in Nat
             /\ s0 \in Nat /\ s1 \in Nat /\ s0 <= s1 /\ s1 <= Len(data)
             /\ s1 - s0 <= MAX_PAYLOAD_SIZE
             /\ data # <<>> => s0 < s1
             /\ k = n => s1 = Len(data)
             /\ data = <<>> => f = TRUE /\ n = 1
             /\ k = 1 => s0 = 0
<1> DEFINE m == MAX_PAYLOAD_SIZE
           L == Len(data)
           n == segment_count(data, f)
<1>1. m \in Nat /\ m > 0 /\ L \in Nat
  BY PayloadAssumption
<1>2. CASE data = <<>>
  <2>1. n = 1 /\ f = TRUE /\ L = 0 /\ k = 1
    BY <1>2 DEF segment_count
  <2>2. (k - 1) * m = 0 /\ k * m = m
    BY <2>1, <1>1
  <2>3. min((k - 1) * m, L) = 0 /\ min(k * m, L) = 0
    BY <2>1, <2>2, <1>1 DEF min
  <2>4. QED
    BY <2>1, <2>3, <1>1, <1>2
<1>3. CASE data # <<>>
  <2>1. n = (L + m - 1) \div m /\ L > 0
    BY <1>3, <1>1 DEF segment_count
  <2> DEFINE t == L + m - 1
             r == t % m
  <2>2. n \in Int /\ r \in 0 .. m - 1 /\ L + m - 1 = m * n + r
    <3> HIDE DEF m, L, n
    <3>1. t \in Int /\ m \in Nat \ {0}
      BY <1>1
    <3> HIDE DEF t
    <3>2. r \in 0 .. m - 1 /\ t \div m \in Int /\ t = m * (t \div m) + r
      BY <3>1, DivMod
    <3> USE DEF t
    <3>3. n = t \div m
      BY <2>1
    <3>4. QED
      BY <3>2, <3>3
  <2> HIDE DEF n, r, m, L
  <2>3. k \in 1 .. n /\ k \in Int
    BY DEF n
  <2>4. (k - 1) * m = m * k - m /\ k * m = m * k /\ m * k \in Nat
    BY <2>3, <1>1, <2>2
  <2>5. k = n \/ m * k + m <= m * n
    <3>1. CASE k < n
      <4>1. n - k >= 1 /\ n - k \in Nat
        BY <3>1, <2>2, <2>3
      <4>2. m * (n - k) >= m /\ m * (n - k) = m * n - m * k
        BY <4>1, <1>1, <2>2, <2>3
      <4>3. QED
        BY <4>2, <2>2, <2>3, <2>4, <1>1
    <3>2. QED
      BY <3>1, <2>2, <2>3
  <2>6. m * k - m < L /\ m * k - m >= 0
    <3>1. m * n <= L + m - 1 /\ m * n \in Int
      BY <2>2, <1>1
    <3>2. m * k >= m
      BY <2>3, <2>2, <1>1
    <3>3. QED
      BY <2>5, <3>1, <3>2, <1>1, <2>4
  <2>7. k = n => L <= m * k
    BY <2>2, <1>1, <2>4
  <2>8. k = 1 => m * k - m = 0
    BY <1>1
  <2> USE DEF n, m, L
  <2>9. QED
    BY <2>2, <2>3, <2>4, <2>6, <2>7, <2>8, <1>1, <1>3 DEF min
<1>4. QED
  BY <1>2, <1>3

\* The parts of send_data, under names of their own.
Sent(data, k) == min(k * MAX_PAYLOAD_SIZE, Len(data))

FinBit(data, f, k) == IF f /\ k = segment_count(data, f) THEN 1 ELSE 0

CutSegment(data, f, from, isn, k) ==
  [EmptySegment EXCEPT !.seqno = wrap(from + Sent(data, k - 1), isn),
                       !.fin = (FinBit(data, f, k) = 1),
                       !.payload = SubSeq(data, Sent(data, k - 1) + 1, Sent(data, k))]

CutSegments(data, f, from, isn) ==
  [k \in 1 .. segment_count(data, f) |-> CutSegment(data, f, from, isn, k)]

CutItem(data, f, from, isn, k) ==
  [seg |-> CutSegment(data, f, from, isn, k),
   ack_index |-> from + Sent(data, k) + FinBit(data, f, k)]

CutItems(data, f, from, isn) ==
  [k \in 1 .. segment_count(data, f) |-> CutItem(data, f, from, isn, k)]

\* send_data appends these segments and items.
LEMMA SendDataParts ==
  ASSUME NEW x, NEW data, NEW f
  PROVE  LET next == x.next_seqno + Len(data) + (IF f THEN 1 ELSE 0)
         IN  send_data(x, data, f) =
               [x EXCEPT !.segments_out = @ \o CutSegments(data, f, x.next_seqno, x.isn),
                         !.seg_buffer = @ \o CutItems(data, f, x.next_seqno, x.isn),
                         !.next_seqno = next,
                         !.fin_ack_index = IF f THEN next ELSE @]
  BY DEF send_data, CutSegments, CutItems, CutSegment, CutItem, Sent, FinBit

\* A raw value is a WrappingInt32.
LEMMA WrapType ==
  ASSUME NEW n \in Int, NEW i \in WrappingInt32
  PROVE  wrap(n, i) \in WrappingInt32
<1>1. i + n \in Int /\ MaxInt \in Nat \ {0}
  BY MaxIntAssumption DEF WrappingInt32
<1>2. QED
  BY <1>1, DivMod DEF wrap, WrappingInt32

\* The ends of the segments that are cut are ordered like the segments.
LEMMA SentMonotone ==
  ASSUME NEW data \in Seq(Nat), NEW j \in Nat, NEW k \in Nat, j <= k
  PROVE  Sent(data, j) <= Sent(data, k) /\ Sent(data, j) \in Nat /\ Sent(data, k) \in Nat
<1> DEFINE m == MAX_PAYLOAD_SIZE
<1>1. m \in Nat /\ Len(data) \in Nat
  BY PayloadAssumption
<1>2. j * m \in Nat /\ k * m \in Nat /\ j * m <= k * m
  BY <1>1
<1>3. QED
  BY <1>1, <1>2 DEF Sent, min

\* The k-th segment that is cut covers the sequence numbers behind those of
\* the segments before it, up to the new _next_seqno if it is the last.
LEMMA CutOne ==
  ASSUME NEW data \in Seq(Nat), NEW f \in BOOLEAN, NEW from \in Nat \ {0},
         NEW isn \in WrappingInt32,
         \A i \in 1 .. Len(data) : data[i] = from + i - 1,
         NEW k \in 1 .. segment_count(data, f)
  PROVE  LET a   == from + Sent(data, k - 1)
             z   == from + Sent(data, k) + FinBit(data, f, k)
             end == from + Len(data) + (IF f THEN 1 ELSE 0)
             seg == CutSegment(data, f, from, isn, k)
         IN  /\ a \in Nat /\ z \in Nat /\ from <= a /\ a < z
             /\ k = 1 => a = from
             /\ k < segment_count(data, f) => z = from + Sent(data, k)
             /\ k = segment_count(data, f) => z = end
             /\ seg \in SegmentType
             /\ Covers(seg, a, z, isn, IF f THEN end ELSE NoFin)
<1> DEFINE n   == segment_count(data, f)
           s0  == Sent(data, k - 1)
           s1  == Sent(data, k)
           b   == FinBit(data, f, k)
           v   == IF f THEN 1 ELSE 0
           a   == from + s0
           z   == from + s1 + b
           end == from + Len(data) + v
           fin == IF f THEN end ELSE NoFin
           seg == CutSegment(data, f, from, isn, k)
<1>1. /\ n \in Nat /\ s0 \in Nat /\ s1 \in Nat /\ s0 <= s1 /\ s1 <= Len(data)
      /\ s1 - s0 <= MAX_PAYLOAD_SIZE
      /\ data # <<>> => s0 < s1
      /\ k = n => s1 = Len(data)
      /\ data = <<>> => v = 1 /\ n = 1
      /\ k = 1 => s0 = 0
  BY Division DEF Sent
<1>2. /\ b \in {0, 1} /\ v \in {0, 1} /\ Len(data) \in Nat
      /\ k < n => b = 0
      /\ k = n => b = v
  BY <1>1 DEF FinBit
<1>3. f <=> v = 1
  OBVIOUS
<1>4. /\ seg \in SegmentType
      /\ seg.seqno = wrap(a, isn)
      /\ seg.syn = FALSE
      /\ seg.fin = (b = 1)
      /\ Len(seg.payload) = s1 - s0
      /\ \A i \in 1 .. Len(seg.payload) : seg.payload[i] = data[s0 + i]
  <2> DEFINE p == SubSeq(data, s0 + 1, s1)
             w == wrap(a, isn)
             q == (b = 1)
  <2>1. p \in Seq(Nat) /\ Len(p) = s1 - s0 /\ \A i \in 1 .. Len(p) : p[i] = data[s0 + i]
    <3> HIDE DEF s0, s1
    <3>1. \A i \in (s0 + 1) .. s1 : data[i] \in Nat
      BY <1>1
    <3>2. QED
      BY <1>1, <3>1
  <2>2. w \in WrappingInt32
    BY <1>1, WrapType
  <2>3. q \in BOOLEAN
    OBVIOUS
  <2>4. seg = [seqno |-> w, ack |-> FALSE, ackno |-> 0, win |-> 0,
               syn |-> FALSE, fin |-> q, rst |-> FALSE, payload |-> p]
    <3>1. seg = [EmptySegment EXCEPT !.seqno = w, !.fin = q, !.payload = p]
      BY DEF CutSegment
    <3> HIDE DEF p, w, q, seg
    <3>2. QED
      BY <3>1 DEF EmptySegment
  <2> HIDE DEF p, w, q, seg
  <2>5. /\ seg \in SegmentType /\ seg.seqno = w /\ seg.syn = FALSE /\ seg.fin = q
        /\ seg.payload = p
    BY <2>1, <2>2, <2>3, <2>4 DEF SegmentType
  <2>6. QED
    BY <2>1, <2>5 DEF w, q
<1>5. seg.payload \in Seq(Nat)
  <2> HIDE DEF seg
  <2>1. QED
    BY <1>4 DEF SegmentType
<1> HIDE DEF n, s0, s1, b, v, seg
<1>6. k \in 1 .. n /\ k \in Nat
  BY <1>1 DEF n
<1>7. /\ a \in Nat /\ z \in Nat /\ end \in Nat /\ from <= a /\ a < z
      /\ k = 1 => a = from
      /\ k < n => z = from + s1
      /\ k = n => z = end
  <2>1. s0 < s1 + b
    <3>1. CASE data = <<>>
      <4>1. k = n /\ v = 1
        BY <3>1, <1>1, <1>6
      <4>2. QED
        BY <4>1, <1>1, <1>2
    <3>2. CASE data # <<>>
      BY <3>2, <1>1, <1>2
    <3>3. QED
      BY <3>1, <3>2
  <2>2. from \in Nat /\ Len(data) \in Nat /\ b \in Nat /\ v \in Nat
    BY <1>2
  <2>3. a \in Nat /\ z \in Nat /\ end \in Nat /\ from <= a /\ a < z
    BY <1>1, <2>1, <2>2
  <2>4. k = 1 => a = from
    BY <1>1, <2>2
  <2>5. k < n => z = from + s1
    BY <1>1, <1>2, <2>2
  <2>6. k = n => z = end
    BY <1>1, <1>2, <2>2
  <2>7. QED
    BY <2>3, <2>4, <2>5, <2>6
<1>8. length_in_sequence_space(seg) = z - a
  <2>1. (IF seg.syn THEN 1 ELSE 0) = 0
    BY <1>4
  <2>2. (IF seg.fin THEN 1 ELSE 0) = b
    BY <1>4, <1>2
  <2>3. length_in_sequence_space(seg) = s1 - s0 + b
    BY <2>1, <2>2, <1>1, <1>2, <1>4 DEF length_in_sequence_space
  <2>4. QED
    BY <2>3, <1>1, <1>2
<1>9. seg.fin <=> z = fin
  <2>1. b = 1 <=> v = 1 /\ z = end
    <3>1. CASE k = n
      BY <3>1, <1>2, <1>7
    <3>2. CASE k # n
      <4>1. b = 0 /\ z = from + s1
        BY <3>2, <1>1, <1>2, <1>6, <1>7
      <4>2. v = 1 => z < end
        BY <4>1, <1>1, <1>2
      <4>3. QED
        BY <4>1, <4>2, <1>7
    <3>3. QED
      BY <3>1, <3>2
  <2> HIDE DEF z, end
  <2>2. (z = fin) <=> (v = 1 /\ z = end)
    BY <1>7, <1>3 DEF NoFin
  <2>3. QED
    BY <2>1, <2>2, <1>4
<1>10. ASSUME NEW i \in DOMAIN seg.payload PROVE seg.payload[i] = a + i - 1
  <2>1. i \in 1 .. Len(seg.payload) /\ i \in Nat
    BY <1>5
  <2>2. seg.payload[i] = data[s0 + i]
    BY <2>1, <1>4
  <2>3. i <= s1 - s0 /\ i >= 1
    BY <2>1, <1>4
  <2>4. s0 + i \in 1 .. Len(data)
    <3> DEFINE len == Len(data)
    <3>1. s0 \in Nat /\ s1 \in Nat /\ s1 <= len /\ len \in Nat /\ i \in Nat
      BY <1>1, <1>2, <2>1
    <3> HIDE DEF len
    <3>2. s0 + i \in Nat /\ 1 <= s0 + i /\ s0 + i <= len
      BY <2>3, <3>1
    <3>3. s0 + i \in 1 .. len
      BY <3>1, <3>2
    <3>4. QED
      BY <3>3 DEF len
  <2>5. data[s0 + i] = from + (s0 + i) - 1
    BY <2>4
  <2>6. QED
    BY <2>1, <2>2, <2>5, <1>1
<1>11. Covers(seg, a, z, isn, fin)
  <2>1. z = a + (z - a) /\ z - a > 0 /\ a # 0 /\ Len(seg.payload) <= MAX_PAYLOAD_SIZE
    <3>1. Len(seg.payload) <= MAX_PAYLOAD_SIZE
      BY <1>1, <1>4
    <3>2. a \in Nat /\ z \in Nat /\ from \in Nat /\ from > 0 /\ from <= a /\ a < z
      BY <1>7
    <3> HIDE DEF a, z
    <3>3. QED
      BY <3>1, <3>2
  <2>2. ~seg.syn
    BY <1>4
  <2> HIDE DEF a, z, fin
  <2>3. QED
    BY <1>4, <1>8, <1>9, <1>10, <2>1, <2>2 DEF Covers
<1>12. QED
  BY <1>4, <1>7, <1>11 DEF n, s0, s1, b, v, seg

\* What send_data cuts is a flight from _next_seqno to the new _next_seqno.
LEMMA CutTiled ==
  ASSUME NEW data \in Seq(Nat), NEW f \in BOOLEAN, NEW from \in Nat \ {0},
         NEW isn \in WrappingInt32,
         \A i \in 1 .. Len(data) : data[i] = from + i - 1
  PROVE  LET items == CutItems(data, f, from, isn)
             end   == from + Len(data) + (IF f THEN 1 ELSE 0)
         IN  /\ CutSegments(data, f, from, isn) \in Seq(SegmentType)
             /\ Tiled(from, items, isn, IF f THEN end ELSE NoFin)
             /\ Start(from, items, Len(items) + 1) = end
<1> DEFINE items == CutItems(data, f, from, isn)
           n     == segment_count(data, f)
           v     == IF f THEN 1 ELSE 0
           end   == from + Len(data) + v
           fin   == IF f THEN end ELSE NoFin
           A(k)  == from + Sent(data, k - 1)
           Z(k)  == from + Sent(data, k) + FinBit(data, f, k)
           seg(k) == CutSegment(data, f, from, isn, k)
<1>1. n \in Nat
  <2>1. Len(data) \in Nat /\ MAX_PAYLOAD_SIZE \in Nat \ {0}
    BY PayloadAssumption
  <2>2. ASSUME NEW t \in Nat, NEW m \in Nat \ {0} PROVE t \div m \in Nat
    BY ONLY <2>2
  <2>3. Len(data) + MAX_PAYLOAD_SIZE - 1 \in Nat
    BY <2>1
  <2>4. (Len(data) + MAX_PAYLOAD_SIZE - 1) \div MAX_PAYLOAD_SIZE \in Nat
    BY <2>1, <2>2, <2>3
  <2>5. QED
    BY <2>4 DEF segment_count
<1>2. ASSUME NEW k \in 1 .. n
      PROVE  /\ A(k) \in Nat /\ Z(k) \in Nat /\ from <= A(k) /\ A(k) < Z(k)
             /\ k = 1 => A(k) = from
             /\ k < n => Z(k) = from + Sent(data, k)
             /\ k = n => Z(k) = end
  BY CutOne
<1>3. ASSUME NEW k \in 1 .. n
      PROVE  seg(k) \in SegmentType /\ Covers(seg(k), A(k), Z(k), isn, fin)
  BY CutOne
<1>4. items = [k \in 1 .. n |-> [seg |-> seg(k), ack_index |-> Z(k)]]
  BY DEF CutItems, CutItem
<1>5. CutSegments(data, f, from, isn) = [k \in 1 .. n |-> seg(k)]
  BY DEF CutSegments
<1>6. ASSUME NEW k \in 1 .. n, k > 1
      PROVE  Z(k - 1) = A(k)
  <2>1. k - 1 \in 1 .. n /\ k - 1 < n
    BY <1>1, <1>6
  <2>2. Z(k - 1) = from + Sent(data, k - 1)
    BY <2>1, <1>2
  <2>3. QED
    BY <2>2
<1>7. ASSUME NEW j \in 1 .. n, NEW k \in 1 .. n, j < k
      PROVE  Z(j) < Z(k)
  <2>1. j \in Nat /\ k - 1 \in Nat /\ j <= k - 1 /\ j < n
    BY <1>7, <1>1
  <2>2. Sent(data, j) <= Sent(data, k - 1) /\ Sent(data, j) \in Nat /\ Sent(data, k - 1) \in Nat
    BY <2>1, SentMonotone
  <2>3. Z(j) = from + Sent(data, j) /\ Z(j) \in Nat
    BY <2>1, <1>2
  <2>4. A(k) < Z(k) /\ Z(k) \in Nat
    BY <1>2
  <2> HIDE DEF Z
  <2>5. QED
    BY <2>2, <2>3, <2>4
<1>8. n = 0 => end = from
  <2>1. ASSUME n = 0, data # <<>> PROVE FALSE
    <3>1. Len(data) \in Nat /\ Len(data) > 0
      BY <2>1
    <3>2. (Len(data) + MAX_PAYLOAD_SIZE - 1) \div MAX_PAYLOAD_SIZE >= 1
      BY <3>1, PayloadAssumption
    <3>3. QED
      BY <2>1, <3>2 DEF segment_count
  <2>2. ASSUME n = 0, data = <<>> PROVE f = FALSE
    BY <2>2 DEF segment_count
  <2>3. ASSUME n = 0 PROVE Len(data) = 0 /\ v = 0
    BY <2>1, <2>2, <2>3
  <2>4. QED
    BY <2>3
<1> HIDE DEF n, fin, A, Z, seg
<1>9. CutSegments(data, f, from, isn) \in Seq(SegmentType)
  BY <1>1, <1>3, <1>5
<1>10. items \in FlightType /\ Len(items) = n /\ DOMAIN items = 1 .. n
  <2>1. \A k \in 1 .. n : [seg |-> seg(k), ack_index |-> Z(k)] \in ItemType
    BY <1>2, <1>3 DEF ItemType
  <2> HIDE DEF items
  <2>2. QED
    BY <1>1, <1>4, <2>1 DEF FlightType
<1>11. \A k \in 1 .. n : items[k].seg = seg(k) /\ items[k].ack_index = Z(k)
  BY <1>4
<1> HIDE DEF items
<1>12. ASSUME NEW k \in 1 .. n PROVE Start(from, items, k) = A(k)
  <2>1. CASE k = 1
    BY <2>1, <1>2 DEF Start
  <2>2. CASE k # 1
    <3>1. k > 1 /\ k - 1 \in 1 .. n
      BY <2>2, <1>1
    <3>2. items[k - 1].ack_index = Z(k - 1)
      BY <3>1, <1>11
    <3>3. QED
      BY <2>2, <3>1, <3>2, <1>6 DEF Start
  <2>3. QED
    BY <2>1, <2>2
<1>13. Start(from, items, Len(items) + 1) = end
  <2>1. CASE n = 0
    BY <2>1, <1>8, <1>10 DEF Start
  <2>2. CASE n # 0
    <3>1. n \in 1 .. n /\ n + 1 # 1 /\ (n + 1) - 1 = n
      BY <2>2, <1>1
    <3>2. items[n].ack_index = end
      BY <3>1, <1>2, <1>11
    <3> HIDE DEF end
    <3>3. QED
      BY <3>1, <3>2, <1>10 DEF Start
  <2>3. QED
    BY <2>1, <2>2
<1>14. ASSUME NEW k \in 1 .. n PROVE from < Z(k)
  BY <1>2
<1>15. Tiled(from, items, isn, fin)
  <2> HIDE DEF end
  <2>1. \A k \in 1 .. n : Covers(items[k].seg, Start(from, items, k), items[k].ack_index, isn, fin)
    BY <1>3, <1>11, <1>12
  <2>2. \A k \in 1 .. n : from < items[k].ack_index
    BY <1>11, <1>14
  <2>3. \A j, k \in 1 .. n : j < k => items[j].ack_index < items[k].ack_index
    BY <1>7, <1>11
  <2>4. QED
    BY <1>10, <2>1, <2>2, <2>3 DEF Tiled
<1>16. QED
  BY <1>9, <1>13, <1>15 DEF items, fin

-----------------------------------------------------------------------------

\* Facts that no proof below cites.
HIDE DEF DivMod, Division, SentMonotone, CutOne

\* The segments of a flight have the types of their fields.
LEMMA FlightItems ==
  ASSUME NEW b \in FlightType
  PROVE  /\ Len(b) \in Nat /\ DOMAIN b = 1 .. Len(b)
         /\ \A k \in 1 .. Len(b) : /\ b[k] \in ItemType /\ b[k].ack_index \in Nat
                                   /\ b[k].seg \in SegmentType
<1>1. Len(b) \in Nat /\ DOMAIN b = 1 .. Len(b) /\ \A k \in 1 .. Len(b) : b[k] \in ItemType
  BY DEF FlightType
<1>2. QED
  BY <1>1 DEF ItemType

\* Every segment of a flight ends at or before the end of the flight.
LEMMA FlightEnd ==
  ASSUME NEW a \in Nat, NEW b, NEW isn, NEW fin, Tiled(a, b, isn, fin)
  PROVE  LET end == Start(a, b, Len(b) + 1)
         IN  /\ end \in Nat /\ a <= end
             /\ \A k \in 1 .. Len(b) : b[k].ack_index <= end
             /\ Len(b) > 0 => end = b[Len(b)].ack_index
             /\ Len(b) = 0 => end = a
<1>1. /\ b \in FlightType
      /\ \A k \in DOMAIN b : a < b[k].ack_index
      /\ \A j, k \in DOMAIN b : j < k => b[j].ack_index < b[k].ack_index
  BY DEF Tiled
<1>2. /\ Len(b) \in Nat /\ DOMAIN b = 1 .. Len(b)
      /\ \A k \in 1 .. Len(b) : b[k].ack_index \in Nat
  BY <1>1, FlightItems
<1>3. CASE Len(b) = 0
  BY <1>2, <1>3 DEF Start
<1>4. CASE Len(b) > 0
  <2> DEFINE l == Len(b)
  <2>1. l \in 1 .. l /\ l + 1 # 1 /\ (l + 1) - 1 = l
    BY <1>2, <1>4
  <2>2. Start(a, b, l + 1) = b[l].ack_index
    BY <2>1 DEF Start
  <2>3. \A k \in 1 .. l : b[k].ack_index <= b[l].ack_index
    BY <1>1, <1>2, <2>1
  <2>4. QED
    BY <1>1, <1>2, <1>4, <2>1, <2>2, <2>3
<1>5. QED
  BY <1>2, <1>3, <1>4

\* Flight c prolongs flight b, which starts at a.
Prolonged(a, b, c, isn, fin) ==
  /\ Tiled(a, b \o c, isn, fin)
  /\ Start(a, b \o c, Len(b \o c) + 1) = Start(Start(a, b, Len(b) + 1), c, Len(c) + 1)

\* A flight that begins where another ends prolongs it.
LEMMA TiledConcat ==
  ASSUME NEW a \in Nat, NEW b, NEW c, NEW isn, NEW fin,
         Tiled(a, b, isn, fin), Tiled(Start(a, b, Len(b) + 1), c, isn, fin)
  PROVE  Prolonged(a, b, c, isn, fin)
<1> DEFINE d == b \o c
           m == Start(a, b, Len(b) + 1)
<1>m. m \in Nat /\ Tiled(m, c, isn, fin)
  BY FlightEnd
<1>1. b \in FlightType /\ c \in FlightType
  BY DEF Tiled
<1>2. /\ Len(b) \in Nat /\ DOMAIN b = 1 .. Len(b)
      /\ \A k \in 1 .. Len(b) : b[k].ack_index \in Nat
  BY <1>1, FlightItems
<1>3. /\ Len(c) \in Nat /\ DOMAIN c = 1 .. Len(c)
      /\ \A k \in 1 .. Len(c) : c[k].ack_index \in Nat
  BY <1>1, FlightItems
<1>4. /\ d \in FlightType /\ Len(d) = Len(b) + Len(c)
      /\ \A k \in 1 .. Len(b) : d[k] = b[k]
      /\ \A k \in (Len(b) + 1) .. Len(d) : d[k] = c[k - Len(b)]
  BY <1>1, <1>2, <1>3 DEF FlightType
<1>5. DOMAIN d = 1 .. Len(d)
  BY <1>4, FlightItems
<1>6. \A k \in 1 .. Len(b) : b[k].ack_index <= m /\ a < b[k].ack_index
  BY <1>2, FlightEnd DEF Tiled
<1>7. a <= m /\ (Len(b) > 0 => m = b[Len(b)].ack_index) /\ (Len(b) = 0 => m = a)
  BY FlightEnd
<1> HIDE DEF d, m
<1>8. \A k \in 1 .. Len(c) : m < c[k].ack_index
  BY <1>m, <1>3 DEF Tiled
<1>9. \A k \in 1 .. Len(d) : k \in 1 .. Len(b) \/ (k > Len(b) /\ k - Len(b) \in 1 .. Len(c))
  BY <1>2, <1>3, <1>4
<1>10. ASSUME NEW k \in 1 .. Len(b)
       PROVE  d[k] = b[k] /\ Start(a, d, k) = Start(a, b, k)
  <2>1. k # 1 => k - 1 \in 1 .. Len(b)
    BY <1>2
  <2>2. QED
    BY <2>1, <1>4 DEF Start
<1>11. ASSUME NEW k \in 1 .. Len(c)
       PROVE  d[Len(b) + k] = c[k] /\ Start(a, d, Len(b) + k) = Start(m, c, k)
  <2>1. Len(b) + k \in (Len(b) + 1) .. Len(d) /\ (Len(b) + k) - Len(b) = k
    BY <1>2, <1>3, <1>4
  <2>2. d[Len(b) + k] = c[k]
    BY <2>1, <1>4
  <2>3. CASE k = 1
    <3>1. CASE Len(b) = 0
      BY <3>1, <2>2, <2>3, <1>7 DEF Start
    <3>2. CASE Len(b) > 0
      <4>1. Len(b) + k # 1 /\ (Len(b) + k) - 1 = Len(b) /\ Len(b) \in 1 .. Len(b)
        BY <3>2, <2>3, <1>2
      <4>2. Start(a, d, Len(b) + k) = d[Len(b)].ack_index /\ d[Len(b)] = b[Len(b)]
        BY <4>1, <1>4 DEF Start
      <4>3. QED
        BY <4>2, <3>2, <2>3, <1>7, <2>2 DEF Start
    <3>3. QED
      BY <3>1, <3>2, <1>2
  <2>4. CASE k # 1
    <3>1. /\ (Len(b) + k) - 1 \in (Len(b) + 1) .. Len(d)
          /\ ((Len(b) + k) - 1) - Len(b) = k - 1 /\ Len(b) + k # 1
      BY <2>4, <1>2, <1>3, <1>4
    <3>2. d[(Len(b) + k) - 1] = c[k - 1]
      BY <3>1, <1>4
    <3>3. QED
      BY <2>2, <2>4, <3>1, <3>2 DEF Start
  <2>5. QED
    BY <2>3, <2>4
<1>12. ASSUME NEW k \in 1 .. Len(d)
       PROVE  Covers(d[k].seg, Start(a, d, k), d[k].ack_index, isn, fin) /\ a < d[k].ack_index
  <2>1. CASE k \in 1 .. Len(b)
    <3>1. Covers(b[k].seg, Start(a, b, k), b[k].ack_index, isn, fin)
      BY <2>1, <1>2 DEF Tiled
    <3>2. QED
      BY <2>1, <3>1, <1>6, <1>10
  <2>2. CASE k > Len(b) /\ k - Len(b) \in 1 .. Len(c)
    <3> DEFINE q == k - Len(b)
    <3>1. q \in 1 .. Len(c) /\ k = Len(b) + q
      BY <2>2, <1>2
    <3> HIDE DEF q
    <3>2. Covers(c[q].seg, Start(m, c, q), c[q].ack_index, isn, fin)
      BY <3>1, <1>m, <1>3 DEF Tiled
    <3>3. a < c[q].ack_index
      BY <3>1, <1>m, <1>3, <1>7, <1>8
    <3>4. QED
      BY <3>1, <3>2, <3>3, <1>11
  <2>3. QED
    BY <2>1, <2>2, <1>9
<1>13. ASSUME NEW j \in 1 .. Len(d), NEW k \in 1 .. Len(d), j < k
       PROVE  d[j].ack_index < d[k].ack_index
  <2>1. CASE k \in 1 .. Len(b)
    <3>1. j \in 1 .. Len(b)
      BY <2>1, <1>13, <1>2
    <3>2. QED
      BY <2>1, <3>1, <1>13, <1>2, <1>10 DEF Tiled
  <2>2. CASE k > Len(b) /\ k - Len(b) \in 1 .. Len(c)
    <3> DEFINE q == k - Len(b)
    <3>1. q \in 1 .. Len(c) /\ k = Len(b) + q
      BY <2>2, <1>2
    <3> HIDE DEF q
    <3>2. d[k] = c[q] /\ m < c[q].ack_index /\ c[q].ack_index \in Nat
      BY <3>1, <1>3, <1>8, <1>11
    <3>3. CASE j \in 1 .. Len(b)
      BY <3>3, <3>2, <1>m, <1>2, <1>6, <1>10
    <3>4. CASE j > Len(b) /\ j - Len(b) \in 1 .. Len(c)
      <4> DEFINE p == j - Len(b)
      <4>1. p \in 1 .. Len(c) /\ j = Len(b) + p
        BY <3>4, <1>2
      <4> HIDE DEF p
      <4>2. d[j] = c[p] /\ p < q
        BY <4>1, <3>1, <1>2, <1>11, <1>13
      <4>3. QED
        BY <4>1, <4>2, <3>1, <3>2, <1>m, <1>3 DEF Tiled
    <3>5. QED
      BY <3>3, <3>4, <1>9
  <2>3. QED
    BY <2>1, <2>2, <1>9
<1>14. Tiled(a, d, isn, fin)
  BY <1>4, <1>5, <1>12, <1>13 DEF Tiled
<1>15. Start(a, d, Len(d) + 1) = Start(m, c, Len(c) + 1)
  <2>1. CASE Len(c) = 0
    <3>1. Len(d) = Len(b)
      BY <2>1, <1>2, <1>4
    <3>2. \A k \in 1 .. Len(b) : d[k] = b[k]
      BY <1>4
    <3>3. Start(a, d, Len(d) + 1) = Start(a, b, Len(b) + 1)
      <4>1. CASE Len(b) = 0
        BY <4>1, <3>1 DEF Start
      <4>2. CASE Len(b) > 0
        <5>1. Len(b) \in 1 .. Len(b) /\ Len(b) + 1 # 1 /\ (Len(b) + 1) - 1 = Len(b)
          BY <4>2, <1>2
        <5>2. QED
          BY <5>1, <3>1, <3>2 DEF Start
      <4>3. QED
        BY <4>1, <4>2, <1>2
    <3>4. QED
      BY <3>3, <2>1 DEF Start, m
  <2>2. CASE Len(c) > 0
    <3>1. Len(c) \in 1 .. Len(c) /\ Len(c) + 1 # 1 /\ (Len(c) + 1) - 1 = Len(c)
      BY <2>2, <1>3
    <3>2. Len(d) + 1 # 1 /\ (Len(d) + 1) - 1 = Len(b) + Len(c)
      BY <2>2, <1>2, <1>3, <1>4
    <3>3. d[Len(b) + Len(c)] = c[Len(c)]
      BY <3>1, <1>11
    <3>4. QED
      BY <3>1, <3>2, <3>3 DEF Start
  <2>3. QED
    BY <2>1, <2>2, <1>3
<1>16. QED
  BY <1>14, <1>15 DEF Prolonged, d, m

\* What is left of a flight when its first n segments are taken away.
LEMMA TiledDrop ==
  ASSUME NEW a \in Nat, NEW b, NEW isn, NEW fin, Tiled(a, b, isn, fin),
         NEW n \in 1 .. Len(b)
  PROVE  LET z == b[n].ack_index
             d == SubSeq(b, n + 1, Len(b))
         IN  /\ z \in Nat /\ a < z /\ Len(d) = Len(b) - n
             /\ Tiled(z, d, isn, fin)
             /\ Start(z, d, Len(d) + 1) = Start(a, b, Len(b) + 1)
<1> DEFINE z == b[n].ack_index
           d == SubSeq(b, n + 1, Len(b))
<1>1. b \in FlightType
  BY DEF Tiled
<1>2. /\ Len(b) \in Nat /\ DOMAIN b = 1 .. Len(b)
      /\ \A k \in 1 .. Len(b) : b[k] \in ItemType /\ b[k].ack_index \in Nat
  BY <1>1, FlightItems
<1>3. n \in Nat /\ n >= 1 /\ n <= Len(b)
  BY <1>2
<1>4. /\ d \in FlightType /\ Len(d) = Len(b) - n
      /\ \A k \in 1 .. Len(b) - n : d[k] = b[n + k]
  <2>1. \A i \in (n + 1) .. Len(b) : b[i] \in ItemType
    BY <1>2, <1>3
  <2>2. n + 1 \in Int /\ Len(b) \in Int
    BY <1>2, <1>3
  <2>3. /\ d \in Seq(ItemType)
        /\ Len(d) = IF n + 1 <= Len(b) THEN Len(b) - (n + 1) + 1 ELSE 0
        /\ \A i \in 1 .. Len(b) - (n + 1) + 1 : d[i] = b[(n + 1) + i - 1]
    BY <2>1, <2>2
  <2> HIDE DEF d
  <2>4. Len(d) = Len(b) - n
    BY <2>2, <2>3, <1>3
  <2>5. ASSUME NEW k \in 1 .. Len(b) - n PROVE d[k] = b[n + k]
    <3>1. k \in 1 .. Len(b) - (n + 1) + 1 /\ (n + 1) + k - 1 = n + k
      BY <2>2, <1>3
    <3>2. QED
      BY <3>1, <2>3
  <2>6. QED
    BY <2>3, <2>4, <2>5 DEF FlightType
<1>5. DOMAIN d = 1 .. Len(d)
  BY <1>4, FlightItems
<1>6. z \in Nat /\ a < z
  BY <1>2 DEF Tiled
<1> HIDE DEF d, z
<1>7. ASSUME NEW k \in 1 .. Len(d)
      PROVE  /\ n + k \in 1 .. Len(b) /\ d[k] = b[n + k]
             /\ Start(z, d, k) = Start(a, b, n + k)
             /\ z < d[k].ack_index
  <2>1. n + k \in 1 .. Len(b) /\ n < n + k /\ d[k] = b[n + k]
    BY <1>2, <1>3, <1>4
  <2>2. z < b[n + k].ack_index
    <3>1. n \in DOMAIN b /\ n + k \in DOMAIN b /\ n < n + k
      BY <2>1, <1>2
    <3>2. \A i, j \in DOMAIN b : i < j => b[i].ack_index < b[j].ack_index
      BY DEF Tiled
    <3>3. QED
      BY ONLY <3>1, <3>2 DEF z
  <2>3. CASE k = 1
    <3>1. n + k # 1 /\ (n + k) - 1 = n
      BY <2>3, <1>3
    <3>2. QED
      BY <2>1, <2>2, <2>3, <3>1 DEF Start, z
  <2>4. CASE k # 1
    <3>1. n + k # 1 /\ (n + k) - 1 = n + (k - 1) /\ k - 1 \in 1 .. Len(b) - n
      BY <2>4, <1>2, <1>3, <1>4
    <3>2. d[k - 1] = b[n + (k - 1)]
      BY <3>1, <1>4
    <3>3. QED
      BY <2>1, <2>2, <2>4, <3>1, <3>2 DEF Start
  <2>5. QED
    BY <2>3, <2>4
<1>8. \A k \in 1 .. Len(d) : Covers(d[k].seg, Start(z, d, k), d[k].ack_index, isn, fin)
  BY <1>2, <1>7 DEF Tiled
<1>9. ASSUME NEW j \in 1 .. Len(d), NEW k \in 1 .. Len(d), j < k
      PROVE  d[j].ack_index < d[k].ack_index
  <2>1. n + j < n + k
    BY <1>9, <1>3, <1>4, <1>2
  <2>2. QED
    BY <2>1, <1>2, <1>7 DEF Tiled
<1>10. Tiled(z, d, isn, fin)
  BY <1>4, <1>5, <1>7, <1>8, <1>9 DEF Tiled
<1>11. Start(z, d, Len(d) + 1) = Start(a, b, Len(b) + 1)
  <2>1. Len(b) + 1 # 1 /\ (Len(b) + 1) - 1 = Len(b)
    BY <1>2, <1>3
  <2>2. CASE Len(d) = 0
    <3>1. n = Len(b)
      <4>1. Len(b) \in Nat /\ Len(b) - n = 0
        BY <2>2, <1>2, <1>4
      <4>2. QED
        BY <4>1, <1>3
    <3>2. QED
      BY <2>1, <2>2, <3>1 DEF Start, z
  <2>3. CASE Len(d) > 0
    <3>1. Len(d) \in 1 .. Len(d) /\ Len(d) + 1 # 1 /\ (Len(d) + 1) - 1 = Len(d) /\ n + Len(d) = Len(b)
      BY <2>3, <1>2, <1>3, <1>4
    <3>2. d[Len(d)] = b[Len(b)]
      BY <3>1, <1>7
    <3>3. QED
      BY <2>1, <3>1, <3>2 DEF Start
  <2>4. QED
    BY <2>2, <2>3, <1>2, <1>3, <1>4
<1>12. QED
  BY <1>4, <1>6, <1>10, <1>11 DEF d, z

\* Sending the FIN does not touch the segments before it.
LEMMA TiledFin ==
  ASSUME NEW a \in Nat, NEW b, NEW isn, Tiled(a, b, isn, NoFin),
         NEW fin \in Nat, Start(a, b, Len(b) + 1) < fin
  PROVE  Tiled(a, b, isn, fin)
<1>1. b \in FlightType
  BY DEF Tiled
<1>2. /\ Len(b) \in Nat /\ DOMAIN b = 1 .. Len(b)
      /\ \A k \in 1 .. Len(b) : b[k].ack_index \in Nat
  BY <1>1, FlightItems
<1>3. ASSUME NEW k \in 1 .. Len(b)
      PROVE  Covers(b[k].seg, Start(a, b, k), b[k].ack_index, isn, fin)
  <2>1. Covers(b[k].seg, Start(a, b, k), b[k].ack_index, isn, NoFin)
    BY <1>2 DEF Tiled
  <2>2. b[k].ack_index # NoFin /\ b[k].ack_index # fin
    BY <1>2, FlightEnd DEF NoFin
  <2>3. QED
    BY <2>1, <2>2 DEF Covers
<1>4. QED
  BY <1>2, <1>3 DEF Tiled

\* The segments the sender starts from.
LEMMA FreshSegment ==
  ASSUME NEW w \in WrappingInt32
  PROVE  LET blank == [EmptySegment EXCEPT !.seqno = w]
             syn   == [blank EXCEPT !.syn = TRUE]
         IN  /\ blank \in SegmentType
             /\ syn \in SegmentType /\ syn.seqno = w /\ syn.syn = TRUE
             /\ syn.fin = FALSE /\ syn.payload = <<>>
<1>1. EmptySegment \in SegmentType
  BY MaxIntAssumption DEF EmptySegment, SegmentType, WrappingInt32
<1>2. EmptySegment.fin = FALSE /\ EmptySegment.payload = <<>>
  BY DEF EmptySegment
<1>3. [EmptySegment EXCEPT !.seqno = w] \in SegmentType
  BY <1>1 DEF SegmentType
<1>4. LET syn == [[EmptySegment EXCEPT !.seqno = w] EXCEPT !.syn = TRUE]
      IN  /\ syn \in SegmentType /\ syn.seqno = w /\ syn.syn = TRUE
          /\ syn.fin = EmptySegment.fin /\ syn.payload = EmptySegment.payload
  BY <1>1 DEF SegmentType
<1>5. QED
  BY <1>2, <1>3, <1>4

\* The SYN is a flight of its own.
LEMMA SynTiled ==
  ASSUME NEW isn \in WrappingInt32
  PROVE  LET seg == [[EmptySegment EXCEPT !.seqno = wrap(0, isn)] EXCEPT !.syn = TRUE]
             b   == <<[seg |-> seg, ack_index |-> 1]>>
         IN  /\ seg \in SegmentType /\ length_in_sequence_space(seg) = 1
             /\ Tiled(0, b, isn, NoFin) /\ Start(0, b, Len(b) + 1) = 1
<1> DEFINE w == wrap(0, isn)
           seg == [[EmptySegment EXCEPT !.seqno = w] EXCEPT !.syn = TRUE]
           it  == [seg |-> seg, ack_index |-> 1]
           b   == <<it>>
<1>1. w \in WrappingInt32
  BY WrapType
<1>2. /\ seg \in SegmentType /\ seg.seqno = w /\ seg.syn = TRUE
      /\ seg.fin = FALSE /\ seg.payload = <<>>
  BY <1>1, FreshSegment
<1> HIDE DEF seg
<1>3. length_in_sequence_space(seg) = 1
  BY <1>2 DEF length_in_sequence_space
<1>4. Covers(seg, 0, 1, isn, NoFin)
  BY <1>2, <1>3, PayloadAssumption DEF Covers, NoFin
<1>5. it \in ItemType /\ it.seg = seg /\ it.ack_index = 1
  BY <1>2 DEF ItemType
<1> HIDE DEF it
<1>6. b \in FlightType /\ Len(b) = 1 /\ b[1] = it /\ DOMAIN b = 1 .. 1
  BY <1>5 DEF FlightType
<1> HIDE DEF b
<1>7. Tiled(0, b, isn, NoFin)
  BY <1>4, <1>5, <1>6 DEF Tiled, Start
<1>8. Start(0, b, Len(b) + 1) = 1
  BY <1>5, <1>6 DEF Start
<1>9. QED
  BY <1>2, <1>3, <1>7, <1>8 DEF b, it, seg

-----------------------------------------------------------------------------

\* Facts that no proof below cites.
HIDE DEF PayloadAssumption

(* The ByteStream a sender reads: the k-th byte written to it is k. *)

\* The bytes that wait are those written and not yet read, in order.
Waiting(st) ==
  /\ st \in StreamType
  /\ Len(st.buffer) <= st.capcity
  /\ st.totoalRead + Len(st.buffer) = st.totoalWrite
  /\ \A i \in 1 .. Len(st.buffer) : st.buffer[i] = st.totoalRead + i

\* Writing the next n bytes takes those that fit.
LEMMA WriteWaiting ==
  ASSUME NEW st, Waiting(st), NEW n \in Nat
  PROVE  LET data == [k \in 1 .. n |-> st.totoalWrite + k]
             new  == stream_write(st, data)
         IN  /\ Waiting(new)
             /\ new.totoalRead = st.totoalRead /\ new.inputEnd = st.inputEnd
             /\ new.error = st.error /\ new.capcity = st.capcity
             /\ st.totoalWrite <= new.totoalWrite /\ new.totoalWrite <= st.totoalWrite + n
<1> DEFINE data == [k \in 1 .. n |-> st.totoalWrite + k]
           b    == st.buffer
           m    == min(Len(data), remaining_capacity(st))
           p    == SubSeq(data, 1, m)
           c    == b \o p
           t    == st.totoalWrite + m
           new  == [st EXCEPT !.buffer = c, !.totoalWrite = t]
<1>1. /\ st \in StreamType /\ b \in Seq(Nat) /\ Len(b) \in Nat /\ st.capcity \in Nat
      /\ st.totoalWrite \in Nat /\ st.totoalRead \in Nat /\ Len(b) <= st.capcity
      /\ st.totoalRead + Len(b) = st.totoalWrite
      /\ \A i \in 1 .. Len(b) : b[i] = st.totoalRead + i
  BY DEF Waiting, StreamType
<1>2. data \in Seq(Nat) /\ Len(data) = n /\ \A k \in 1 .. n : data[k] = st.totoalWrite + k
  BY <1>1
<1> HIDE DEF data, b
<1>3. m \in Nat /\ m <= n /\ Len(b) + m <= st.capcity
  BY <1>1, <1>2 DEF min, remaining_capacity, buffer_size, b
<1> HIDE DEF m
<1>4. p \in Seq(Nat) /\ Len(p) = m /\ \A i \in 1 .. m : p[i] = data[i]
  <2>1. ASSUME NEW i \in 1 .. m PROVE data[i] \in Nat
    <3>1. i \in 1 .. n /\ st.totoalWrite + i \in Nat
      BY <1>1, <1>3
    <3>2. QED
      BY <3>1, <1>2
  <2>2. /\ p \in Seq(Nat) /\ Len(p) = IF 1 <= m THEN m - 1 + 1 ELSE 0
        /\ \A i \in 1 .. m - 1 + 1 : p[i] = data[1 + i - 1]
    BY <2>1, <1>3
  <2> HIDE DEF p
  <2>3. ASSUME NEW i \in 1 .. m PROVE p[i] = data[i]
    <3>1. i \in 1 .. m - 1 + 1 /\ 1 + i - 1 = i
      BY <1>3
    <3>2. QED
      BY <3>1, <2>2
  <2>4. QED
    BY <2>2, <2>3, <1>3
<1> HIDE DEF p
<1>5. /\ c \in Seq(Nat) /\ Len(c) = Len(b) + m
      /\ \A i \in 1 .. Len(b) : c[i] = b[i]
      /\ \A i \in (Len(b) + 1) .. Len(c) : c[i] = p[i - Len(b)]
  <2>1. b \in Seq(Nat) /\ p \in Seq(Nat)
    BY <1>1, <1>4
  <2>2. /\ c \in Seq(Nat) /\ Len(c) = Len(b) + Len(p)
        /\ \A i \in 1 .. Len(b) : c[i] = b[i]
        /\ \A i \in (Len(b) + 1) .. Len(c) : c[i] = p[i - Len(b)]
    <3>1. Len(c) = Len(b) + Len(p)
      BY <2>1
    <3>2. QED
      BY <2>1, <3>1
  <2>3. QED
    BY <2>2, <1>4
<1> HIDE DEF c
<1>6. ASSUME NEW i \in 1 .. Len(c) PROVE c[i] = st.totoalRead + i
  <2>1. CASE i <= Len(b)
    BY <2>1, <1>1, <1>5
  <2>2. CASE i > Len(b)
    <3>1. i - Len(b) \in 1 .. m /\ i \in (Len(b) + 1) .. Len(c)
      BY <2>2, <1>1, <1>3, <1>5
    <3>2. c[i] = data[i - Len(b)] /\ i - Len(b) \in 1 .. n
      <4>1. c[i] = p[i - Len(b)]
        BY ONLY <3>1, <1>5
      <4>2. p[i - Len(b)] = data[i - Len(b)]
        BY ONLY <3>1, <1>4
      <4>3. i - Len(b) \in 1 .. n
        BY ONLY <3>1, <1>3
      <4>4. QED
        BY ONLY <4>1, <4>2, <4>3
    <3>3. c[i] = st.totoalWrite + (i - Len(b))
      BY <3>2, <1>2
    <3>4. QED
      BY <3>1, <3>3, <1>1
  <2>3. QED
    BY <2>1, <2>2, <1>1, <1>5
<1>7. /\ new \in StreamType /\ new.buffer = c /\ new.totoalWrite = t
      /\ new.totoalRead = st.totoalRead /\ new.inputEnd = st.inputEnd
      /\ new.error = st.error /\ new.capcity = st.capcity
  <2>1. t \in Nat
    BY <1>1, <1>3
  <2> HIDE DEF t
  <2>2. st \in StreamType /\ c \in Seq(Nat)
    BY <1>1, <1>5
  <2>3. QED
    BY <2>1, <2>2 DEF StreamType
<1>8. stream_write(st, data) = new
  BY DEF stream_write, m, c, p, b
<1> HIDE DEF new
<1>9. Waiting(new)
  <2>1. Len(c) <= st.capcity /\ st.totoalRead + Len(c) = st.totoalWrite + m
    BY <1>1, <1>3, <1>5
  <2>2. QED
    BY <2>1, <1>6, <1>7 DEF Waiting
<1>10. QED
  BY <1>1, <1>3, <1>7, <1>8, <1>9 DEF data

\* Reading takes the first n bytes, or all of them.
LEMMA ReadWaiting ==
  ASSUME NEW st, Waiting(st), NEW n \in Nat
  PROVE  LET data == peek_output(st, n)
             new  == pop_output(st, n)
         IN  /\ data \in Seq(Nat) /\ Len(data) <= n
             /\ \A i \in 1 .. Len(data) : data[i] = st.totoalRead + i
             /\ Waiting(new)
             /\ new.totoalRead = st.totoalRead + Len(data)
             /\ new.totoalWrite = st.totoalWrite /\ new.inputEnd = st.inputEnd
             /\ new.error = st.error /\ new.capcity = st.capcity
<1> DEFINE b    == st.buffer
           m    == min(n, buffer_size(st))
           data == SubSeq(b, 1, m)
           c    == SubSeq(b, m + 1, Len(b))
           t    == st.totoalRead + m
           new  == [st EXCEPT !.buffer = c, !.totoalRead = t]
<1>1. /\ st \in StreamType /\ b \in Seq(Nat) /\ Len(b) \in Nat /\ st.capcity \in Nat
      /\ st.totoalWrite \in Nat /\ st.totoalRead \in Nat /\ Len(b) <= st.capcity
      /\ st.totoalRead + Len(b) = st.totoalWrite
      /\ \A i \in 1 .. Len(b) : b[i] = st.totoalRead + i
  BY DEF Waiting, StreamType
<1> HIDE DEF b
<1>2. m \in Nat /\ m <= n /\ m <= Len(b)
  BY <1>1 DEF min, buffer_size, b
<1> HIDE DEF m
<1>3. data \in Seq(Nat) /\ Len(data) = m /\ \A i \in 1 .. m : data[i] = b[i]
  <2>1. \A i \in 1 .. m : b[i] \in Nat
    BY <1>1, <1>2
  <2>2. /\ data \in Seq(Nat) /\ Len(data) = IF 1 <= m THEN m - 1 + 1 ELSE 0
        /\ \A i \in 1 .. m - 1 + 1 : data[i] = b[1 + i - 1]
    BY <2>1, <1>2
  <2> HIDE DEF data
  <2>3. ASSUME NEW i \in 1 .. m PROVE data[i] = b[i]
    <3>1. i \in 1 .. m - 1 + 1 /\ 1 + i - 1 = i
      BY <1>2
    <3>2. QED
      BY <3>1, <2>2
  <2>4. QED
    BY <2>2, <2>3, <1>2
<1>4. c \in Seq(Nat) /\ Len(c) = Len(b) - m /\ \A i \in 1 .. Len(b) - m : c[i] = b[m + i]
  <2>1. \A i \in (m + 1) .. Len(b) : b[i] \in Nat
    BY <1>1, <1>2
  <2>2. m + 1 \in Int /\ Len(b) \in Int
    BY <1>1, <1>2
  <2>3. /\ c \in Seq(Nat) /\ Len(c) = IF m + 1 <= Len(b) THEN Len(b) - (m + 1) + 1 ELSE 0
        /\ \A i \in 1 .. Len(b) - (m + 1) + 1 : c[i] = b[(m + 1) + i - 1]
    BY <2>1, <2>2
  <2> HIDE DEF c
  <2>4. ASSUME NEW i \in 1 .. Len(b) - m PROVE c[i] = b[m + i]
    <3>1. i \in 1 .. Len(b) - (m + 1) + 1 /\ (m + 1) + i - 1 = m + i
      BY <1>1, <1>2
    <3>2. QED
      BY <3>1, <2>3
  <2>5. Len(c) = Len(b) - m
    BY <2>2, <2>3, <1>2
  <2>6. QED
    BY <2>3, <2>4, <2>5
<1> HIDE DEF data, c
<1>5. ASSUME NEW i \in 1 .. Len(data) PROVE data[i] = st.totoalRead + i
  <2>1. i \in 1 .. m /\ i \in 1 .. Len(b)
    BY <1>1, <1>2, <1>3
  <2>2. QED
    BY <2>1, <1>1, <1>3
<1>6. ASSUME NEW i \in 1 .. Len(c) PROVE c[i] = st.totoalRead + m + i
  <2>1. i \in 1 .. Len(b) - m /\ m + i \in 1 .. Len(b)
    BY <1>1, <1>2, <1>4
  <2>2. c[i] = b[m + i] /\ b[m + i] = st.totoalRead + (m + i)
    BY <2>1, <1>1, <1>4
  <2>3. QED
    BY <2>1, <2>2, <1>1, <1>2
<1>7. /\ new \in StreamType /\ new.buffer = c /\ new.totoalRead = t
      /\ new.totoalWrite = st.totoalWrite /\ new.inputEnd = st.inputEnd
      /\ new.error = st.error /\ new.capcity = st.capcity
  <2>1. t \in Nat
    BY <1>1, <1>2
  <2> HIDE DEF t
  <2>2. st \in StreamType /\ c \in Seq(Nat)
    BY <1>1, <1>4
  <2>3. QED
    BY <2>1, <2>2 DEF StreamType
<1>8. pop_output(st, n) = new /\ peek_output(st, n) = data
  BY DEF pop_output, peek_output, m, c, b, data
<1> HIDE DEF new
<1>9. Waiting(new)
  <2>1. Len(c) <= st.capcity /\ (st.totoalRead + m) + Len(c) = st.totoalWrite
    BY <1>1, <1>2, <1>4
  <2>2. QED
    BY <2>1, <1>6, <1>7 DEF Waiting
<1>10. QED
  BY <1>1, <1>2, <1>3, <1>5, <1>7, <1>8, <1>9

-----------------------------------------------------------------------------

\* Facts that no proof below cites.
HIDE DEF WriteWaiting

(* The sender: what every one of its methods preserves. *)

\* The sequence numbers are those of the SYN, the bytes read and the FIN.
Numbered(x) ==
  /\ x.next_seqno = 0 => x.stream.totoalRead = 0 /\ x.fin_ack_index = NoFin
  /\ x.next_seqno > 0 /\ x.fin_ack_index = NoFin => x.next_seqno = x.stream.totoalRead + 1
  /\ x.fin_ack_index # NoFin =>
        /\ eof(x.stream)
        /\ x.next_seqno = x.fin_ack_index
        /\ x.fin_ack_index = x.stream.totoalWrite + 2

Timed(x) ==
  /\ x.seg_buffer = <<>> => x.timer = 0 /\ x.retrans_num = 0
  /\ x.timer < x.RTO

Core(x) ==
  /\ x \in SenderType
  /\ Waiting(x.stream)
  /\ Tiled(x.cur_ack_index, x.seg_buffer, x.isn, x.fin_ack_index)
  /\ x.next_seqno = Start(x.cur_ack_index, x.seg_buffer, Len(x.seg_buffer) + 1)
  /\ Numbered(x)
  /\ Timed(x)

Windowed(x) ==
  /\ x.cur_ack_index <= x.wd_right_edge
  /\ x.next_seqno <= x.wd_right_edge + 1

\* What a new segment, or new segments, leave alone.
SameControl(x, y) ==
  /\ y.isn = x.isn /\ y.cur_ack_index = x.cur_ack_index /\ y.wd_right_edge = x.wd_right_edge
  /\ y.retrans_num = x.retrans_num /\ y.RTO = x.RTO /\ y.timer = x.timer

\* The application's side of the stream is not touched.
SameInput(x, y) ==
  /\ y.stream.totoalWrite = x.stream.totoalWrite /\ y.stream.inputEnd = x.stream.inputEnd
  /\ y.stream.error = x.stream.error /\ y.stream.capcity = x.stream.capcity

\* Every segment of queue new was in queue old or is one of flight b.
Supplied(old, new, b) ==
  \A k \in DOMAIN new : \/ \E j \in DOMAIN old : new[k] = old[j]
                        \/ \E j \in DOMAIN b : new[k] = b[j].seg

\* Whatever a method has queued is kept until it is acknowledged.
Queued(x, y) == Supplied(x.segments_out, y.segments_out, y.seg_buffer)

\* A segment of the flight is queued.
LEMMA SuppliedAppend ==
  ASSUME NEW o \in Seq(SegmentType), NEW b, NEW j \in DOMAIN b, b[j].seg \in SegmentType
  PROVE  Supplied(o, Append(o, b[j].seg), b)
<1> DEFINE v == b[j].seg
<1>1. v \in SegmentType
  OBVIOUS
<1> HIDE DEF v
<1>2. /\ Len(o) \in Nat /\ DOMAIN o = 1 .. Len(o) /\ DOMAIN Append(o, v) = 1 .. Len(o) + 1
      /\ \A k \in 1 .. Len(o) : Append(o, v)[k] = o[k]
      /\ Append(o, v)[Len(o) + 1] = v
  BY <1>1
<1>3. ASSUME NEW k \in 1 .. Len(o) + 1
      PROVE  \/ \E i \in 1 .. Len(o) : Append(o, v)[k] = o[i]
             \/ Append(o, v)[k] = v
  <2>1. k \in 1 .. Len(o) \/ k = Len(o) + 1
    BY <1>2
  <2>2. QED
    BY <2>1, <1>2
<1>4. QED
  BY <1>2, <1>3 DEF Supplied, v

\* New segments are queued and kept.
LEMMA SuppliedConcat ==
  ASSUME NEW o \in Seq(SegmentType), NEW s \in Seq(SegmentType),
         NEW b \in FlightType, NEW c \in FlightType,
         Len(s) = Len(c), \A k \in 1 .. Len(s) : s[k] = c[k].seg
  PROVE  Supplied(o, o \o s, b \o c)
<1>1. /\ Len(o) \in Nat /\ Len(s) \in Nat /\ DOMAIN o = 1 .. Len(o)
      /\ DOMAIN (o \o s) = 1 .. Len(o) + Len(s)
      /\ \A k \in 1 .. Len(o) : (o \o s)[k] = o[k]
      /\ \A k \in 1 .. Len(s) : (o \o s)[Len(o) + k] = s[k]
  <2>1. Len(o) \in Nat /\ Len(s) \in Nat /\ DOMAIN o = 1 .. Len(o)
    OBVIOUS
  <2>2. /\ DOMAIN (o \o s) = 1 .. Len(o) + Len(s)
        /\ \A k \in 1 .. Len(o) : (o \o s)[k] = o[k]
    BY <2>1
  <2>3. \A k \in 1 .. Len(s) : (o \o s)[Len(o) + k] = s[k]
    BY <2>1
  <2>4. QED
    BY <2>1, <2>2, <2>3
<1>2. /\ Len(b) \in Nat /\ DOMAIN (b \o c) = 1 .. Len(b) + Len(s)
      /\ \A k \in 1 .. Len(s) : (b \o c)[Len(b) + k] = c[k]
  BY DEF FlightType
<1> DEFINE p == o \o s
           q == b \o c
<1> HIDE DEF p, q
<1>3. ASSUME NEW k \in 1 .. Len(o) + Len(s)
      PROVE  \/ \E j \in 1 .. Len(o) : p[k] = o[j]
             \/ \E j \in 1 .. Len(b) + Len(s) : p[k] = q[j].seg
  <2>1. CASE k \in 1 .. Len(o)
    BY <2>1, <1>1 DEF p
  <2>2. CASE k \notin 1 .. Len(o)
    <3>1. PICK i \in 1 .. Len(s) : k = Len(o) + i
      <4>1. k - Len(o) \in 1 .. Len(s) /\ k = Len(o) + (k - Len(o))
        BY <2>2, <1>1
      <4>2. QED
        BY <4>1
    <3>2. p[k] = s[i] /\ q[Len(b) + i] = c[i] /\ s[i] = c[i].seg
      BY <3>1, <1>1, <1>2 DEF p, q
    <3>3. Len(b) + i \in 1 .. Len(b) + Len(s)
      BY <3>1, <1>1, <1>2
    <3>4. QED
      BY <3>2, <3>3
  <2>3. QED
    BY <2>1, <2>2
<1>4. QED
  BY <1>1, <1>2, <1>3 DEF Supplied, p, q

\* The fields of a sender.
LEMMA SenderFields ==
  ASSUME NEW x \in SenderType
  PROVE  /\ x.isn \in WrappingInt32 /\ x.segments_out \in Seq(SegmentType)
         /\ x.stream \in StreamType /\ x.seg_buffer \in FlightType
         /\ x.next_seqno \in Nat /\ x.cur_ack_index \in Nat
         /\ x.fin_ack_index \in Nat \cup {NoFin} /\ x.wd_right_edge \in Nat
         /\ x.retrans_num \in Nat /\ x.RTO \in Nat /\ x.timer \in Nat
  BY DEF SenderType

\* send_syn sends the SYN, once.
LEMMA SynCore ==
  ASSUME NEW x, Core(x), x.next_seqno = 0
  PROVE  LET y == send_syn(x)
         IN  /\ Core(y) /\ y.next_seqno = 1 /\ y.stream = x.stream
             /\ SameControl(x, y) /\ y.fin_ack_index = x.fin_ack_index
             /\ Queued(x, y)
<1> DEFINE seg == [[EmptySegment EXCEPT !.seqno = wrap(0, x.isn)] EXCEPT !.syn = TRUE]
           it  == [seg |-> seg, ack_index |-> 1]
           o   == Append(x.segments_out, seg)
           b   == Append(x.seg_buffer, it)
           y   == [x EXCEPT !.segments_out = o, !.next_seqno = 1, !.seg_buffer = b]
<1>1. x \in SenderType /\ Waiting(x.stream) /\ Numbered(x) /\ Timed(x)
  BY DEF Core
<1>2. /\ x.isn \in WrappingInt32 /\ x.segments_out \in Seq(SegmentType)
      /\ x.seg_buffer \in FlightType /\ x.cur_ack_index \in Nat
  BY <1>1, SenderFields
<1>3. x.fin_ack_index = NoFin /\ x.stream.totoalRead = 0
  BY <1>1 DEF Numbered
<1>4. x.seg_buffer = <<>> /\ x.cur_ack_index = 0
  <2>1. Tiled(x.cur_ack_index, x.seg_buffer, x.isn, x.fin_ack_index)
    BY DEF Core
  <2>2. Start(x.cur_ack_index, x.seg_buffer, Len(x.seg_buffer) + 1) = 0
    BY DEF Core
  <2>3. /\ x.cur_ack_index <= 0
        /\ \A k \in 1 .. Len(x.seg_buffer) : x.seg_buffer[k].ack_index <= 0
    BY <1>2, <2>1, <2>2, FlightEnd
  <2>4. /\ Len(x.seg_buffer) \in Nat /\ DOMAIN x.seg_buffer = 1 .. Len(x.seg_buffer)
        /\ \A k \in 1 .. Len(x.seg_buffer) : x.seg_buffer[k].ack_index \in Nat
    BY <1>2, FlightItems
  <2>5. \A k \in 1 .. Len(x.seg_buffer) : x.cur_ack_index < x.seg_buffer[k].ack_index
    BY <2>1, <2>4 DEF Tiled
  <2>6. Len(x.seg_buffer) = 0
    <3>1. ASSUME Len(x.seg_buffer) # 0 PROVE FALSE
      <4>1. 1 \in 1 .. Len(x.seg_buffer)
        BY <3>1, <2>4
      <4>2. x.cur_ack_index < x.seg_buffer[1].ack_index /\ x.seg_buffer[1].ack_index <= 0
        BY <4>1, <2>3, <2>5
      <4>3. QED
        BY <4>1, <4>2, <1>2, <2>4
    <3>2. QED
      BY <3>1
  <2>7. x.seg_buffer = <<>>
    BY <2>6, <1>2 DEF FlightType
  <2>8. QED
    BY <2>3, <2>7, <1>2
<1>5. /\ seg \in SegmentType /\ length_in_sequence_space(seg) = 1
      /\ Tiled(0, <<it>>, x.isn, NoFin) /\ Start(0, <<it>>, Len(<<it>>) + 1) = 1
  BY <1>2, SynTiled
<1>6. send_syn(x) = y
  <2>1. get_init_seg(x) = [EmptySegment EXCEPT !.seqno = wrap(0, x.isn)]
    BY DEF get_init_seg
  <2>2. send_syn(x) = send_new_seg(x, seg)
    BY <2>1 DEF send_syn
  <2>3. x.next_seqno + length_in_sequence_space(seg) = 1
    BY <1>5
  <2> HIDE DEF seg
  <2>4. QED
    BY <2>2, <2>3 DEF send_new_seg
<1> HIDE DEF seg
<1>7. o \in Seq(SegmentType) /\ b = <<it>> /\ it \in ItemType
  BY <1>2, <1>4, <1>5 DEF ItemType
<1>8. b \in FlightType
  <2> HIDE DEF it, b
  <2>1. QED
    BY <1>7 DEF FlightType
<1>q. Supplied(x.segments_out, o, b)
  <2>1. 1 \in DOMAIN b /\ b[1].seg = seg
    BY <1>7
  <2> HIDE DEF b
  <2>2. QED
    BY <2>1, <1>2, <1>5, SuppliedAppend
<1> HIDE DEF o, b, it
<1>9. /\ y \in SenderType /\ y.seg_buffer = b /\ y.segments_out = o /\ y.next_seqno = 1
      /\ y.stream = x.stream /\ y.fin_ack_index = x.fin_ack_index
  BY <1>1, <1>7, <1>8 DEF SenderType
<1>10. SameControl(x, y)
  BY <1>1 DEF SenderType, SameControl
<1> HIDE DEF y
<1>11. y.isn = x.isn /\ y.cur_ack_index = 0 /\ y.timer = x.timer /\ y.RTO = x.RTO
  BY <1>4, <1>10 DEF SameControl
<1>12. Numbered(y)
  BY <1>3, <1>9 DEF Numbered
<1>13. Timed(y)
  <2>1. y.seg_buffer # <<>>
    BY <1>7, <1>9
  <2>2. QED
    BY <2>1, <1>1, <1>11 DEF Timed
<1>14. Core(y)
  BY <1>1, <1>3, <1>5, <1>7, <1>9, <1>11, <1>12, <1>13 DEF Core
<1>15. Queued(x, y)
  BY <1>q, <1>9 DEF Queued
<1>16. QED
  BY <1>6, <1>9, <1>10, <1>14, <1>15

\* fill_from_stream (lines 50-73 of tcp_sender.cc) sends what the window
\* admits, and not a sequence number more.
LEMMA FillFromStreamCore ==
  ASSUME NEW x, Core(x), x.next_seqno > 0, x.fin_ack_index = NoFin
  PROVE  LET y == fill_from_stream(x)
         IN  /\ Core(y) /\ SameControl(x, y) /\ SameInput(x, y) /\ Queued(x, y)
             /\ x.next_seqno <= y.next_seqno
             /\ y.next_seqno <= max(x.next_seqno, x.wd_right_edge)
<1> DEFINE fill == max(x.wd_right_edge - x.next_seqno, 0)
           data == peek_output(x.stream, fill)
           rest == pop_output(x.stream, fill)
           f    == eof(rest) /\ Len(data) < fill
           v    == IF f THEN 1 ELSE 0
           from == x.next_seqno
           next == from + Len(data) + v
           fin  == IF f THEN next ELSE x.fin_ack_index
           segs == CutSegments(data, f, from, x.isn)
           items == CutItems(data, f, from, x.isn)
           o    == x.segments_out \o segs
           b    == x.seg_buffer \o items
           w    == [x EXCEPT !.stream = rest]
           y    == [w EXCEPT !.segments_out = o, !.seg_buffer = b,
                             !.next_seqno = next, !.fin_ack_index = fin]
<1>1. x \in SenderType /\ Waiting(x.stream) /\ Numbered(x) /\ Timed(x)
  BY DEF Core
<1>2. /\ x.isn \in WrappingInt32 /\ x.segments_out \in Seq(SegmentType)
      /\ x.stream \in StreamType /\ x.seg_buffer \in FlightType
      /\ from \in Nat /\ x.cur_ack_index \in Nat /\ x.wd_right_edge \in Nat
  BY <1>1, SenderFields
<1>3. fill \in Nat /\ from + fill <= max(from, x.wd_right_edge)
  BY <1>2 DEF max
<1>4. from = x.stream.totoalRead + 1 /\ x.stream.totoalRead \in Nat
  BY <1>1, <1>2 DEF Numbered, StreamType
<1> HIDE DEF fill
<1>5. /\ data \in Seq(Nat) /\ Len(data) <= fill
      /\ \A i \in 1 .. Len(data) : data[i] = x.stream.totoalRead + i
      /\ Waiting(rest) /\ rest.totoalRead = x.stream.totoalRead + Len(data)
      /\ rest.totoalWrite = x.stream.totoalWrite /\ rest.inputEnd = x.stream.inputEnd
      /\ rest.error = x.stream.error /\ rest.capcity = x.stream.capcity
  BY <1>1, <1>3, ReadWaiting
<1>6. fill_from_stream(x) = send_data(w, data, f)
  BY DEF fill_from_stream, fill
<1> HIDE DEF data, rest
<1>7. \A i \in 1 .. Len(data) : data[i] = from + i - 1
  BY <1>4, <1>5
<1>8. f \in BOOLEAN /\ from \in Nat \ {0} /\ Len(data) \in Nat
  BY <1>2, <1>5
<1>9. rest \in StreamType
  BY <1>5 DEF Waiting
<1>10. /\ w \in SenderType /\ w.stream = rest /\ w.next_seqno = from /\ w.isn = x.isn
       /\ w.segments_out = x.segments_out /\ w.seg_buffer = x.seg_buffer
       /\ w.fin_ack_index = x.fin_ack_index
  BY <1>1, <1>9 DEF SenderType
<1>11. SameControl(x, w)
  BY <1>1, <1>9 DEF SenderType, SameControl
<1> HIDE DEF w
<1>12. send_data(w, data, f) = y
  <2> HIDE DEF f
  <2>1. QED
    BY <1>10, SendDataParts
<1>13. /\ v \in {0, 1} /\ next \in Nat /\ from <= next /\ (f <=> v = 1)
       /\ next <= from + fill
  <2>1. f => Len(data) < fill
    OBVIOUS
  <2> HIDE DEF f
  <2>2. v \in {0, 1} /\ (f <=> v = 1)
    OBVIOUS
  <2>3. Len(data) + v <= fill
    BY <2>1, <2>2, <1>3, <1>5, <1>8
  <2> HIDE DEF v
  <2>4. QED
    BY <2>2, <2>3, <1>3, <1>8
<1>14. /\ segs \in Seq(SegmentType)
       /\ Tiled(from, items, x.isn, IF f THEN next ELSE NoFin)
       /\ Start(from, items, Len(items) + 1) = next
  BY <1>2, <1>5, <1>7, <1>8, CutTiled
<1>15. fin = (IF f THEN next ELSE NoFin) /\ fin \in Nat \cup {NoFin}
  BY <1>13
<1>16. Tiled(x.cur_ack_index, x.seg_buffer, x.isn, fin)
  <2>1. /\ Tiled(x.cur_ack_index, x.seg_buffer, x.isn, NoFin)
        /\ from = Start(x.cur_ack_index, x.seg_buffer, Len(x.seg_buffer) + 1)
    BY DEF Core
  <2>2. CASE f
    <3>1. fin = next /\ from < fin
      BY <2>2, <1>8, <1>13
    <3>2. QED
      BY <2>1, <3>1, <1>2, <1>13, TiledFin
  <2>3. CASE ~f
    BY <2>1, <2>3
  <2>4. QED
    BY <2>2, <2>3
<1> HIDE DEF f, next, v, segs, items
<1>17. /\ Tiled(x.cur_ack_index, b, x.isn, fin)
       /\ Start(x.cur_ack_index, b, Len(b) + 1) = next
  <2>1. from = Start(x.cur_ack_index, x.seg_buffer, Len(x.seg_buffer) + 1)
    BY DEF Core
  <2>2. Tiled(from, items, x.isn, fin)
    BY <1>14, <1>15
  <2> HIDE DEF fin
  <2>3. Tiled(x.cur_ack_index, x.seg_buffer, x.isn, fin) /\ x.cur_ack_index \in Nat /\ from \in Nat
    BY <1>2, <1>16
  <2> DEFINE at == Start(x.cur_ack_index, x.seg_buffer, Len(x.seg_buffer) + 1)
  <2>4. Tiled(at, items, x.isn, fin)
    BY <2>1, <2>2
  <2>5. /\ Tiled(x.cur_ack_index, b, x.isn, fin)
        /\ Start(x.cur_ack_index, b, Len(b) + 1) = Start(at, items, Len(items) + 1)
    <3>1. Prolonged(x.cur_ack_index, x.seg_buffer, items, x.isn, fin)
      BY <2>3, <2>4, TiledConcat
    <3>2. QED
      BY <3>1 DEF Prolonged
  <2>6. QED
    BY <2>1, <2>5, <1>14
<1>18. b \in FlightType /\ o \in Seq(SegmentType)
  <2>1. b \in FlightType
    BY <1>17 DEF Tiled
  <2>2. QED
    BY <2>1, <1>2, <1>14
<1>19. x.seg_buffer # <<>> => b # <<>>
  <2>1. items \in FlightType
    BY <1>14 DEF Tiled
  <2>2. QED
    BY <2>1, <1>2 DEF FlightType
<1>q. Supplied(x.segments_out, o, b)
  <2>1. items \in FlightType
    BY <1>14 DEF Tiled
  <2>2. Len(segs) = Len(items) /\ \A k \in 1 .. Len(segs) : segs[k] = items[k].seg
    <3>1. DOMAIN segs = DOMAIN items /\ \A k \in DOMAIN segs : segs[k] = items[k].seg
      BY DEF segs, items, CutSegments, CutItems, CutItem
    <3>2. /\ Len(segs) \in Nat /\ Len(items) \in Nat
          /\ DOMAIN segs = 1 .. Len(segs) /\ DOMAIN items = 1 .. Len(items)
      BY <2>1, <1>14 DEF FlightType
    <3> DEFINE m == Len(segs)
               n == Len(items)
    <3> HIDE DEF m, n
    <3>3. m \in Nat /\ n \in Nat /\ 1 .. m = 1 .. n
      BY <3>1, <3>2 DEF m, n
    <3>4. m = n
      <4>1. n <= m
        BY <3>3
      <4>2. m <= n
        BY <3>3
      <4>3. QED
        BY <3>3, <4>1, <4>2
    <3>5. QED
      BY <3>1, <3>2, <3>4 DEF m, n
  <2>3. QED
    BY <2>1, <2>2, <1>2, <1>14, SuppliedConcat
<1> HIDE DEF b, o, fin
<1>20. /\ y \in SenderType /\ y.seg_buffer = b /\ y.segments_out = o /\ y.next_seqno = next
       /\ y.fin_ack_index = fin /\ y.stream = rest
       /\ SameControl(w, y)
  <2>1. /\ w \in SenderType /\ o \in Seq(SegmentType) /\ b \in FlightType
        /\ next \in Nat /\ fin \in Nat \cup {NoFin} /\ w.stream = rest
    BY <1>10, <1>13, <1>15, <1>18
  <2>2. y \in SenderType
    BY <2>1 DEF SenderType
  <2>3. QED
    BY <2>1 DEF SenderType, SameControl
<1> HIDE DEF y
<1>21. SameControl(x, y)
  BY <1>11, <1>20 DEF SameControl
<1>22. SameInput(x, y)
  BY <1>5, <1>20 DEF SameInput
<1>23. Numbered(y)
  <2>1. CASE f
    <3>1. eof(rest) /\ fin = next /\ v = 1
      BY <2>1, <1>13 DEF f, fin
    <3>2. rest.totoalRead = rest.totoalWrite
      BY <3>1, <1>5, <1>9 DEF Waiting, eof, buffer_size, StreamType
    <3>3. next = rest.totoalWrite + 2 /\ next > 0 /\ fin # NoFin
      BY <3>1, <3>2, <1>4, <1>5, <1>8, <1>13 DEF next, NoFin
    <3>4. QED
      BY <3>1, <3>3, <1>20 DEF Numbered
  <2>2. CASE ~f
    <3>1. fin = NoFin /\ v = 0
      BY <2>2, <1>13, <1>15
    <3>2. next = rest.totoalRead + 1 /\ next > 0
      BY <3>1, <1>4, <1>5, <1>8, <1>13 DEF next
    <3>3. QED
      BY <3>1, <3>2, <1>20 DEF Numbered
  <2>3. QED
    BY <2>1, <2>2
<1>24. Timed(y)
  BY <1>1, <1>19, <1>20, <1>21 DEF Timed, SameControl
<1>25. Core(y)
  <2>1. y.cur_ack_index = x.cur_ack_index /\ y.isn = x.isn
    BY <1>21 DEF SameControl
  <2>2. QED
    BY <2>1, <1>5, <1>17, <1>20, <1>23, <1>24 DEF Core
<1>26. from <= y.next_seqno /\ y.next_seqno <= max(from, x.wd_right_edge)
  <2>1. max(from, x.wd_right_edge) \in Nat
    BY <1>2 DEF max
  <2>2. QED
    BY <2>1, <1>2, <1>3, <1>13, <1>20
<1>27. Queued(x, y)
  BY <1>q, <1>10, <1>20 DEF Queued
<1>28. QED
  BY <1>6, <1>12, <1>21, <1>22, <1>25, <1>26, <1>27

\* fill_window sends the SYN first, then what the window admits, and nothing
\* after the FIN.
LEMMA FillCore ==
  ASSUME NEW x, Core(x)
  PROVE  LET y == fill_window(x)
         IN  /\ Core(y) /\ SameControl(x, y) /\ SameInput(x, y) /\ Queued(x, y)
             /\ x.next_seqno <= y.next_seqno
             /\ y.next_seqno <= max(x.next_seqno, max(x.wd_right_edge, 1))
<1>1. x \in SenderType /\ Numbered(x)
  BY DEF Core
<1>2. x.next_seqno \in Nat /\ x.wd_right_edge \in Nat /\ x.fin_ack_index \in Nat \cup {NoFin}
  BY <1>1, SenderFields
<1>3. CASE x.next_seqno = x.fin_ack_index
  <2>1. fill_window(x) = x
    BY <1>3 DEF fill_window
  <2>2. SameControl(x, x) /\ SameInput(x, x) /\ Queued(x, x)
    BY DEF SameControl, SameInput, Queued, Supplied
  <2>3. x.next_seqno <= max(x.next_seqno, max(x.wd_right_edge, 1))
    BY <1>2 DEF max
  <2>4. QED
    BY <1>2, <2>1, <2>2, <2>3
<1>4. CASE x.next_seqno # x.fin_ack_index /\ x.next_seqno = 0
  <2> DEFINE y == send_syn(x)
  <2>1. fill_window(x) = y
    BY <1>4 DEF fill_window
  <2>2. /\ Core(y) /\ y.next_seqno = 1 /\ y.stream = x.stream /\ SameControl(x, y)
        /\ Queued(x, y)
    BY <1>4, SynCore
  <2> HIDE DEF y
  <2>3. SameInput(x, y)
    BY <2>2 DEF SameInput
  <2>4. x.next_seqno <= 1 /\ 1 <= max(x.next_seqno, max(x.wd_right_edge, 1))
    BY <1>2, <1>4 DEF max
  <2>5. QED
    BY <2>1, <2>2, <2>3, <2>4
<1>5. CASE x.next_seqno # x.fin_ack_index /\ x.next_seqno # 0
  <2> DEFINE y == fill_from_stream(x)
  <2>1. fill_window(x) = y
    BY <1>5 DEF fill_window
  <2>2. x.next_seqno > 0 /\ x.fin_ack_index = NoFin
    BY <1>1, <1>2, <1>5 DEF Numbered
  <2>3. /\ Core(y) /\ SameControl(x, y) /\ SameInput(x, y) /\ Queued(x, y)
        /\ x.next_seqno <= y.next_seqno
        /\ y.next_seqno <= max(x.next_seqno, x.wd_right_edge)
    BY <2>2, FillFromStreamCore
  <2> HIDE DEF y
  <2>4. y.next_seqno \in Nat
    BY <2>3, SenderFields DEF Core
  <2>5. y.next_seqno <= max(x.next_seqno, max(x.wd_right_edge, 1))
    BY <1>2, <2>3, <2>4 DEF max
  <2>6. QED
    BY <2>1, <2>3, <2>5
<1>6. QED
  BY <1>3, <1>4, <1>5

\* pop_acked takes away whole segments that lie before ack, and starts the
\* next flight with a fresh timer.
LEMMA PopCore ==
  ASSUME NEW x, Core(x), NEW ack \in Nat, x.cur_ack_index <= ack
  PROVE  LET y == pop_acked(x, ack)
         IN  /\ Core(y) /\ y.isn = x.isn /\ y.stream = x.stream
             /\ y.next_seqno = x.next_seqno /\ y.wd_right_edge = x.wd_right_edge
             /\ x.cur_ack_index <= y.cur_ack_index /\ y.cur_ack_index <= ack
             /\ y.segments_out = x.segments_out
             /\ \/ y.RTO = x.RTO /\ y.retrans_num = x.retrans_num
                \/ y.RTO = rt_timeout /\ y.retrans_num = 0
<1> DEFINE b == x.seg_buffer
           n == acked_count(x, ack)
           z == b[n].ack_index
           d == SubSeq(b, n + 1, Len(b))
           y == [x EXCEPT !.cur_ack_index = z, !.seg_buffer = d,
                          !.RTO = rt_timeout, !.retrans_num = 0, !.timer = 0]
<1>1. x \in SenderType /\ Waiting(x.stream) /\ Numbered(x) /\ Timed(x)
  BY DEF Core
<1>2. /\ b \in FlightType /\ x.cur_ack_index \in Nat /\ x.RTO \in Nat /\ x.retrans_num \in Nat
      /\ x.isn \in WrappingInt32 /\ x.stream \in StreamType /\ x.next_seqno \in Nat
      /\ x.wd_right_edge \in Nat
  BY <1>1, SenderFields
<1>3. n \in 0 .. Len(b) /\ \A k \in 1 .. n : b[k].ack_index <= ack
  BY <1>2, AckedCount
<1>4. /\ Tiled(x.cur_ack_index, b, x.isn, x.fin_ack_index)
      /\ x.next_seqno = Start(x.cur_ack_index, b, Len(b) + 1)
  BY DEF Core
<1>5. CASE n = 0
  <2>1. pop_acked(x, ack) = x
    BY <1>5 DEF pop_acked
  <2>2. QED
    BY <2>1, <1>2
<1>6. CASE n # 0
  <2>1. pop_acked(x, ack) = y
    BY <1>6 DEF pop_acked
  <2> HIDE DEF b, n
  <2>2. n \in 1 .. Len(b) /\ n \in 1 .. n
    BY <1>2, <1>3, <1>6, FlightItems
  <2>3. z <= ack
    BY <2>2, <1>3
  <2>4. /\ z \in Nat /\ x.cur_ack_index < z /\ Len(d) = Len(b) - n
        /\ Tiled(z, d, x.isn, x.fin_ack_index)
        /\ Start(z, d, Len(d) + 1) = Start(x.cur_ack_index, b, Len(b) + 1)
    <3>1. x.cur_ack_index \in Nat
      BY <1>2
    <3>2. QED
      BY ONLY <3>1, <1>4, <2>2, TiledDrop
  <2>5. d \in FlightType
    BY <2>4 DEF Tiled
  <2> HIDE DEF z, d
  <2>6. rt_timeout \in Nat /\ rt_timeout > 0
    BY TimeoutAssumption
  <2>7. y \in SenderType
    BY <1>1, <2>4, <2>5, <2>6 DEF SenderType
  <2>8. /\ y.cur_ack_index = z /\ y.seg_buffer = d /\ y.isn = x.isn /\ y.stream = x.stream
        /\ y.next_seqno = x.next_seqno /\ y.wd_right_edge = x.wd_right_edge
        /\ y.fin_ack_index = x.fin_ack_index /\ y.segments_out = x.segments_out
        /\ y.RTO = rt_timeout /\ y.retrans_num = 0 /\ y.timer = 0
    BY <1>1 DEF SenderType
  <2> HIDE DEF y
  <2>9. Numbered(y)
    BY <1>1, <2>8 DEF Numbered
  <2>10. Timed(y)
    BY <2>6, <2>8 DEF Timed
  <2>11. Core(y)
    BY <1>1, <1>4, <2>4, <2>7, <2>8, <2>9, <2>10 DEF Core
  <2>12. QED
    BY <2>1, <2>3, <2>4, <2>8, <2>11, <1>2
<1>7. QED
  BY <1>5, <1>6

\* The right edge is not part of what Core says.
LEMMA EdgeCore ==
  ASSUME NEW x, Core(x), NEW e \in Nat
  PROVE  LET y == [x EXCEPT !.wd_right_edge = e]
         IN  /\ Core(y) /\ y.wd_right_edge = e /\ y.isn = x.isn /\ y.stream = x.stream
             /\ y.segments_out = x.segments_out /\ y.seg_buffer = x.seg_buffer
             /\ y.next_seqno = x.next_seqno /\ y.cur_ack_index = x.cur_ack_index
             /\ y.RTO = x.RTO /\ y.retrans_num = x.retrans_num /\ y.timer = x.timer
<1> DEFINE y == [x EXCEPT !.wd_right_edge = e]
<1>1. x \in SenderType
  BY DEF Core
<1>2. y \in SenderType
  BY <1>1 DEF SenderType
<1>3. /\ y.wd_right_edge = e /\ y.isn = x.isn /\ y.stream = x.stream
      /\ y.segments_out = x.segments_out
      /\ y.next_seqno = x.next_seqno /\ y.cur_ack_index = x.cur_ack_index
      /\ y.seg_buffer = x.seg_buffer /\ y.fin_ack_index = x.fin_ack_index
      /\ y.RTO = x.RTO /\ y.retrans_num = x.retrans_num /\ y.timer = x.timer
  BY <1>1 DEF SenderType
<1> HIDE DEF y
<1>4. Core(y)
  BY <1>2, <1>3 DEF Core, Numbered, Timed
<1>5. QED
  BY <1>3, <1>4 DEF y

\* Nothing that was sent, acknowledged or granted is taken back.
Grown(x, y) ==
  /\ x.next_seqno <= y.next_seqno
  /\ x.cur_ack_index <= y.cur_ack_index
  /\ x.wd_right_edge <= y.wd_right_edge

\* What the sender keeps about itself, between two calls.
SenderSound(x) == Core(x) /\ Windowed(x) /\ x.wd_right_edge >= 1

\* The retransmission timeout is that of a new flight, or has not changed.
SameBackoff(x, y) ==
  \/ y.RTO = x.RTO /\ y.retrans_num = x.retrans_num
  \/ y.RTO = rt_timeout /\ y.retrans_num = 0

\* ack_received, for an acknowledgment of something that has been sent.
LEMMA AckSound ==
  ASSUME NEW x, SenderSound(x), NEW ack \in Nat, ack <= x.next_seqno,
         2 * (x.next_seqno - ack) <= MaxInt, NEW window \in Nat
  PROVE  LET y == ack_received(x, wrap(ack, x.isn), window)
         IN  /\ SenderSound(y) /\ Grown(x, y) /\ SameInput(x, y) /\ y.isn = x.isn
             /\ SameBackoff(x, y) /\ Queued(x, y)
             /\ y.cur_ack_index <= max(x.cur_ack_index, ack)
             /\ y.wd_right_edge = x.wd_right_edge \/ y.wd_right_edge = ack + window
<1> DEFINE y == ack_received(x, wrap(ack, x.isn), window)
           edge  == right_edge(x, ack, window)
           probe == IF window = 0 THEN 1 ELSE 0
           p == pop_acked(x, ack)
           q == [p EXCEPT !.wd_right_edge = edge + probe]
           r == fill_window(q)
<1>1. Core(x) /\ Windowed(x) /\ x.wd_right_edge >= 1 /\ x \in SenderType
  BY DEF SenderSound, Core
<1>2. /\ x.isn \in WrappingInt32 /\ x.next_seqno \in Nat /\ x.cur_ack_index \in Nat
      /\ x.wd_right_edge \in Nat
  BY <1>1, SenderFields
<1>3. unwrap(wrap(ack, x.isn), x.isn, x.next_seqno) = ack
  <2>1. 2 * (ack - x.next_seqno) < MaxInt
    BY <1>2, MaxIntAssumption
  <2>2. QED
    BY <2>1, <1>2, UnwrapInverts
<1>4. CASE ack_ignored(x, ack)
  <2>1. y = x
    BY <1>3, <1>4 DEF ack_received
  <2>2. Grown(x, x) /\ SameInput(x, x) /\ SameBackoff(x, x) /\ Queued(x, x)
    BY <1>2 DEF Grown, SameInput, SameBackoff, Queued, Supplied
  <2>3. x.cur_ack_index <= max(x.cur_ack_index, ack)
    BY <1>2 DEF max
  <2>4. QED
    BY <2>1, <2>2, <2>3
<1>5. CASE ~ack_ignored(x, ack)
  <2>1. y = [r EXCEPT !.wd_right_edge = edge]
    BY <1>3, <1>5 DEF ack_received
  <2>2. x.cur_ack_index <= ack
    BY <1>2, <1>5 DEF ack_ignored
  <2>3. /\ edge \in Nat /\ x.wd_right_edge <= edge /\ ack + window <= edge
        /\ edge = x.wd_right_edge \/ edge = ack + window
    BY <1>2 DEF right_edge, max
  <2>4. probe \in Nat /\ probe <= 1
    OBVIOUS
  <2> HIDE DEF edge, probe, y
  <2>5. /\ Core(p) /\ p.isn = x.isn /\ p.stream = x.stream
        /\ p.next_seqno = x.next_seqno /\ p.wd_right_edge = x.wd_right_edge
        /\ x.cur_ack_index <= p.cur_ack_index /\ p.cur_ack_index <= ack
        /\ SameBackoff(x, p) /\ p.segments_out = x.segments_out
    BY <1>1, <2>2, PopCore DEF SameBackoff
  <2> HIDE DEF p
  <2>6. edge + probe \in Nat
    BY <2>3, <2>4
  <2>7. /\ Core(q) /\ q.wd_right_edge = edge + probe /\ q.isn = p.isn /\ q.stream = p.stream
        /\ q.next_seqno = p.next_seqno /\ q.cur_ack_index = p.cur_ack_index
        /\ q.RTO = p.RTO /\ q.retrans_num = p.retrans_num
        /\ q.segments_out = p.segments_out
    BY <2>5, <2>6, EdgeCore
  <2> HIDE DEF q
  <2>8. /\ Core(r) /\ SameControl(q, r) /\ SameInput(q, r) /\ Queued(q, r)
        /\ q.next_seqno <= r.next_seqno
        /\ r.next_seqno <= max(q.next_seqno, max(q.wd_right_edge, 1))
    BY <2>7, FillCore
  <2> HIDE DEF r
  <2>9. /\ Core(y) /\ y.wd_right_edge = edge /\ y.isn = r.isn /\ y.stream = r.stream
        /\ y.next_seqno = r.next_seqno /\ y.cur_ack_index = r.cur_ack_index
        /\ y.RTO = r.RTO /\ y.retrans_num = r.retrans_num
        /\ y.segments_out = r.segments_out /\ y.seg_buffer = r.seg_buffer
    BY <2>1, <2>3, <2>8, EdgeCore
  <2>10. /\ y.cur_ack_index = p.cur_ack_index /\ y.isn = x.isn
         /\ y.RTO = p.RTO /\ y.retrans_num = p.retrans_num
    BY <2>5, <2>7, <2>8, <2>9 DEF SameControl
  <2>11. SameInput(x, y)
    BY <2>5, <2>7, <2>8, <2>9 DEF SameInput
  <2>12. SameBackoff(x, y)
    BY <2>5, <2>10 DEF SameBackoff
  <2>13. y.next_seqno \in Nat /\ y.cur_ack_index \in Nat
    BY <2>9, SenderFields DEF Core
  <2>14. /\ x.next_seqno <= y.next_seqno
         /\ y.next_seqno <= max(x.next_seqno, max(edge + probe, 1))
    BY <2>5, <2>7, <2>8, <2>9
  <2>15. y.next_seqno <= edge + 1
    BY <1>1, <1>2, <2>3, <2>4, <2>13, <2>14 DEF max, Windowed
  <2>16. y.cur_ack_index <= ack /\ ack <= edge /\ x.cur_ack_index <= y.cur_ack_index
    BY <2>3, <2>5, <2>10
  <2>17. SenderSound(y)
    BY <1>1, <1>2, <2>3, <2>9, <2>13, <2>15, <2>16 DEF SenderSound, Windowed
  <2>18. Grown(x, y)
    BY <2>3, <2>9, <2>14, <2>16 DEF Grown
  <2>19. y.cur_ack_index <= max(x.cur_ack_index, ack)
    BY <1>2, <2>13, <2>16 DEF max
  <2>20. Queued(x, y)
    BY <2>5, <2>7, <2>8, <2>9 DEF Queued
  <2>21. QED
    BY <2>3, <2>9, <2>10, <2>11, <2>12, <2>17, <2>18, <2>19, <2>20 DEF y
<1>6. QED
  BY <1>4, <1>5

\* The queue of outgoing segments is not part of what SenderSound says.
LEMMA QueueSound ==
  ASSUME NEW x, SenderSound(x), NEW o \in Seq(SegmentType)
  PROVE  LET y == [x EXCEPT !.segments_out = o]
         IN  /\ SenderSound(y) /\ y.isn = x.isn /\ y.stream = x.stream
             /\ y.next_seqno = x.next_seqno /\ y.cur_ack_index = x.cur_ack_index
             /\ y.fin_ack_index = x.fin_ack_index /\ y.seg_buffer = x.seg_buffer
             /\ y.wd_right_edge = x.wd_right_edge /\ y.segments_out = o
             /\ y.RTO = x.RTO /\ y.retrans_num = x.retrans_num /\ y.timer = x.timer
<1> DEFINE y == [x EXCEPT !.segments_out = o]
<1>1. x \in SenderType
  BY DEF SenderSound, Core
<1>2. y \in SenderType
  BY <1>1 DEF SenderType
<1>3. /\ y.wd_right_edge = x.wd_right_edge /\ y.isn = x.isn /\ y.stream = x.stream
      /\ y.next_seqno = x.next_seqno /\ y.cur_ack_index = x.cur_ack_index
      /\ y.seg_buffer = x.seg_buffer /\ y.fin_ack_index = x.fin_ack_index
      /\ y.RTO = x.RTO /\ y.retrans_num = x.retrans_num /\ y.timer = x.timer
      /\ y.segments_out = o
  BY <1>1 DEF SenderType
<1> HIDE DEF y
<1>4. SenderSound(y)
  BY <1>2, <1>3 DEF SenderSound, Windowed, Core, Numbered, Timed
<1>5. QED
  BY <1>3, <1>4 DEF y

\* Bytes are written, or the end, before the FIN.
LEMMA InputSound ==
  ASSUME NEW x, SenderSound(x), ~x.stream.inputEnd,
         NEW st, Waiting(st), st.totoalRead = x.stream.totoalRead
  PROVE  LET y == [x EXCEPT !.stream = st]
         IN  /\ SenderSound(y) /\ SameControl(x, y) /\ y.next_seqno = x.next_seqno
             /\ y.stream = st /\ y.segments_out = x.segments_out /\ y.fin_ack_index = NoFin
<1> DEFINE y == [x EXCEPT !.stream = st]
<1>1. x \in SenderType /\ st \in StreamType
  BY DEF SenderSound, Core, Waiting
<1>2. y \in SenderType
  BY <1>1 DEF SenderType
<1>3. /\ y.wd_right_edge = x.wd_right_edge /\ y.isn = x.isn /\ y.stream = st
      /\ y.next_seqno = x.next_seqno /\ y.cur_ack_index = x.cur_ack_index
      /\ y.seg_buffer = x.seg_buffer /\ y.fin_ack_index = x.fin_ack_index
      /\ y.RTO = x.RTO /\ y.retrans_num = x.retrans_num /\ y.timer = x.timer
      /\ y.segments_out = x.segments_out
  BY <1>1 DEF SenderType
<1> HIDE DEF y
<1>4. x.fin_ack_index = NoFin
  BY DEF SenderSound, Core, Numbered, eof
<1>5. Numbered(y)
  <2>1. Numbered(x) /\ x.next_seqno \in Nat
    BY <1>1, SenderFields DEF SenderSound, Core
  <2>2. QED
    BY <2>1, <1>3, <1>4 DEF Numbered
<1>6. SenderSound(y)
  BY <1>2, <1>3, <1>5 DEF SenderSound, Windowed, Core, Timed
<1>7. SameControl(x, y)
  BY <1>3 DEF SameControl
<1>8. QED
  BY <1>3, <1>4, <1>6, <1>7 DEF y

\* fill_window between two calls, with no probe.
LEMMA FillSound ==
  ASSUME NEW x, SenderSound(x)
  PROVE  LET y == fill_window(x)
         IN  /\ SenderSound(y) /\ Grown(x, y) /\ SameInput(x, y) /\ SameControl(x, y)
             /\ Queued(x, y)
<1> DEFINE y == fill_window(x)
<1>1. Core(x) /\ Windowed(x) /\ x.wd_right_edge >= 1 /\ x \in SenderType
  BY DEF SenderSound, Core
<1>2. x.next_seqno \in Nat /\ x.cur_ack_index \in Nat /\ x.wd_right_edge \in Nat
  BY <1>1, SenderFields
<1>3. /\ Core(y) /\ SameControl(x, y) /\ SameInput(x, y) /\ Queued(x, y)
      /\ x.next_seqno <= y.next_seqno
      /\ y.next_seqno <= max(x.next_seqno, max(x.wd_right_edge, 1))
  BY <1>1, FillCore
<1> HIDE DEF y
<1>4. y.next_seqno \in Nat /\ y.cur_ack_index = x.cur_ack_index /\ y.wd_right_edge = x.wd_right_edge
  BY <1>3, SenderFields DEF Core, SameControl
<1>5. y.next_seqno <= x.wd_right_edge + 1
  BY <1>1, <1>2, <1>3, <1>4 DEF max, Windowed
<1>6. SenderSound(y)
  BY <1>1, <1>3, <1>4, <1>5 DEF SenderSound, Windowed
<1>7. Grown(x, y)
  BY <1>2, <1>3, <1>4 DEF Grown
<1>8. QED
  BY <1>3, <1>6, <1>7 DEF y

\* tick retransmits the oldest segment when its time has come.
LEMMA TickSound ==
  ASSUME NEW x, SenderSound(x), NEW ms \in Nat
  PROVE  LET y == sender_tick(x, ms)
         IN  /\ SenderSound(y) /\ y.stream = x.stream /\ y.isn = x.isn
             /\ y.next_seqno = x.next_seqno /\ y.cur_ack_index = x.cur_ack_index
             /\ y.wd_right_edge = x.wd_right_edge /\ y.fin_ack_index = x.fin_ack_index
             /\ Queued(x, y)
             /\ \/ y.RTO = x.RTO /\ y.retrans_num = x.retrans_num
                \/ y.RTO = 2 * x.RTO /\ y.retrans_num = x.retrans_num + 1
<1>1. x \in SenderType /\ Timed(x)
  BY DEF SenderSound, Core
<1>2. /\ x.seg_buffer \in FlightType /\ x.segments_out \in Seq(SegmentType)
      /\ x.retrans_num \in Nat /\ x.RTO \in Nat /\ x.timer \in Nat
  BY <1>1, SenderFields
<1>3. CASE x.seg_buffer = <<>>
  BY <1>3 DEF sender_tick, Queued, Supplied
<1>4. CASE x.seg_buffer # <<>> /\ ~timed_out(x, ms)
  <2> DEFINE t == x.timer + ms
             y == [x EXCEPT !.timer = t]
  <2>1. sender_tick(x, ms) = y
    BY <1>4 DEF sender_tick
  <2>2. t \in Nat /\ t < x.RTO
    BY <1>2, <1>4 DEF timed_out
  <2> HIDE DEF t
  <2>3. y \in SenderType
    BY <1>1, <2>2 DEF SenderType
  <2>4. /\ y.wd_right_edge = x.wd_right_edge /\ y.isn = x.isn /\ y.stream = x.stream
        /\ y.next_seqno = x.next_seqno /\ y.cur_ack_index = x.cur_ack_index
        /\ y.seg_buffer = x.seg_buffer /\ y.fin_ack_index = x.fin_ack_index
        /\ y.RTO = x.RTO /\ y.retrans_num = x.retrans_num /\ y.timer = t
        /\ y.segments_out = x.segments_out
    BY <1>1 DEF SenderType
  <2> HIDE DEF y
  <2>5. Timed(y)
    BY <1>4, <2>2, <2>4 DEF Timed
  <2>6. SenderSound(y)
    BY <2>3, <2>4, <2>5 DEF SenderSound, Windowed, Core, Numbered
  <2>7. Queued(x, y)
    BY <2>4 DEF Queued, Supplied
  <2>8. QED
    BY <2>1, <2>4, <2>6, <2>7
<1>5. CASE x.seg_buffer # <<>> /\ timed_out(x, ms)
  <2> DEFINE backoff == x.wd_right_edge # x.cur_ack_index
             o  == Append(x.segments_out, x.seg_buffer[1].seg)
             rn == IF backoff THEN x.retrans_num + 1 ELSE x.retrans_num
             rt == IF backoff THEN 2 * x.RTO ELSE x.RTO
             y  == [x EXCEPT !.segments_out = o, !.retrans_num = rn, !.RTO = rt, !.timer = 0]
  <2>1. sender_tick(x, ms) = y
    BY <1>5 DEF sender_tick
  <2>2. x.RTO > 0
    BY <1>1, <1>2 DEF Timed
  <2>3. /\ rn \in Nat /\ rt \in Nat /\ rt > 0
        /\ (rt = x.RTO /\ rn = x.retrans_num) \/ (rt = 2 * x.RTO /\ rn = x.retrans_num + 1)
    BY <1>2, <2>2
  <2>4. x.seg_buffer[1].seg \in SegmentType /\ 1 \in DOMAIN x.seg_buffer
    <3>1. Len(x.seg_buffer) \in Nat /\ Len(x.seg_buffer) # 0
      BY <1>2, <1>5 DEF FlightType
    <3>2. 1 \in 1 .. Len(x.seg_buffer)
      BY <3>1
    <3>3. QED
      BY <3>2, <1>2, FlightItems
  <2>5. o \in Seq(SegmentType)
    BY <1>2, <2>4
  <2>q. Supplied(x.segments_out, o, x.seg_buffer)
    BY <1>2, <2>4, SuppliedAppend
  <2> HIDE DEF backoff, o, rn, rt
  <2>6. y \in SenderType
    BY <1>1, <2>3, <2>5 DEF SenderType
  <2>7. /\ y.wd_right_edge = x.wd_right_edge /\ y.isn = x.isn /\ y.stream = x.stream
        /\ y.next_seqno = x.next_seqno /\ y.cur_ack_index = x.cur_ack_index
        /\ y.seg_buffer = x.seg_buffer /\ y.fin_ack_index = x.fin_ack_index
        /\ y.RTO = rt /\ y.retrans_num = rn /\ y.timer = 0 /\ y.segments_out = o
    BY <1>1 DEF SenderType
  <2> HIDE DEF y
  <2>8. Timed(y)
    BY <1>5, <2>3, <2>7 DEF Timed
  <2>9. SenderSound(y)
    BY <2>6, <2>7, <2>8 DEF SenderSound, Windowed, Core, Numbered
  <2>10. Queued(x, y)
    BY <2>q, <2>7 DEF Queued
  <2>11. QED
    BY <2>1, <2>3, <2>7, <2>9, <2>10
<1>6. QED
  BY <1>3, <1>4, <1>5

\* send_empty_ack queues a segment that is not kept.
LEMMA EmptyAckSound ==
  ASSUME NEW x, SenderSound(x)
  PROVE  LET y == send_empty_ack(x)
         IN  /\ SenderSound(y) /\ Grown(x, y) /\ y.stream = x.stream /\ SameControl(x, y)
             /\ \/ Queued(x, y)
                \/ /\ x.next_seqno > 0 /\ y.next_seqno = x.next_seqno
                   /\ y.segments_out = Append(x.segments_out, get_init_seg(x))
                   /\ get_init_seg(x) \in SegmentType
<1> DEFINE y == send_empty_ack(x)
<1>1. Core(x) /\ Windowed(x) /\ x.wd_right_edge >= 1 /\ x \in SenderType
  BY DEF SenderSound, Core
<1>2. /\ x.next_seqno \in Nat /\ x.cur_ack_index \in Nat /\ x.wd_right_edge \in Nat
      /\ x.isn \in WrappingInt32 /\ x.segments_out \in Seq(SegmentType)
  BY <1>1, SenderFields
<1>3. CASE x.next_seqno = 0
  <2>1. /\ Core(y) /\ y.next_seqno = 1 /\ y.stream = x.stream /\ SameControl(x, y)
        /\ Queued(x, y)
    BY <1>1, <1>3, SynCore DEF send_empty_ack
  <2> HIDE DEF y
  <2>2. y.cur_ack_index = x.cur_ack_index /\ y.wd_right_edge = x.wd_right_edge
    BY <2>1 DEF SameControl
  <2>3. SenderSound(y)
    BY <1>1, <1>2, <2>1, <2>2 DEF SenderSound, Windowed
  <2>4. Grown(x, y)
    BY <1>2, <1>3, <2>1, <2>2 DEF Grown
  <2>5. QED
    BY <2>1, <2>3, <2>4 DEF y
<1>4. CASE x.next_seqno # 0
  <2> DEFINE o == Append(x.segments_out, get_init_seg(x))
             z == [x EXCEPT !.segments_out = o]
  <2>1. y = z
    BY <1>4 DEF send_empty_ack
  <2>2. get_init_seg(x) \in SegmentType
    <3> DEFINE w == wrap(x.next_seqno, x.isn)
    <3>1. w \in WrappingInt32
      BY <1>2, WrapType
    <3>2. get_init_seg(x) = [EmptySegment EXCEPT !.seqno = w]
      BY DEF get_init_seg
    <3> HIDE DEF w
    <3>3. [EmptySegment EXCEPT !.seqno = w] \in SegmentType
      BY <3>1, FreshSegment
    <3>4. QED
      BY <3>2, <3>3
  <2>3. o \in Seq(SegmentType)
    BY <1>2, <2>2
  <2> HIDE DEF o
  <2>4. /\ SenderSound(z) /\ z.isn = x.isn /\ z.stream = x.stream
        /\ z.next_seqno = x.next_seqno /\ z.cur_ack_index = x.cur_ack_index
        /\ z.wd_right_edge = x.wd_right_edge /\ z.segments_out = o
        /\ z.RTO = x.RTO /\ z.retrans_num = x.retrans_num /\ z.timer = x.timer
    BY <2>3, QueueSound
  <2> HIDE DEF z, y
  <2>5. Grown(x, z) /\ SameControl(x, z)
    BY <1>2, <2>4 DEF Grown, SameControl
  <2>6. x.next_seqno > 0
    BY <1>2, <1>4
  <2>7. QED
    BY <2>1, <2>2, <2>4, <2>5, <2>6 DEF y, o
<1>5. QED
  BY <1>3, <1>4

\* A new sender.
LEMMA NewSound ==
  ASSUME NEW capacity \in Nat, NEW isn \in WrappingInt32
  PROVE  LET x == NewSender(capacity, isn)
         IN  /\ SenderSound(x) /\ x.isn = isn /\ x.segments_out = <<>>
             /\ x.stream = NewByteStream(capacity) /\ x.next_seqno = 0 /\ x.cur_ack_index = 0
             /\ x.fin_ack_index = NoFin /\ x.wd_right_edge = 1
             /\ x.retrans_num = 0 /\ x.RTO = rt_timeout
<1> DEFINE nil == <<>>
           st  == NewByteStream(capacity)
           x   == NewSender(capacity, isn)
<1>1. rt_timeout \in Nat /\ rt_timeout > 0
  BY TimeoutAssumption
<1>2. /\ nil \in Seq(Nat) /\ nil \in Seq(SegmentType) /\ nil \in FlightType
      /\ Len(nil) = 0 /\ DOMAIN nil = {}
  BY DEF FlightType
<1>3. /\ st \in StreamType /\ st.buffer = nil /\ st.capcity = capacity
      /\ st.totoalWrite = 0 /\ st.totoalRead = 0 /\ st.error = FALSE
  BY DEF NewByteStream, StreamType
<1>4. Waiting(st)
  BY <1>2, <1>3 DEF Waiting
<1> HIDE DEF st
<1>5. x = [isn |-> isn, segments_out |-> nil, stream |-> st, next_seqno |-> 0,
           cur_ack_index |-> 0, fin_ack_index |-> NoFin, seg_buffer |-> nil,
           wd_right_edge |-> 1, retrans_num |-> 0, RTO |-> rt_timeout, timer |-> 0]
  BY DEF NewSender, st
<1> HIDE DEF nil, x
<1>6. x \in SenderType
  BY <1>1, <1>2, <1>3, <1>5 DEF SenderType
<1>7. /\ x.isn = isn /\ x.stream = st /\ x.next_seqno = 0 /\ x.cur_ack_index = 0
      /\ x.fin_ack_index = NoFin /\ x.seg_buffer = nil /\ x.wd_right_edge = 1
      /\ x.retrans_num = 0 /\ x.RTO = rt_timeout /\ x.timer = 0 /\ x.segments_out = nil
  BY <1>5
<1>8. Tiled(0, nil, isn, NoFin) /\ Start(0, nil, Len(nil) + 1) = 0
  <2>1. Tiled(0, nil, isn, NoFin)
    BY <1>2 DEF Tiled
  <2>2. Start(0, nil, Len(nil) + 1) = 0
    BY <1>2 DEF Start
  <2>3. QED
    BY <2>1, <2>2
<1>9. Numbered(x)
  BY <1>3, <1>7 DEF Numbered
<1>10. Timed(x)
  BY <1>1, <1>7 DEF Timed
<1>11. SenderSound(x)
  BY <1>4, <1>6, <1>7, <1>8, <1>9, <1>10 DEF SenderSound, Core, Windowed
<1>12. QED
  BY <1>7, <1>11 DEF x, nil, st
=============================================================================
