--------------------------- MODULE TCPEndpointProofs ---------------------------
(***************************************************************************)
(* What one call of a TCPConnection does to the endpoint it is made on.    *)
(*                                                                         *)
(* A direction of the connection is the sender x at one end and the        *)
(* receiver y at the other.  Link says what the two know of each other;    *)
(* what is in transit between them was true when it was sent and stays     *)
(* true: Carries and Tells.  Good says it of an endpoint and its peer, in  *)
(* the middle of a call, and the lemmas named after it that each part of a *)
(* call preserves it.                                                      *)
(***************************************************************************)
EXTENDS TCPSenderProofs, TCPSystem, TLAPS

ReceiverFields == {"reassembler", "recieve_isn", "isn"}

ConnectionFields == {"sender", "receiver", "idle", "close", "linger", "segments_out"}

MessageType ==
  [seqno : WrappingInt32, ack : BOOLEAN, ackno : WrappingInt32, win : Nat, syn : BOOLEAN,
   fin : BOOLEAN, rst : BOOLEAN, payload : Seq(Nat)]

\* The FIN has been assembled.
EndBit(y) == IF stream_out(y).inputEnd THEN 1 ELSE 0

\* The sequence number that follows what receiver y has assembled.
Assembled(y) == IF ~y.recieve_isn THEN 0 ELSE 1 + stream_out(y).totoalWrite + EndBit(y)

\* The sequence number that follows the window of receiver y, of capacity cap.
Edge(y, cap) == 1 + stream_out(y).totoalRead + cap + EndBit(y)

\* Segment seg is one that sender x has sent.
Carries(seg, x) ==
  \E from \in 0 .. x.next_seqno :
     /\ seg.seqno = wrap(from, x.isn)
     /\ from + length_in_sequence_space(seg) <= x.next_seqno
     /\ seg.syn <=> from = 0
     /\ seg.syn => Len(seg.payload) = 0
     /\ length_in_sequence_space(seg) > 0 =>
           (seg.fin <=> from + length_in_sequence_space(seg) = x.fin_ack_index)
     /\ \A i \in DOMAIN seg.payload : seg.payload[i] = from + i - 1

Carried(x) == \A k \in DOMAIN x.segments_out : Carries(x.segments_out[k], x)

\* The acknowledgment and the window of seg are ones that receiver y, of
\* capacity cap, could give to the sender that started at isn.
Tells(seg, y, isn, cap) ==
  seg.ack => \E a \in 0 .. Assembled(y) : /\ seg.ackno = wrap(a, isn)
                                          /\ a + seg.win <= Edge(y, cap)

Message(seg, x, y, isn, cap) ==
  /\ seg \in MessageType
  /\ ~seg.rst => Carries(seg, x)
  /\ Tells(seg, y, isn, cap)

\* Receiver y holds part of what sender x has sent, and x knows no more of y
\* than is true; dl is what y's application has read.
Link(x, y, cap, dl) ==
  /\ DOMAIN y = ReceiverFields /\ y.recieve_isn \in BOOLEAN
  /\ y.recieve_isn => x.next_seqno > 0 /\ y.isn = wrap(1, x.isn)
  /\ ReassemblerCore(Numbers(x.stream.totoalRead), cap, stream_out(y).error, y.reassembler, dl)
  /\ EndSeen(Numbers(x.stream.totoalRead), y.reassembler)
  /\ y.reassembler.input_end_idx # UINT32_MAX => x.fin_ack_index # NoFin
  /\ x.cur_ack_index <= Assembled(y)
  /\ x.wd_right_edge > 1 => x.wd_right_edge <= Edge(y, cap)

\* What check_close asked for when it closed the connection.
Closed(c) ==
  c.close /\ ~c.sender.stream.error =>
     /\ inbound_stream(c).inputEnd /\ eof(c.sender.stream)
     /\ c.sender.next_seqno = c.sender.cur_ack_index

\* x is a sender of endpoint e.
SenderOf(e, x) ==
  SenderSound(x) /\ x.isn = Isn[e] /\ x.stream.totoalWrite <= MaxBytes[e] /\ Carried(x)

\* c is a connection of endpoint e, from which the messages of N come.
Own(e, c, N) ==
  /\ DOMAIN c = ConnectionFields
  /\ SenderOf(e, c.sender)
  /\ c.segments_out \in Seq(MessageType)
  /\ \A k \in DOMAIN c.segments_out :
        Message(c.segments_out[k], c.sender, c.receiver, Isn[peer(e)], RecvCapacity[e])
  /\ \A m \in N : Message(m, c.sender, c.receiver, Isn[peer(e)], RecvCapacity[e])

-----------------------------------------------------------------------------

\* Facts that no proof below cites.
HIDE DEF PayloadAssumption, TimeoutAssumption, MultipleGap, SameWrap, CandidateNear,
  UnwrapChoice, SliceConcat, CutSlice, PieceLength, NodeIsPiece, TrimLeftPiece,
  TrimRightPiece, MergePieces, AbsorbPieces, WriteSlice, InsertKeepsCore, InsertNothing,
  NewKeepsCore, NumbersSlice, NatInduction, DownwardNatInduction, GeneralNatInduction,
  SmallestNatural, RecursiveFcnOfNat, NatInductiveDef, RecursiveFcnOfNatType,
  NatInductiveDefType, RecursiveFcnOfNatUnique, NatInductiveUnique, FiniteNatInductiveDef,
  FiniteNatInductiveDefType, FiniteNatInductiveUnique, EmptyIsWellFounded,
  IsWellFoundedOnSubset, IsWellFoundedOnSubrelation, WFMin, MinWF,
  WellFoundedIsIrreflexive, WellFoundedIsAsymmetric, WFSetLessThanIrreflexive,
  SetLessTransitive, WFInduction, WFDefOnUnique, WFInductiveDefLemma,
  TransitiveClosureThm, TransitiveClosureMinimal, TCTCTC, TCRTC, RTCTC,
  TransitiveClosureChopLast, TransitiveClosureWF, WFInductiveDef, WFInductiveDefType,
  NatLessThanWellFounded, PreImageWellFounded, WFLexPairOrdering, WFLexProductOrdering,
  LeastElement, AckedCount, Division, SendDataParts, SentMonotone, CutOne, CutTiled,
  TiledConcat, TiledDrop, TiledFin, FreshSegment, SynTiled, WriteWaiting, ReadWaiting,
  SuppliedAppend, SuppliedConcat, SynCore, FillFromStreamCore, FillCore, PopCore,
  EdgeCore, NewSound

(* The constants. *)

\* What the assumptions say of one endpoint.
LEMMA EndpointFacts ==
  ASSUME NEW e \in Endpoint
  PROVE  /\ peer(e) \in Endpoint /\ peer(peer(e)) = e /\ peer(e) # e
         /\ \A d \in Endpoint : d = e \/ d = peer(e)
         /\ RecvCapacity[e] \in Nat \ {0} /\ Isn[e] \in WrappingInt32
         /\ MaxBytes[e] \in Nat /\ MaxInt \in Nat /\ UINT32_MAX \in Nat
         /\ 2 * (MaxBytes[e] + 3) < MaxInt /\ MaxBytes[e] + 3 < UINT32_MAX
<1>1. /\ peer(e) \in Endpoint /\ peer(peer(e)) = e /\ peer(e) # e
      /\ \A d \in Endpoint : d = e \/ d = peer(e)
  BY SystemAssumption DEF Endpoint, peer
<1>2. /\ RecvCapacity[e] \in Nat \ {0} /\ Isn[e] \in WrappingInt32 /\ MaxBytes[e] \in Nat
      /\ MaxInt > 2 * (MaxBytes[e] + 3)
  BY Zenon, SystemAssumption
<1>3. MaxInt \in Nat /\ MaxInt - 1 \in Nat
  BY MaxIntAssumption
<1>4. 2 * (MaxBytes[e] + 3) < MaxInt /\ MaxBytes[e] + 3 < MaxInt - 1
  BY <1>2, <1>3
<1>5. QED
  BY Zenon, <1>1, <1>2, <1>3, <1>4 DEF UINT32_MAX

-----------------------------------------------------------------------------

\* Facts that no proof below cites.
HIDE DEF SystemAssumption

(* What a sender has sent. *)

\* The numbers of a sender.
LEMMA SenderNumbers ==
  ASSUME NEW x, SenderSound(x)
  PROVE  /\ x.isn \in WrappingInt32 /\ x.segments_out \in Seq(SegmentType)
         /\ x.seg_buffer \in FlightType
         /\ x.next_seqno \in Nat /\ x.cur_ack_index \in Nat /\ x.wd_right_edge \in Nat
         /\ x.fin_ack_index \in Nat \cup {NoFin}
         /\ x.stream.totoalRead \in Nat /\ x.stream.totoalWrite \in Nat
         /\ x.stream.totoalRead <= x.stream.totoalWrite
         /\ x.stream.inputEnd \in BOOLEAN /\ x.stream.error \in BOOLEAN
         /\ x.cur_ack_index <= x.next_seqno
         /\ x.next_seqno = 0 => x.stream.totoalRead = 0 /\ x.fin_ack_index = NoFin
         /\ x.next_seqno > 0 /\ x.fin_ack_index = NoFin =>
               x.next_seqno = x.stream.totoalRead + 1
         /\ x.fin_ack_index # NoFin =>
               /\ x.stream.inputEnd /\ x.stream.totoalRead = x.stream.totoalWrite
               /\ x.next_seqno = x.fin_ack_index /\ x.next_seqno = x.stream.totoalWrite + 2
         /\ eof(x.stream) <=> x.stream.inputEnd /\ x.stream.totoalRead = x.stream.totoalWrite
<1>1. Core(x)
  BY Zenon DEF SenderSound
<1>2. x \in SenderType /\ Waiting(x.stream) /\ Numbered(x)
  BY Zenon, <1>1 DEF Core
<1>3. /\ x.isn \in WrappingInt32 /\ x.segments_out \in Seq(SegmentType)
      /\ x.seg_buffer \in FlightType
      /\ x.next_seqno \in Nat /\ x.cur_ack_index \in Nat /\ x.wd_right_edge \in Nat
      /\ x.fin_ack_index \in Nat \cup {NoFin}
  BY Zenon, <1>2, SenderFields
<1>4. /\ x.stream.totoalRead \in Nat /\ x.stream.totoalWrite \in Nat
      /\ x.stream.inputEnd \in BOOLEAN /\ x.stream.error \in BOOLEAN
      /\ Len(x.stream.buffer) \in Nat
      /\ x.stream.totoalRead + Len(x.stream.buffer) = x.stream.totoalWrite
  BY <1>2 DEF Waiting, StreamType
<1>5. x.cur_ack_index <= x.next_seqno
  <2>1. Tiled(x.cur_ack_index, x.seg_buffer, x.isn, x.fin_ack_index)
    BY Zenon, <1>1 DEF Core
  <2>2. x.next_seqno = Start(x.cur_ack_index, x.seg_buffer, Len(x.seg_buffer) + 1)
    BY Zenon, <1>1 DEF Core
  <2>3. QED
    BY Zenon, <2>1, <2>2, <1>3, FlightEnd
<1>6. /\ x.stream.totoalRead <= x.stream.totoalWrite
      /\ eof(x.stream) <=> x.stream.inputEnd /\ x.stream.totoalRead = x.stream.totoalWrite
  BY <1>4 DEF eof, buffer_size
<1>7. /\ x.next_seqno = 0 => x.stream.totoalRead = 0 /\ x.fin_ack_index = NoFin
      /\ x.next_seqno > 0 /\ x.fin_ack_index = NoFin => x.next_seqno = x.stream.totoalRead + 1
      /\ x.fin_ack_index # NoFin => /\ eof(x.stream) /\ x.next_seqno = x.fin_ack_index
                                    /\ x.fin_ack_index = x.stream.totoalWrite + 2
  BY Zenon, <1>2 DEF Numbered
<1>8. QED
  BY Zenon, <1>3, <1>4, <1>5, <1>6, <1>7

\* Whatever x has sent y has sent, and the FIN at most once.
Ahead(x, y) ==
  /\ y.isn = x.isn /\ x.next_seqno <= y.next_seqno
  /\ x.stream.totoalRead <= y.stream.totoalRead
  /\ x.fin_ack_index # NoFin => /\ y.fin_ack_index = x.fin_ack_index
                                /\ y.stream.totoalRead = x.stream.totoalRead
  /\ x.fin_ack_index = NoFin /\ y.fin_ack_index # NoFin => x.next_seqno < y.fin_ack_index

\* A method that leaves the application's side alone goes ahead.
LEMMA GrownAhead ==
  ASSUME NEW x, SenderSound(x), NEW y, SenderSound(y), y.isn = x.isn,
         x.next_seqno <= y.next_seqno,
         y.stream.totoalWrite = x.stream.totoalWrite
  PROVE  Ahead(x, y)
<1>1. /\ x.next_seqno \in Nat /\ x.fin_ack_index \in Nat \cup {NoFin}
      /\ x.stream.totoalRead \in Nat /\ x.stream.totoalWrite \in Nat
      /\ x.stream.totoalRead <= x.stream.totoalWrite
      /\ x.next_seqno = 0 => x.stream.totoalRead = 0 /\ x.fin_ack_index = NoFin
      /\ x.next_seqno > 0 /\ x.fin_ack_index = NoFin => x.next_seqno = x.stream.totoalRead + 1
      /\ x.fin_ack_index # NoFin =>
            /\ x.stream.totoalRead = x.stream.totoalWrite
            /\ x.next_seqno = x.fin_ack_index /\ x.next_seqno = x.stream.totoalWrite + 2
  BY Zenon, SenderNumbers
<1>2. /\ y.next_seqno \in Nat /\ y.fin_ack_index \in Nat \cup {NoFin}
      /\ y.stream.totoalRead \in Nat /\ y.stream.totoalWrite \in Nat
      /\ y.stream.totoalRead <= y.stream.totoalWrite
      /\ y.next_seqno = 0 => y.stream.totoalRead = 0 /\ y.fin_ack_index = NoFin
      /\ y.next_seqno > 0 /\ y.fin_ack_index = NoFin => y.next_seqno = y.stream.totoalRead + 1
      /\ y.fin_ack_index # NoFin =>
            /\ y.stream.totoalRead = y.stream.totoalWrite
            /\ y.next_seqno = y.fin_ack_index /\ y.next_seqno = y.stream.totoalWrite + 2
  BY Zenon, SenderNumbers
<1>3. QED
  BY <1>1, <1>2 DEF Ahead, NoFin

\* The length of a segment.
LEMMA SegmentLength ==
  ASSUME NEW seg, Len(seg.payload) \in Nat, seg.syn \in BOOLEAN, seg.fin \in BOOLEAN
  PROVE  LET len == length_in_sequence_space(seg)
         IN  /\ len \in Nat
             /\ len = 0 <=> Len(seg.payload) = 0 /\ ~seg.syn /\ ~seg.fin
             /\ ~seg.syn /\ ~seg.fin => len = Len(seg.payload)
             /\ ~seg.syn /\ seg.fin => len = Len(seg.payload) + 1
             /\ seg.syn /\ ~seg.fin => len = Len(seg.payload) + 1
             /\ seg.syn /\ seg.fin => len = Len(seg.payload) + 2
<1> DEFINE n == Len(seg.payload)
           s == IF seg.syn THEN 1 ELSE 0
           f == IF seg.fin THEN 1 ELSE 0
<1>1. length_in_sequence_space(seg) = n + s + f
  BY Zenon DEF length_in_sequence_space
<1>2. /\ s \in {0, 1} /\ (s = 1 <=> seg.syn)
      /\ f \in {0, 1} /\ (f = 1 <=> seg.fin)
  OBVIOUS
<1>3. n \in Nat
  BY Zenon
<1> HIDE DEF n, s, f
<1>4. QED
  BY <1>1, <1>2, <1>3 DEF n

\* The fields of a segment of the sender.
LEMMA SegmentFields ==
  ASSUME NEW seg \in SegmentType
  PROVE  Len(seg.payload) \in Nat /\ seg.syn \in BOOLEAN /\ seg.fin \in BOOLEAN
<1>1. seg.payload \in Seq(Nat)
  BY Zenon DEF SegmentType
<1>2. seg.syn \in BOOLEAN /\ seg.fin \in BOOLEAN
  BY Zenon DEF SegmentType
<1>3. QED
  BY <1>1, <1>2

\* Sent segments: those in flight.
LEMMA FlightCarries ==
  ASSUME NEW x, SenderSound(x), NEW k \in DOMAIN x.seg_buffer
  PROVE  Carries(x.seg_buffer[k].seg, x)
<1> DEFINE a == x.cur_ack_index
           b == x.seg_buffer
           from == Start(a, b, k)
           to == b[k].ack_index
           seg == b[k].seg
           len == length_in_sequence_space(seg)
<1>1. /\ Tiled(a, b, x.isn, x.fin_ack_index) /\ x.next_seqno = Start(a, b, Len(b) + 1)
  BY Zenon DEF SenderSound, Core
<1>2. a \in Nat /\ b \in FlightType /\ x.next_seqno \in Nat
  BY Zenon, SenderNumbers
<1>3. /\ Len(b) \in Nat /\ k \in 1 .. Len(b)
      /\ \A j \in 1 .. Len(b) : b[j].ack_index \in Nat /\ b[j].seg \in SegmentType
  BY Zenon, <1>2, FlightItems
<1>4. to \in Nat /\ to <= x.next_seqno
  BY Zenon, <1>1, <1>2, <1>3, FlightEnd
<1>5. Covers(seg, from, to, x.isn, x.fin_ack_index)
  BY Zenon, <1>1 DEF Tiled
<1>6. from \in Nat
  <2>1. CASE k = 1
    BY Zenon, <2>1, <1>2 DEF Start
  <2>2. CASE k # 1
    <3>1. k - 1 \in 1 .. Len(b)
      BY <2>2, <1>3
    <3>2. QED
      BY Zenon, <3>1, <2>2, <1>3 DEF Start
  <2>3. QED
    BY Zenon, <2>1, <2>2
<1>7. len \in Nat
  <2>1. Len(seg.payload) \in Nat /\ seg.syn \in BOOLEAN /\ seg.fin \in BOOLEAN
    BY Zenon, <1>3, SegmentFields
  <2> HIDE DEF seg
  <2>2. QED
    BY Zenon, <2>1, SegmentLength
<1> HIDE DEF a, b, from, to, seg
<1>8. /\ to = from + len /\ seg.seqno = wrap(from, x.isn)
      /\ seg.syn <=> from = 0
      /\ seg.syn => Len(seg.payload) = 0
      /\ seg.fin <=> to = x.fin_ack_index
      /\ \A i \in DOMAIN seg.payload : seg.payload[i] = from + i - 1
  BY Zenon, <1>5 DEF Covers
<1> HIDE DEF len
<1>9. from \in 0 .. x.next_seqno /\ from + len <= x.next_seqno
  BY <1>2, <1>4, <1>6, <1>7, <1>8
<1>10. Carries(seg, x)
  BY Zenon, <1>8, <1>9 DEF Carries, len
<1>11. QED
  BY Zenon, <1>10 DEF seg, b

\* What x has sent, a sender that is ahead of x has sent.
LEMMA CarriesKept ==
  ASSUME NEW x, SenderSound(x), NEW y, SenderSound(y), Ahead(x, y),
         NEW seg, Carries(seg, x),
         Len(seg.payload) \in Nat, seg.syn \in BOOLEAN, seg.fin \in BOOLEAN
  PROVE  Carries(seg, y)
<1> DEFINE len == length_in_sequence_space(seg)
<1>1. PICK from \in 0 .. x.next_seqno :
         /\ seg.seqno = wrap(from, x.isn)
         /\ from + len <= x.next_seqno
         /\ seg.syn <=> from = 0
         /\ seg.syn => Len(seg.payload) = 0
         /\ len > 0 => (seg.fin <=> from + len = x.fin_ack_index)
         /\ \A i \in DOMAIN seg.payload : seg.payload[i] = from + i - 1
  BY Zenon DEF Carries
<1>2. len \in Nat
  BY Zenon, SegmentLength
<1>3. /\ x.next_seqno \in Nat /\ x.fin_ack_index \in Nat \cup {NoFin}
      /\ x.fin_ack_index # NoFin => x.next_seqno = x.fin_ack_index
  BY Zenon, SenderNumbers
<1>4. y.next_seqno \in Nat /\ y.fin_ack_index \in Nat \cup {NoFin}
  BY Zenon, SenderNumbers
<1> HIDE DEF len
<1>5. /\ y.isn = x.isn /\ x.next_seqno <= y.next_seqno
      /\ x.fin_ack_index # NoFin => y.fin_ack_index = x.fin_ack_index
      /\ x.fin_ack_index = NoFin /\ y.fin_ack_index # NoFin => x.next_seqno < y.fin_ack_index
  BY Zenon DEF Ahead
<1>6. from \in 0 .. y.next_seqno /\ from + len <= y.next_seqno
  BY <1>1, <1>2, <1>3, <1>4, <1>5
<1>7. len > 0 => (seg.fin <=> from + len = y.fin_ack_index)
  <2>1. from + len = x.fin_ack_index <=> from + len = y.fin_ack_index
    BY <1>1, <1>2, <1>3, <1>4, <1>5 DEF NoFin
  <2>2. QED
    BY Zenon, <2>1, <1>1
<1>8. QED
  BY Zenon, <1>1, <1>5, <1>6, <1>7 DEF Carries, len

\* The queue of a sender that has moved ahead by one of its methods.
LEMMA CarriedKept ==
  ASSUME NEW x, SenderSound(x), Carried(x), NEW y, SenderSound(y), Ahead(x, y), Queued(x, y)
  PROVE  Carried(y)
<1>1. SUFFICES ASSUME NEW k \in DOMAIN y.segments_out
               PROVE  Carries(y.segments_out[k], y)
  BY Zenon DEF Carried
<1>2. CASE \E j \in DOMAIN x.segments_out : y.segments_out[k] = x.segments_out[j]
  <2>1. PICK j \in DOMAIN x.segments_out : y.segments_out[k] = x.segments_out[j]
    BY Zenon, <1>2
  <2> DEFINE seg == x.segments_out[j]
  <2>2. Carries(seg, x)
    BY Zenon DEF Carried
  <2>3. seg \in SegmentType
    BY SenderNumbers
  <2>4. Len(seg.payload) \in Nat /\ seg.syn \in BOOLEAN /\ seg.fin \in BOOLEAN
    BY Zenon, <2>3, SegmentFields
  <2> HIDE DEF seg
  <2>5. Carries(seg, y)
    BY Zenon, <2>2, <2>4, CarriesKept
  <2>6. QED
    BY Zenon, <2>1, <2>5 DEF seg
<1>3. CASE \E j \in DOMAIN y.seg_buffer : y.segments_out[k] = y.seg_buffer[j].seg
  BY Zenon, <1>3, FlightCarries
<1>4. QED
  BY Zenon, <1>1, <1>2, <1>3 DEF Queued, Supplied

\* An empty segment carries nothing, and is numbered as what comes next.
LEMMA EmptyCarries ==
  ASSUME NEW x, SenderSound(x), x.next_seqno > 0
  PROVE  Carries(get_init_seg(x), x)
<1> DEFINE seg == get_init_seg(x)
<1>1. x.next_seqno \in Nat
  BY Zenon, SenderNumbers
<1>2. /\ seg.seqno = wrap(x.next_seqno, x.isn) /\ seg.syn = FALSE /\ seg.fin = FALSE
      /\ seg.payload = <<>>
  BY Zenon DEF get_init_seg, EmptySegment
<1> HIDE DEF seg
<1>3. Len(seg.payload) = 0 /\ DOMAIN seg.payload = {}
  BY <1>2
<1>4. length_in_sequence_space(seg) = 0
  BY Zenon, <1>2, <1>3, SegmentLength
<1>5. Carries(seg, x)
  BY <1>1, <1>2, <1>3, <1>4 DEF Carries
<1>6. QED
  BY Zenon, <1>5 DEF seg

\* send_empty_ack queues what has been sent, the SYN, or an empty segment.
LEMMA EmptyAckCarried ==
  ASSUME NEW x, SenderSound(x), Carried(x)
  PROVE  LET y == send_empty_ack(x)
         IN  SenderSound(y) /\ Ahead(x, y) /\ Carried(y) /\ y.stream = x.stream
             /\ SameControl(x, y)
<1> DEFINE y == send_empty_ack(x)
<1>1. /\ SenderSound(y) /\ Grown(x, y) /\ y.stream = x.stream /\ SameControl(x, y)
      /\ \/ Queued(x, y)
         \/ /\ x.next_seqno > 0 /\ y.next_seqno = x.next_seqno
            /\ y.segments_out = Append(x.segments_out, get_init_seg(x))
            /\ get_init_seg(x) \in SegmentType
  BY Zenon, EmptyAckSound
<1> HIDE DEF y
<1>2. Ahead(x, y)
  BY Zenon, <1>1, GrownAhead DEF Grown, SameControl
<1>3. CASE Queued(x, y)
  BY Zenon, <1>1, <1>2, <1>3, CarriedKept DEF y
<1>4. CASE ~Queued(x, y)
  <2> DEFINE seg == get_init_seg(x)
             o == x.segments_out
  <2>1. /\ x.next_seqno > 0 /\ y.segments_out = Append(o, seg) /\ seg \in SegmentType
    BY Zenon, <1>1, <1>4
  <2>2. Carries(seg, x)
    BY Zenon, <2>1, EmptyCarries
  <2>3. o \in Seq(SegmentType)
    BY Zenon, SenderNumbers
  <2> HIDE DEF seg, o
  <2>4. ASSUME NEW k \in DOMAIN y.segments_out PROVE Carries(y.segments_out[k], y)
    <3>1. (k \in DOMAIN o /\ y.segments_out[k] = o[k]) \/ y.segments_out[k] = seg
      BY <2>1, <2>3, <2>4
    <3>2. Carries(y.segments_out[k], x)
      BY Zenon, <3>1, <2>2 DEF Carried, o
    <3>3. y.segments_out[k] \in SegmentType
      BY <3>1, <2>1, <2>3
    <3> DEFINE s == y.segments_out[k]
    <3>4. Len(s.payload) \in Nat /\ s.syn \in BOOLEAN /\ s.fin \in BOOLEAN
      BY Zenon, <3>3, SegmentFields
    <3> HIDE DEF s
    <3>5. Carries(s, y)
      BY Zenon, <3>2, <3>4, <1>1, <1>2, CarriesKept DEF s
    <3>6. QED
      BY Zenon, <3>5 DEF s
  <2>5. QED
    BY Zenon, <2>4, <1>1, <1>2 DEF Carried, y
<1>5. QED
  BY Zenon, <1>3, <1>4 DEF y

-----------------------------------------------------------------------------

\* Facts that no proof below cites.
HIDE DEF FlightItems, FlightEnd, SenderFields, EmptyAckSound, SegmentFields,
  FlightCarries, EmptyCarries

(* One direction: sender x, receiver y. *)

\* y has lost nothing that x had.
Later(x, y) ==
  /\ x.recieve_isn => y.recieve_isn
  /\ stream_out(x).totoalRead <= stream_out(y).totoalRead
  /\ stream_out(x).totoalWrite <= stream_out(y).totoalWrite
  /\ stream_out(x).inputEnd => stream_out(y).inputEnd

\* The numbers of a receiver.
LEMMA LinkNumbers ==
  ASSUME NEW x, SenderSound(x), x.stream.totoalWrite < UINT32_MAX,
         NEW cap \in Nat, NEW y, NEW dl, Link(x, y, cap, dl)
  PROVE  LET out == stream_out(y)
             q   == y.reassembler
             n   == x.stream.totoalRead
         IN  /\ q.cur_idx \in Nat /\ q.cur_idx <= n /\ out.totoalWrite = q.cur_idx
             /\ out.totoalRead \in Nat /\ out.totoalRead <= q.cur_idx
             /\ q.cur_idx <= out.totoalRead + cap /\ out.inputEnd \in BOOLEAN
             /\ remaining_capacity(out) = cap - (q.cur_idx - out.totoalRead)
             /\ eof(out) <=> out.inputEnd /\ out.totoalRead = q.cur_idx
             /\ dl = Slice(Numbers(n), 0, out.totoalRead)
             /\ q.input_end_idx \in {UINT32_MAX, n} /\ n < UINT32_MAX
             /\ out.inputEnd => q.cur_idx = n /\ q.input_end_idx = n /\ x.fin_ack_index # NoFin
             /\ EndBit(y) \in {0, 1} /\ (EndBit(y) = 1 <=> out.inputEnd)
<1> DEFINE out == stream_out(y)
           q == y.reassembler
           n == x.stream.totoalRead
           src == Numbers(n)
<1>1. n \in Nat /\ n < UINT32_MAX /\ UINT32_MAX \in Nat
  <2>1. n \in Nat /\ n <= x.stream.totoalWrite /\ x.stream.totoalWrite \in Nat
    BY Zenon, SenderNumbers
  <2>2. UINT32_MAX \in Nat
    BY MaxIntAssumption DEF UINT32_MAX
  <2>3. QED
    BY <2>1, <2>2
<1>2. Len(src) = n /\ src \in Seq(Values(src))
  BY Zenon, <1>1, NumbersSeq
<1>3. ReassemblerCore(src, cap, out.error, q, dl) /\ out = q.outputStream
  BY Zenon DEF Link, stream_out
<1>4. q.input_end_idx # UINT32_MAX => x.fin_ack_index # NoFin
  BY Zenon DEF Link
<1> HIDE DEF out, q, src
<1>5. /\ OutputCore(src, cap, out.error, out, q.cur_idx, dl)
      /\ q.input_end_idx \in {UINT32_MAX, n}
      /\ out.inputEnd => q.input_end_idx <= q.cur_idx
  BY <1>1, <1>2, <1>3 DEF ReassemblerCore, EndDue
<1>6. /\ q.cur_idx \in Nat /\ q.cur_idx <= n /\ out.totoalWrite = q.cur_idx
      /\ out.totoalRead <= q.cur_idx
      /\ q.cur_idx <= out.totoalRead + cap
      /\ out.buffer = Slice(src, out.totoalRead, q.cur_idx)
      /\ dl = Slice(src, 0, out.totoalRead)
      /\ out.inputEnd => q.cur_idx = n
  BY <1>1, <1>2, <1>5 DEF OutputCore
<1>7. /\ out.totoalRead \in Nat /\ out.capcity = cap
  BY Zenon, <1>5 DEF OutputCore, OutputType
<1>8. out.inputEnd \in BOOLEAN
  BY Zenon, <1>5 DEF OutputCore, OutputType
<1>9. Len(out.buffer) = q.cur_idx - out.totoalRead
  <2> DEFINE a == out.totoalRead
             c == q.cur_idx
  <2>1. a \in Nat /\ c \in Nat /\ a <= c /\ c <= Len(src) /\ out.buffer = Slice(src, a, c)
    BY Zenon, <1>2, <1>6, <1>7
  <2> HIDE DEF a, c
  <2>2. Len(Slice(src, a, c)) = c - a
    BY Zenon, <2>1, <1>2, SliceType
  <2>3. QED
    BY Zenon, <2>1, <2>2 DEF a, c
<1>10. out.inputEnd => q.input_end_idx = n /\ x.fin_ack_index # NoFin
  BY <1>1, <1>4, <1>5, <1>6
<1>11. remaining_capacity(out) = cap - (q.cur_idx - out.totoalRead)
  BY Zenon, <1>7, <1>9 DEF remaining_capacity, buffer_size
<1>12. eof(out) <=> out.inputEnd /\ out.totoalRead = q.cur_idx
  BY <1>6, <1>7, <1>9 DEF eof, buffer_size
<1>13. EndBit(y) \in {0, 1} /\ (EndBit(y) = 1 <=> out.inputEnd)
  BY <1>8 DEF EndBit, out
<1>14. QED
  BY <1>1, <1>5, <1>6, <1>7, <1>8, <1>10, <1>11, <1>12, <1>13 DEF out, q, src

\* What a receiver acknowledges has been sent, and its window ends where it
\* says.
LEMMA LinkAssembled ==
  ASSUME NEW x, SenderSound(x), x.stream.totoalWrite < UINT32_MAX,
         NEW cap \in Nat, NEW y, NEW dl, Link(x, y, cap, dl)
  PROVE  /\ Assembled(y) \in Nat /\ Assembled(y) <= x.next_seqno
         /\ Edge(y, cap) \in Nat
         /\ y.recieve_isn => Assembled(y) + remaining_capacity(stream_out(y)) = Edge(y, cap)
<1> DEFINE out == stream_out(y)
           q == y.reassembler
           n == x.stream.totoalRead
<1>1. /\ q.cur_idx \in Nat /\ q.cur_idx <= n /\ out.totoalWrite = q.cur_idx
      /\ out.totoalRead \in Nat /\ out.totoalRead <= q.cur_idx
      /\ remaining_capacity(out) = cap - (q.cur_idx - out.totoalRead)
      /\ out.inputEnd => x.fin_ack_index # NoFin
      /\ EndBit(y) \in {0, 1} /\ (EndBit(y) = 1 <=> out.inputEnd)
  BY Zenon, LinkNumbers
<1>2. /\ x.next_seqno \in Nat /\ n \in Nat
      /\ x.next_seqno > 0 /\ x.fin_ack_index = NoFin => x.next_seqno = n + 1
      /\ x.fin_ack_index # NoFin => x.next_seqno = n + 2
  BY Zenon, SenderNumbers
<1>3. y.recieve_isn \in BOOLEAN /\ (y.recieve_isn => x.next_seqno > 0)
  BY Zenon DEF Link
<1>4. /\ y.recieve_isn => Assembled(y) = 1 + q.cur_idx + EndBit(y)
      /\ ~y.recieve_isn => Assembled(y) = 0
  BY Zenon, <1>1, <1>3 DEF Assembled
<1>5. Edge(y, cap) = 1 + out.totoalRead + cap + EndBit(y)
  BY Zenon DEF Edge
<1> HIDE DEF out, q, n
<1>6. Assembled(y) \in Nat /\ Edge(y, cap) \in Nat
  BY <1>1, <1>3, <1>4, <1>5
<1>7. Assembled(y) <= x.next_seqno
  <2>1. CASE ~y.recieve_isn
    BY <2>1, <1>2, <1>4
  <2>2. CASE y.recieve_isn /\ EndBit(y) = 0
    BY <2>2, <1>1, <1>2, <1>3, <1>4
  <2>3. CASE y.recieve_isn /\ EndBit(y) = 1
    BY <2>3, <1>1, <1>2, <1>3, <1>4
  <2>4. QED
    BY Zenon, <2>1, <2>2, <2>3, <1>1, <1>3
<1>8. y.recieve_isn => Assembled(y) + remaining_capacity(out) = Edge(y, cap)
  BY <1>1, <1>4, <1>5
<1>9. QED
  BY Zenon, <1>6, <1>7, <1>8 DEF out

\* A receiver that has lost nothing acknowledges as much and offers as much.
LEMMA LaterNumbers ==
  ASSUME NEW x, SenderSound(x), x.stream.totoalWrite < UINT32_MAX, NEW cap \in Nat,
         NEW y, NEW dl, Link(x, y, cap, dl), NEW z, NEW el, Link(x, z, cap, el), Later(y, z)
  PROVE  Assembled(y) <= Assembled(z) /\ Edge(y, cap) <= Edge(z, cap)
<1>1. /\ stream_out(y).totoalWrite \in Nat /\ stream_out(y).totoalRead \in Nat
      /\ EndBit(y) \in {0, 1} /\ (EndBit(y) = 1 <=> stream_out(y).inputEnd)
  BY Zenon, LinkNumbers
<1>2. /\ stream_out(z).totoalWrite \in Nat /\ stream_out(z).totoalRead \in Nat
      /\ EndBit(z) \in {0, 1} /\ (EndBit(z) = 1 <=> stream_out(z).inputEnd)
  BY Zenon, LinkNumbers
<1>3. y.recieve_isn \in BOOLEAN /\ z.recieve_isn \in BOOLEAN
  BY Zenon DEF Link
<1>4. /\ EndBit(y) <= EndBit(z) /\ (y.recieve_isn => z.recieve_isn)
      /\ stream_out(y).totoalRead <= stream_out(z).totoalRead
      /\ stream_out(y).totoalWrite <= stream_out(z).totoalWrite
  BY <1>1, <1>2 DEF Later
<1>5. Assembled(y) <= Assembled(z)
  <2>1. /\ Assembled(y) = IF ~y.recieve_isn THEN 0 ELSE 1 + stream_out(y).totoalWrite + EndBit(y)
        /\ Assembled(z) = IF ~z.recieve_isn THEN 0 ELSE 1 + stream_out(z).totoalWrite + EndBit(z)
    BY Zenon DEF Assembled
  <2>2. QED
    BY <2>1, <1>1, <1>2, <1>3, <1>4
<1>6. Edge(y, cap) <= Edge(z, cap)
  BY <1>1, <1>2, <1>4 DEF Edge
<1>7. QED
  BY Zenon, <1>5, <1>6

\* The sender moves on: the receiver's part of the stream is part of the
\* longer one.
LEMMA LinkSender ==
  ASSUME NEW x, SenderSound(x), NEW z, SenderSound(z), Ahead(x, z),
         z.stream.totoalWrite < UINT32_MAX,
         NEW cap \in Nat, NEW y, NEW dl, Link(x, y, cap, dl),
         z.cur_ack_index <= Assembled(y),
         z.wd_right_edge > 1 => z.wd_right_edge <= Edge(y, cap)
  PROVE  Link(z, y, cap, dl)
<1> DEFINE n == x.stream.totoalRead
           m == z.stream.totoalRead
           q == y.reassembler
           err == stream_out(y).error
<1>1. n \in Nat /\ x.next_seqno \in Nat
  BY Zenon, SenderNumbers
<1>2. m \in Nat /\ m <= z.stream.totoalWrite /\ z.stream.totoalWrite \in Nat /\ z.next_seqno \in Nat
  BY Zenon, SenderNumbers
<1>3. UINT32_MAX \in Nat
  BY MaxIntAssumption DEF UINT32_MAX
<1>4. /\ z.isn = x.isn /\ x.next_seqno <= z.next_seqno /\ n <= m
      /\ x.fin_ack_index # NoFin => z.fin_ack_index = x.fin_ack_index /\ m = n
  BY Zenon DEF Ahead
<1>5. /\ ReassemblerCore(Numbers(n), cap, err, q, dl) /\ EndSeen(Numbers(n), q)
      /\ q.input_end_idx # UINT32_MAX => x.fin_ack_index # NoFin
      /\ DOMAIN y = ReceiverFields /\ y.recieve_isn \in BOOLEAN
      /\ y.recieve_isn => x.next_seqno > 0 /\ y.isn = wrap(1, x.isn)
  BY Zenon DEF Link
<1> HIDE DEF n, m, q, err
<1>6. ReassemblerCore(Numbers(m), cap, err, q, dl) /\ EndSeen(Numbers(m), q)
  <2>1. CASE q.input_end_idx = UINT32_MAX
    <3>1. m < UINT32_MAX
      BY <1>2, <1>3 DEF m
    <3>2. QED
      BY <3>1, <2>1, <1>1, <1>2, <1>4, <1>5, GrowthKeepsCore
  <2>2. CASE q.input_end_idx # UINT32_MAX
    BY Zenon, <2>2, <1>4, <1>5
  <2>3. QED
    BY Zenon, <2>1, <2>2
<1>7. q.input_end_idx # UINT32_MAX => z.fin_ack_index # NoFin
  BY Zenon, <1>4, <1>5
<1>8. y.recieve_isn => z.next_seqno > 0 /\ y.isn = wrap(1, z.isn)
  BY <1>1, <1>2, <1>4, <1>5
<1>9. QED
  BY Zenon, <1>5, <1>6, <1>7, <1>8 DEF Link, m, q, err

\* The receiver moves on: its reassembler becomes w, and el has been read.
LEMMA LinkReassembler ==
  ASSUME NEW x, SenderSound(x), x.stream.totoalWrite < UINT32_MAX,
         NEW cap \in Nat, NEW y, NEW dl, Link(x, y, cap, dl),
         NEW w, NEW mark, mark \in {y.reassembler.input_end_idx, x.stream.totoalRead},
         mark # UINT32_MAX => x.fin_ack_index # NoFin,
         NEW err, NEW el,
         ReassemblerCore(Numbers(x.stream.totoalRead), cap, err, w, el),
         EndSeen(Numbers(x.stream.totoalRead), w),
         y.reassembler.cur_idx <= w.cur_idx,
         y.reassembler.outputStream.totoalRead <= w.outputStream.totoalRead,
         w.input_end_idx = mark
  PROVE  LET z == [y EXCEPT !.reassembler = w]
         IN  Link(x, z, cap, el) /\ Later(y, z)
<1> DEFINE z == [y EXCEPT !.reassembler = w]
           q == y.reassembler
           n == x.stream.totoalRead
           src == Numbers(n)
<1>1. DOMAIN y = ReceiverFields /\ y.recieve_isn \in BOOLEAN
  BY Zenon DEF Link
<1>2. /\ DOMAIN z = ReceiverFields /\ z.recieve_isn = y.recieve_isn /\ z.isn = y.isn
      /\ z.reassembler = w
  BY Zenon, <1>1 DEF ReceiverFields
<1> HIDE DEF z
<1>3. /\ stream_out(z) = w.outputStream /\ stream_out(y) = q.outputStream
  BY Zenon, <1>2 DEF stream_out
<1>4. n \in Nat /\ Len(src) = n
  <2>1. n \in Nat
    BY Zenon, SenderNumbers
  <2>2. QED
    BY Zenon, <2>1, NumbersSeq
<1>5. /\ q.cur_idx \in Nat /\ q.cur_idx <= n /\ q.outputStream.totoalWrite = q.cur_idx
      /\ q.outputStream.totoalRead \in Nat /\ n < UINT32_MAX
      /\ q.outputStream.inputEnd => q.cur_idx = n /\ q.input_end_idx = n
      /\ EndBit(y) \in {0, 1} /\ (EndBit(y) = 1 <=> q.outputStream.inputEnd)
  BY Zenon, <1>3, LinkNumbers
<1>6. /\ q.cur_idx <= w.cur_idx /\ q.outputStream.totoalRead <= w.outputStream.totoalRead
      /\ w.input_end_idx = mark
  BY Zenon
<1>7. /\ w.outputStream.error = err /\ w.cur_idx \in Nat /\ w.cur_idx <= n
      /\ w.outputStream.totoalWrite = w.cur_idx /\ w.outputStream.totoalRead \in Nat
  <2>1. OutputCore(src, cap, err, w.outputStream, w.cur_idx, el)
    BY Zenon DEF ReassemblerCore
  <2> HIDE DEF src
  <2>2. QED
    BY Zenon, <2>1, <1>4 DEF OutputCore, OutputType
<1>8. w.outputStream.inputEnd \in BOOLEAN
  <2>1. OutputCore(src, cap, err, w.outputStream, w.cur_idx, el)
    BY Zenon DEF ReassemblerCore
  <2> HIDE DEF src
  <2>2. QED
    BY Zenon, <2>1 DEF OutputCore, OutputType
<1>9. q.outputStream.inputEnd => w.outputStream.inputEnd
  <2>1. SUFFICES ASSUME q.outputStream.inputEnd PROVE w.outputStream.inputEnd
    BY Zenon
  <2>2. w.input_end_idx = Len(src) /\ w.cur_idx = Len(src)
    BY <2>1, <1>4, <1>5, <1>6, <1>7
  <2>3. QED
    BY Zenon, <2>2 DEF EndSeen
<1>10. Later(y, z)
  BY Zenon, <1>2, <1>3, <1>5, <1>6, <1>7, <1>9 DEF Later
<1>11. EndBit(z) \in {0, 1} /\ EndBit(y) <= EndBit(z)
  BY <1>3, <1>5, <1>8, <1>9 DEF EndBit
<1>12. Edge(y, cap) \in Nat /\ Edge(z, cap) \in Nat /\ Edge(y, cap) <= Edge(z, cap)
  BY <1>3, <1>5, <1>6, <1>7, <1>11 DEF Edge
<1>13. Assembled(y) \in Nat /\ Assembled(z) \in Nat /\ Assembled(y) <= Assembled(z)
  <2>1. CASE ~y.recieve_isn
    BY <2>1, <1>2 DEF Assembled
  <2>2. CASE y.recieve_isn
    <3>1. /\ Assembled(y) = 1 + q.cur_idx + EndBit(y)
          /\ Assembled(z) = 1 + w.cur_idx + EndBit(z)
      BY Zenon, <2>2, <1>2, <1>3, <1>5, <1>7 DEF Assembled
    <3>2. QED
      BY <3>1, <1>5, <1>6, <1>7, <1>11
  <2>3. QED
    BY Zenon, <2>1, <2>2
<1>14. /\ x.cur_ack_index <= Assembled(z)
       /\ x.wd_right_edge > 1 => x.wd_right_edge <= Edge(z, cap)
  <2>1. /\ x.cur_ack_index <= Assembled(y)
        /\ x.wd_right_edge > 1 => x.wd_right_edge <= Edge(y, cap)
    BY Zenon DEF Link
  <2>2. x.cur_ack_index \in Nat /\ x.wd_right_edge \in Nat
    BY Zenon, SenderNumbers
  <2>3. QED
    BY <2>1, <2>2, <1>12, <1>13
<1>15. z.recieve_isn => x.next_seqno > 0 /\ z.isn = wrap(1, x.isn)
  BY Zenon, <1>2 DEF Link
<1>16. z.reassembler.input_end_idx # UINT32_MAX => x.fin_ack_index # NoFin
  BY Zenon, <1>2, <1>6
<1>17. /\ ReassemblerCore(src, cap, stream_out(z).error, z.reassembler, el)
       /\ EndSeen(src, z.reassembler)
  BY Zenon, <1>2, <1>3, <1>7
<1>18. Link(x, z, cap, el)
  BY Zenon, <1>1, <1>2, <1>14, <1>15, <1>16, <1>17 DEF Link
<1>19. QED
  BY Zenon, <1>10, <1>18 DEF z

\* Wrapping from a raw value.
LEMMA WrapShift ==
  ASSUME NEW a \in Nat, NEW b \in Nat, NEW i \in WrappingInt32
  PROVE  wrap(a, wrap(b, i)) = wrap(a + b, i)
<1> DEFINE M == MaxInt
           u == i + b
           r == u % M
           v == r + a
           w == i + (a + b)
           j == u \div M
           k == v \div M
           l == w \div M
<1>1. M \in Nat \ {0} /\ i \in Nat
  BY MaxIntAssumption DEF WrappingInt32
<1>2. u \in Int /\ w \in Int
  BY <1>1
<1>3. r \in 0 .. M - 1 /\ j \in Int /\ u = M * j + r
  <2> HIDE DEF u, M
  <2>1. QED
    BY Zenon, <1>1, <1>2, DivMod
<1>4. v \in Int
  <2> HIDE DEF r
  <2>1. QED
    BY <1>1, <1>3
<1>5. v % M \in 0 .. M - 1 /\ k \in Int /\ v = M * k + (v % M)
  <2> HIDE DEF v, M
  <2>1. QED
    BY Zenon, <1>1, <1>4, DivMod
<1>6. w % M \in 0 .. M - 1 /\ l \in Int /\ w = M * l + (w % M)
  <2> HIDE DEF w, M
  <2>1. QED
    BY Zenon, <1>1, <1>2, DivMod
<1> DEFINE s == v % M
           t == w % M
<1>7. s \in 0 .. M - 1 /\ v = M * k + s /\ t \in 0 .. M - 1 /\ w = M * l + t
  BY Zenon, <1>5, <1>6
<1> HIDE DEF s, t, j, k, l, M, r
<1>8. M * (j + k) + s = M * l + t
  <2> DEFINE mj == M * j
             mk == M * k
             ml == M * l
  <2>1. M * (j + k) = mj + mk
    BY <1>1, <1>3, <1>5
  <2>2. mj \in Int /\ mk \in Int /\ ml \in Int
    BY <1>1, <1>3, <1>5, <1>6
  <2>3. i + b = mj + r /\ r + a = mk + s /\ i + (a + b) = ml + t
    BY Zenon, <1>3, <1>7
  <2>4. r \in Int /\ s \in Int /\ t \in Int
    BY <1>1, <1>3, <1>7
  <2> HIDE DEF mj, mk, ml, u, v, w
  <2>5. mj + mk + s = ml + t
    BY <2>2, <2>3, <2>4, <1>1
  <2>6. QED
    BY Zenon, <2>1, <2>5 DEF ml
<1>9. s = t
  <2>1. j + k \in Int
    BY <1>3, <1>5
  <2> DEFINE jk == j + k
  <2> HIDE DEF jk, u, v, w
  <2>2. jk \in Int /\ M * jk + s = M * l + t
    BY Zenon, <2>1, <1>8 DEF jk
  <2>3. M \in Nat \ {0} /\ s \in 0 .. M - 1 /\ t \in 0 .. M - 1 /\ l \in Int
    BY Zenon, <1>1, <1>6, <1>7
  <2>4. QED
    BY <2>2, <2>3, DivModUnique
<1>10. QED
  BY Zenon, <1>9 DEF wrap, s, t, r, M

\* The initial sequence number is that of the peer.
LEMMA LinkLearn ==
  ASSUME NEW x, SenderSound(x), x.stream.totoalWrite < UINT32_MAX,
         NEW cap \in Nat, NEW y, NEW dl, Link(x, y, cap, dl),
         NEW seg \in MessageType, Carries(seg, x)
  PROVE  LET z == learn_isn(y, seg)
         IN  /\ Link(x, z, cap, dl) /\ Later(y, z) /\ z.reassembler = y.reassembler
<1>1. CASE ~seg.syn
  <2>1. learn_isn(y, seg) = y
    BY Zenon, <1>1 DEF learn_isn
  <2>2. Later(y, y)
    <3>1. stream_out(y).totoalWrite \in Nat /\ stream_out(y).totoalRead \in Nat
      BY Zenon, LinkNumbers
    <3>2. QED
      BY <3>1 DEF Later
  <2>3. QED
    BY Zenon, <2>1, <2>2
<1>2. CASE seg.syn
  <2> DEFINE z == learn_isn(y, seg)
  <2>1. DOMAIN y = ReceiverFields
    BY Zenon DEF Link
  <2>2. /\ DOMAIN z = ReceiverFields /\ z.recieve_isn = TRUE /\ z.isn = wrap(1, seg.seqno)
        /\ z.reassembler = y.reassembler
    BY Zenon, <2>1, <1>2 DEF learn_isn, ReceiverFields
  <2> HIDE DEF z
  <2>3. stream_out(z) = stream_out(y) /\ EndBit(z) = EndBit(y) /\ Edge(z, cap) = Edge(y, cap)
    BY Zenon, <2>2 DEF stream_out, EndBit, Edge
  <2>4. Len(seg.payload) \in Nat /\ seg.syn \in BOOLEAN /\ seg.fin \in BOOLEAN
    <3>1. seg.payload \in Seq(Nat)
      BY Zenon DEF MessageType
    <3>2. seg.syn \in BOOLEAN /\ seg.fin \in BOOLEAN
      BY Zenon DEF MessageType
    <3>3. QED
      BY <3>1, <3>2
  <2>5. seg.seqno = wrap(0, x.isn) /\ x.next_seqno > 0
    <3> DEFINE len == length_in_sequence_space(seg)
    <3>1. PICK from \in 0 .. x.next_seqno :
             seg.seqno = wrap(from, x.isn) /\ from + len <= x.next_seqno /\ from = 0
      BY Zenon, <1>2 DEF Carries
    <3>2. len \in Nat /\ len > 0
      <4>1. len \in Nat /\ (len = 0 <=> Len(seg.payload) = 0 /\ ~seg.syn /\ ~seg.fin)
        BY Zenon, <2>4, SegmentLength
      <4> HIDE DEF len
      <4>2. QED
        BY <4>1, <1>2
    <3> HIDE DEF len
    <3>3. x.next_seqno \in Nat
      BY Zenon, SenderNumbers
    <3>4. QED
      BY <3>1, <3>2, <3>3
  <2>6. z.isn = wrap(1, x.isn)
    <3>1. x.isn \in WrappingInt32
      BY Zenon, SenderNumbers
    <3>2. wrap(1, wrap(0, x.isn)) = wrap(1 + 0, x.isn)
      BY <3>1, WrapShift
    <3>3. QED
      BY <3>2, <2>2, <2>5
  <2>7. Later(y, z)
    <3>1. stream_out(y).totoalWrite \in Nat /\ stream_out(y).totoalRead \in Nat
      BY Zenon, LinkNumbers
    <3>2. QED
      BY <3>1, <2>2, <2>3 DEF Later
  <2>8. x.cur_ack_index <= Assembled(z)
    <3>1. /\ stream_out(y).totoalWrite \in Nat /\ EndBit(y) \in {0, 1}
      BY Zenon, LinkNumbers
    <3>2. x.cur_ack_index <= Assembled(y) /\ y.recieve_isn \in BOOLEAN
      BY Zenon DEF Link
    <3>3. x.cur_ack_index \in Nat
      BY Zenon, SenderNumbers
    <3>4. Assembled(z) = 1 + stream_out(y).totoalWrite + EndBit(y)
      BY Zenon, <2>2, <2>3 DEF Assembled
    <3>5. Assembled(y) = 0 \/ Assembled(y) = 1 + stream_out(y).totoalWrite + EndBit(y)
      BY Zenon, <3>2 DEF Assembled
    <3>6. QED
      BY <3>1, <3>2, <3>3, <3>4, <3>5
  <2>9. Link(x, z, cap, dl)
    BY Zenon, <2>2, <2>3, <2>5, <2>6, <2>8 DEF Link
  <2>10. QED
    BY Zenon, <2>2, <2>7, <2>9 DEF z
<1>3. QED
  BY Zenon, <1>1, <1>2

\* The fields of a message.
LEMMA MessageFields ==
  ASSUME NEW seg \in MessageType
  PROVE  /\ seg.payload \in Seq(Nat) /\ Len(seg.payload) \in Nat
         /\ DOMAIN seg.payload = 1 .. Len(seg.payload)
         /\ seg.win \in Nat
         /\ seg.syn \in BOOLEAN /\ seg.fin \in BOOLEAN /\ seg.ack \in BOOLEAN
<1>1. seg.payload \in Seq(Nat) /\ seg.win \in Nat
  BY Zenon DEF MessageType
<1>2. seg.syn \in BOOLEAN /\ seg.fin \in BOOLEAN /\ seg.ack \in BOOLEAN
  BY Zenon DEF MessageType
<1>3. Len(seg.payload) \in Nat /\ DOMAIN seg.payload = 1 .. Len(seg.payload)
  BY <1>1
<1>4. QED
  BY Zenon, <1>1, <1>2, <1>3

\* Where the receiver puts a segment that the sender has sent: at its place in
\* the stream.
LEMMA SegmentPlace ==
  ASSUME NEW x, SenderSound(x), x.stream.totoalWrite < UINT32_MAX,
         2 * (x.stream.totoalWrite + 3) < MaxInt,
         NEW cap \in Nat, NEW y, NEW dl, Link(x, y, cap, dl), y.recieve_isn,
         NEW seg \in MessageType, Carries(seg, x)
  PROVE  LET at == seg_start(y, seg)
             n  == x.stream.totoalRead
         IN  \/ seg.payload = <<>> /\ ~seg.fin
             \/ /\ at \in Nat /\ at + Len(seg.payload) <= n
                /\ \A i \in DOMAIN seg.payload : seg.payload[i] = at + i
                /\ seg.fin => at + Len(seg.payload) = n /\ x.fin_ack_index # NoFin
<1> DEFINE at == seg_start(y, seg)
           n == x.stream.totoalRead
           len == length_in_sequence_space(seg)
           size == Len(seg.payload)
           cur == stream_out(y).totoalWrite
<1>1. PICK from \in 0 .. x.next_seqno :
         /\ seg.seqno = wrap(from, x.isn)
         /\ from + len <= x.next_seqno
         /\ seg.syn <=> from = 0
         /\ seg.syn => size = 0
         /\ len > 0 => (seg.fin <=> from + len = x.fin_ack_index)
         /\ \A i \in DOMAIN seg.payload : seg.payload[i] = from + i - 1
  BY Zenon DEF Carries
<1>2. /\ seg.payload \in Seq(Nat) /\ size \in Nat /\ DOMAIN seg.payload = 1 .. size
      /\ seg.syn \in BOOLEAN /\ seg.fin \in BOOLEAN
  BY Zenon, MessageFields
<1>3. /\ len \in Nat
      /\ len = 0 <=> size = 0 /\ ~seg.syn /\ ~seg.fin
      /\ ~seg.syn /\ ~seg.fin => len = size
      /\ ~seg.syn /\ seg.fin => len = size + 1
      /\ seg.syn /\ ~seg.fin => len = size + 1
      /\ seg.syn /\ seg.fin => len = size + 2
  BY Zenon, <1>2, SegmentLength
<1>4. /\ x.isn \in WrappingInt32 /\ x.next_seqno \in Nat
      /\ x.fin_ack_index \in Nat \cup {NoFin}
      /\ n \in Nat /\ x.stream.totoalWrite \in Nat /\ n <= x.stream.totoalWrite
      /\ x.next_seqno = 0 => n = 0 /\ x.fin_ack_index = NoFin
      /\ x.next_seqno > 0 /\ x.fin_ack_index = NoFin => x.next_seqno = n + 1
      /\ x.fin_ack_index # NoFin =>
            /\ n = x.stream.totoalWrite
            /\ x.next_seqno = x.fin_ack_index /\ x.next_seqno = x.stream.totoalWrite + 2
  BY Zenon, SenderNumbers
<1>5. cur \in Nat /\ cur <= n
  BY Zenon, LinkNumbers
<1>6. y.isn = wrap(1, x.isn) /\ y.isn \in WrappingInt32
  BY <1>4, WrapType DEF Link
<1>7. at = IF seg.syn THEN 0 ELSE unwrap(seg.seqno, y.isn, cur)
  BY Zenon DEF seg_start
<1>8. MaxInt \in Nat
  BY Zenon, MaxIntAssumption
<1> HIDE DEF at, n, len, size, cur
<1>9. at = IF seg.syn THEN 0 ELSE from - 1
  <2>1. CASE seg.syn
    BY Zenon, <2>1, <1>7
  <2>2. CASE ~seg.syn
    <3> DEFINE f == from - 1
    <3>1. f \in Nat /\ from = f + 1
      BY <2>2, <1>1, <1>4
    <3> HIDE DEF f
    <3>2. wrap(f, wrap(1, x.isn)) = wrap(f + 1, x.isn)
      BY <3>1, <1>4, WrapShift
    <3>3. seg.seqno = wrap(f, y.isn)
      BY Zenon, <3>1, <3>2, <1>1, <1>6
    <3>4. 2 * (f - cur) < MaxInt /\ 2 * (cur - f) <= MaxInt
      <4>1. f <= x.stream.totoalWrite + 1 /\ cur <= x.stream.totoalWrite
        BY <3>1, <1>1, <1>4, <1>5
      <4>2. QED
        BY <4>1, <3>1, <1>4, <1>5, <1>8
    <3>5. unwrap(wrap(f, y.isn), y.isn, cur) = f
      BY Zenon, <3>1, <3>4, <1>5, <1>6, UnwrapInverts
    <3>6. QED
      BY Zenon, <3>3, <3>5, <2>2, <1>7 DEF f
  <2>3. QED
    BY Zenon, <2>1, <2>2
<1>10. CASE size = 0 /\ ~seg.fin
  <2>1. seg.payload = <<>>
    BY <1>10, <1>2 DEF size
  <2>2. QED
    BY Zenon, <2>1, <1>10
<1>11. CASE ~(size = 0 /\ ~seg.fin)
  <2>1. at \in Nat
    BY <1>1, <1>4, <1>9
  <2>2. len > 0
    BY <1>2, <1>3, <1>11
  <2>3. seg.fin => at + size = n /\ x.fin_ack_index # NoFin
    <3>1. SUFFICES ASSUME seg.fin PROVE at + size = n /\ x.fin_ack_index # NoFin
      BY Zenon, <1>2
    <3>2. from + len = x.fin_ack_index
      BY Zenon, <3>1, <2>2, <1>1
    <3>3. x.fin_ack_index # NoFin
      BY <3>2, <1>1, <1>3, <1>4 DEF NoFin
    <3>4. from + len = n + 2
      BY Zenon, <3>2, <3>3, <1>4
    <3>5. CASE seg.syn
      BY <3>1, <3>3, <3>4, <3>5, <1>1, <1>2, <1>3, <1>4, <1>9
    <3>6. CASE ~seg.syn
      BY <3>1, <3>3, <3>4, <3>6, <1>1, <1>2, <1>3, <1>4, <1>9
    <3>7. QED
      BY Zenon, <3>5, <3>6
  <2>4. at + size <= n
    <3>1. CASE seg.fin
      BY <3>1, <2>1, <2>3, <1>2, <1>4
    <3>2. CASE ~seg.fin
      <4>1. from + len # x.fin_ack_index
        BY Zenon, <3>2, <2>2, <1>1
      <4>2. from + len <= n + 1
        <5>1. CASE x.fin_ack_index = NoFin
          BY <5>1, <1>1, <1>3, <1>4, <2>2
        <5>2. CASE x.fin_ack_index # NoFin
          BY <5>2, <4>1, <1>1, <1>3, <1>4
        <5>3. QED
          BY Zenon, <5>1, <5>2
      <4>3. CASE seg.syn
        BY <4>3, <1>1, <1>2, <1>4, <1>9
      <4>4. CASE ~seg.syn
        BY <4>2, <4>4, <3>2, <1>1, <1>2, <1>3, <1>4, <1>9
      <4>5. QED
        BY Zenon, <4>3, <4>4
    <3>3. QED
      BY Zenon, <3>1, <3>2
  <2>5. ASSUME NEW i \in DOMAIN seg.payload PROVE seg.payload[i] = at + i
    <3>1. i \in 1 .. size /\ ~seg.syn
      BY <1>1, <1>2
    <3>2. QED
      BY <3>1, <1>1, <1>4, <1>9
  <2>6. QED
    BY Zenon, <2>1, <2>3, <2>4, <2>5 DEF at, n, size
<1>12. QED
  BY Zenon, <1>10, <1>11 DEF at, n, size

\* A segment that the sender has sent arrives.
LEMMA LinkReceive ==
  ASSUME NEW x, SenderSound(x), x.stream.totoalWrite < UINT32_MAX,
         2 * (x.stream.totoalWrite + 3) < MaxInt,
         NEW cap \in Nat, NEW y, NEW dl, Link(x, y, cap, dl),
         NEW seg \in MessageType, Carries(seg, x)
  PROVE  LET z == receiver_segment_received(y, seg)
         IN  Link(x, z, cap, dl) /\ Later(y, z)
<1> DEFINE r == learn_isn(y, seg)
           z == receiver_segment_received(y, seg)
<1>1. Link(x, r, cap, dl) /\ Later(y, r) /\ r.reassembler = y.reassembler
  BY Zenon, LinkLearn
<1>2. z = IF r.recieve_isn /\ in_window(r, seg)
          THEN [r EXCEPT !.reassembler =
                  push_substring(@, seg.payload, seg_start(r, seg), seg.fin)]
          ELSE r
  BY Zenon DEF receiver_segment_received
<1> HIDE DEF r, z
<1>3. CASE ~(r.recieve_isn /\ in_window(r, seg))
  BY Zenon, <1>1, <1>2, <1>3 DEF z
<1>4. CASE r.recieve_isn /\ in_window(r, seg)
  <2> DEFINE q == r.reassembler
             at == seg_start(r, seg)
             w == push_substring(q, seg.payload, at, seg.fin)
             n == x.stream.totoalRead
             src == Numbers(n)
             err == stream_out(r).error
  <2>1. z = [r EXCEPT !.reassembler = w]
    BY Zenon, <1>2, <1>4
  <2>2. /\ n \in Nat /\ Len(src) = n /\ src \in Seq(Values(src))
    <3>1. n \in Nat
      BY Zenon, SenderNumbers
    <3>2. QED
      BY Zenon, <3>1, NumbersSeq
  <2>3. ReassemblerCore(src, cap, err, q, dl)
    BY Zenon, <1>1 DEF Link
  <2>4. \/ seg.payload = <<>> /\ ~seg.fin
        \/ /\ at \in Nat /\ at + Len(seg.payload) <= n
           /\ \A i \in DOMAIN seg.payload : seg.payload[i] = at + i
           /\ seg.fin => at + Len(seg.payload) = n /\ x.fin_ack_index # NoFin
    BY Zenon, <1>1, <1>4, SegmentPlace
  <2>5. seg.payload \in Seq(Nat) /\ Len(seg.payload) \in Nat /\ seg.fin \in BOOLEAN
    BY Zenon, MessageFields
  <2> HIDE DEF q, at, n, src, err
  <2>6. PICK mark \in {q.input_end_idx, n} :
           /\ ReassemblerCore(src, cap, err, w, dl) /\ EndSeen(src, w) /\ Advanced(q, w, mark)
           /\ mark = q.input_end_idx \/ x.fin_ack_index # NoFin
    <3>1. CASE seg.payload = <<>> /\ ~seg.fin
      <4>1. w = end_if_complete(q)
        BY Zenon, <3>1 DEF push_substring
      <4>2. QED
        BY Zenon, <4>1, <2>2, <2>3, EndKeepsCore
    <3>2. CASE ~(seg.payload = <<>> /\ ~seg.fin)
      <4> DEFINE last == at + Len(seg.payload)
                 eofFlag == seg.fin
      <4>1. /\ at \in Nat /\ last \in Nat /\ at <= last /\ last <= n
            /\ eofFlag => last = n /\ x.fin_ack_index # NoFin
            /\ eofFlag \in BOOLEAN
        BY <3>2, <2>4, <2>5
      <4>2. seg.payload = Slice(src, at, last)
        BY Zenon, <3>2, <2>2, <2>4, <2>5, SliceOfNumbers DEF src
      <4>3. w = push_substring(q, Slice(src, at, last), at, eofFlag)
        BY Zenon, <4>2
      <4> HIDE DEF last, eofFlag, w
      <4>4. /\ ReassemblerCore(src, cap, err, w, dl) /\ EndSeen(src, w)
            /\ Advanced(q, w, IF eofFlag THEN Len(src) ELSE q.input_end_idx)
        <5> DEFINE v == push_substring(q, Slice(src, at, last), at, eofFlag)
        <5>1. /\ ReassemblerCore(src, cap, err, v, dl) /\ EndSeen(src, v)
              /\ Advanced(q, v, IF eofFlag THEN Len(src) ELSE q.input_end_idx)
          BY Zenon, <4>1, <2>2, <2>3, PushKeepsCore
        <5>2. QED
          BY Zenon, <5>1, <4>3
      <4>5. QED
        BY Zenon, <4>1, <4>4, <2>2
    <3>3. QED
      BY Zenon, <3>1, <3>2
  <2> HIDE DEF w
  <2>7. mark # UINT32_MAX => x.fin_ack_index # NoFin
    BY Zenon, <2>6, <1>1 DEF Link, q
  <2>8. /\ q.cur_idx <= w.cur_idx /\ w.outputStream.totoalRead = q.outputStream.totoalRead
        /\ w.input_end_idx = mark
    BY Zenon, <2>6 DEF Advanced
  <2>9. q.outputStream.totoalRead \in Nat
    BY Zenon, <1>1, LinkNumbers DEF stream_out, q
  <2>10. q.outputStream.totoalRead <= w.outputStream.totoalRead
    BY <2>8, <2>9
  <2>11. Link(x, z, cap, dl) /\ Later(r, z)
    BY Zenon, <2>1, <2>6, <2>7, <2>8, <2>10, <1>1, LinkReassembler DEF q, n, src
  <2>12. Later(y, z)
    <3>1. stream_out(y).totoalRead \in Nat /\ stream_out(y).totoalWrite \in Nat
      BY Zenon, LinkNumbers
    <3>2. stream_out(z).totoalRead \in Nat /\ stream_out(z).totoalWrite \in Nat
      BY Zenon, <2>11, LinkNumbers
    <3>3. stream_out(r).totoalRead \in Nat /\ stream_out(r).totoalWrite \in Nat
      BY Zenon, <1>1, LinkNumbers
    <3>4. QED
      BY <3>1, <3>2, <3>3, <2>11, <1>1 DEF Later
  <2>13. QED
    BY Zenon, <2>11, <2>12 DEF z
<1>5. QED
  BY Zenon, <1>3, <1>4

\* The application of the receiver reads n bytes.
LEMMA LinkRead ==
  ASSUME NEW x, SenderSound(x), x.stream.totoalWrite < UINT32_MAX,
         NEW cap \in Nat, NEW y, NEW dl, Link(x, y, cap, dl),
         NEW n \in Nat, n <= buffer_size(stream_out(y))
  PROVE  LET z == [y EXCEPT !.reassembler = Popped(y.reassembler, n)]
         IN  Link(x, z, cap, Taken(y.reassembler, dl, n)) /\ Later(y, z)
<1> DEFINE q == y.reassembler
           w == Popped(q, n)
           el == Taken(q, dl, n)
           src == Numbers(x.stream.totoalRead)
           err == stream_out(y).error
           out == q.outputStream
<1>1. src \in Seq(Values(src))
  BY Zenon, SenderNumbers, NumbersSeq
<1>2. ReassemblerCore(src, cap, err, q, dl) /\ EndSeen(src, q)
  BY Zenon DEF Link
<1>3. n <= buffer_size(out)
  BY Zenon DEF stream_out
<1> HIDE DEF src, err
<1>4. ReassemblerCore(src, cap, err, w, el) /\ EndSeen(src, w)
  <2> HIDE DEF w, el, q
  <2>1. ReassemblerCore(src, cap, err, Popped(q, n), Taken(q, dl, n)) /\ EndSeen(src, Popped(q, n))
    BY Zenon, <1>1, <1>2, <1>3, ReadKeepsCore
  <2>2. QED
    BY Zenon, <2>1 DEF w, el
<1>5. DOMAIN q = Fields /\ out \in OutputType(src, cap, err)
  BY Zenon, <1>2 DEF ReassemblerCore, OutputCore
<1>6. w.cur_idx = q.cur_idx /\ w.input_end_idx = q.input_end_idx /\ w.outputStream = pop_output(out, n)
  BY Zenon, <1>5 DEF Popped, Fields
<1>7. out.totoalRead \in Nat /\ q.cur_idx \in Nat /\ out.buffer \in Seq(Values(src))
  <2>1. out.totoalRead \in Nat /\ out.buffer \in Seq(Values(src))
    BY Zenon, <1>5 DEF OutputType
  <2>2. q.cur_idx \in Nat
    BY Zenon, <1>2 DEF ReassemblerCore, OutputCore
  <2>3. QED
    BY Zenon, <2>1, <2>2
<1>8. w.outputStream.totoalRead = out.totoalRead + n
  <2>1. pop_output(out, n).totoalRead = out.totoalRead + min(n, buffer_size(out))
    BY Zenon, <1>5 DEF pop_output, OutputType
  <2>2. min(n, buffer_size(out)) = n
    BY <1>3, <1>7 DEF min, buffer_size
  <2>3. QED
    BY Zenon, <2>1, <2>2, <1>6
<1>9. q.cur_idx <= w.cur_idx /\ out.totoalRead <= w.outputStream.totoalRead
  BY <1>6, <1>7, <1>8
<1>10. q.input_end_idx # UINT32_MAX => x.fin_ack_index # NoFin
  BY Zenon DEF Link
<1> HIDE DEF w, el
<1>11. Link(x, [y EXCEPT !.reassembler = w], cap, el) /\ Later(y, [y EXCEPT !.reassembler = w])
  <2> DEFINE mark == q.input_end_idx
  <2>1. mark \in {q.input_end_idx, x.stream.totoalRead}
    BY Zenon
  <2>2. w.input_end_idx = mark
    BY Zenon, <1>6
  <2> HIDE DEF mark
  <2>3. mark # UINT32_MAX => x.fin_ack_index # NoFin
    BY Zenon, <1>10 DEF mark
  <2>4. QED
    BY Zenon, <2>1, <2>2, <2>3, <1>4, <1>9, LinkReassembler DEF src
<1>12. QED
  BY Zenon, <1>11 DEF w, el

\* The connection is reset: the inbound stream gets its error mark.
LEMMA LinkError ==
  ASSUME NEW x, SenderSound(x), x.stream.totoalWrite < UINT32_MAX,
         NEW cap \in Nat, NEW y, NEW dl, Link(x, y, cap, dl),
         NEW w, w = [y.reassembler EXCEPT !.outputStream = set_error(@)]
  PROVE  LET z == [y EXCEPT !.reassembler = w]
         IN  Link(x, z, cap, dl) /\ Later(y, z)
<1> DEFINE q == y.reassembler
           src == Numbers(x.stream.totoalRead)
           err == stream_out(y).error
           out == q.outputStream
           new == set_error(out)
<1>1. Len(src) = x.stream.totoalRead /\ src \in Seq(Values(src)) /\ x.stream.totoalRead \in Nat
  BY Zenon, SenderNumbers, NumbersSeq
<1>2. ReassemblerCore(src, cap, err, q, dl) /\ EndSeen(src, q)
  BY Zenon DEF Link
<1> HIDE DEF src, err
<1>3. /\ DOMAIN q = Fields /\ OutputCore(src, cap, err, out, q.cur_idx, dl)
      /\ StoreCore(src, q.seg_buffer, q.cur_idx, out.totoalRead + cap)
      /\ q.input_end_idx \in {UINT32_MAX, Len(src)}
      /\ Len(src) <= UINT32_MAX => EndDue(q)
  BY Zenon, <1>2 DEF ReassemblerCore
<1>4. /\ out \in OutputType(src, cap, err) /\ q.cur_idx \in Nat
  BY Zenon, <1>3 DEF OutputCore
<1>5. /\ new \in OutputType(src, cap, TRUE) /\ new.buffer = out.buffer
      /\ new.totoalWrite = out.totoalWrite /\ new.totoalRead = out.totoalRead
      /\ new.inputEnd = out.inputEnd /\ out.totoalRead \in Nat
  BY Zenon, <1>4 DEF OutputType, set_error
<1>6. /\ DOMAIN w = Fields /\ w.outputStream = new /\ w.seg_buffer = q.seg_buffer
      /\ w.cur_idx = q.cur_idx /\ w.input_end_idx = q.input_end_idx
  BY Zenon, <1>3 DEF Fields
<1> HIDE DEF new, out
<1>7. OutputCore(src, cap, TRUE, new, w.cur_idx, dl)
  BY Zenon, <1>3, <1>5, <1>6 DEF OutputCore
<1>8. Len(src) <= UINT32_MAX => EndDue(w)
  BY Zenon, <1>3, <1>5, <1>6 DEF EndDue, out
<1>9. ReassemblerCore(src, cap, TRUE, w, dl)
  <2>1. StoreCore(src, w.seg_buffer, w.cur_idx, w.outputStream.totoalRead + cap)
    BY Zenon, <1>3, <1>5, <1>6
  <2>2. w.input_end_idx \in {UINT32_MAX, Len(src)}
    BY Zenon, <1>3, <1>6
  <2>3. QED
    BY Zenon, <2>1, <2>2, <1>6, <1>7, <1>8 DEF ReassemblerCore
<1>10. EndSeen(src, w)
  BY Zenon, <1>2, <1>5, <1>6 DEF EndSeen, out
<1>11. q.cur_idx <= w.cur_idx /\ q.outputStream.totoalRead <= w.outputStream.totoalRead
  BY <1>4, <1>5, <1>6 DEF out
<1>12. q.input_end_idx # UINT32_MAX => x.fin_ack_index # NoFin
  BY Zenon DEF Link
<1>13. QED
  <2> DEFINE mark == q.input_end_idx
  <2>1. mark \in {q.input_end_idx, x.stream.totoalRead}
    BY Zenon
  <2>2. w.input_end_idx = mark
    BY Zenon, <1>6
  <2> HIDE DEF mark
  <2>3. mark # UINT32_MAX => x.fin_ack_index # NoFin
    BY Zenon, <1>12 DEF mark
  <2>4. QED
    BY Zenon, <2>1, <2>2, <2>3, <1>9, <1>10, <1>11, LinkReassembler DEF src

-----------------------------------------------------------------------------

\* Facts that no proof below cites.
HIDE DEF DivMod, DivModUnique, UnwrapInverts, SliceType, EndKeepsCore, PushKeepsCore,
  ReadKeepsCore, NumbersSeq, SliceOfNumbers, GrowthKeepsCore, SegmentLength,
  LinkReassembler, LinkLearn, SegmentPlace, LinkReceive, LinkRead, LinkError

(* Messages in transit. *)

\* What a message says stays true.
LEMMA MessageKept ==
  ASSUME NEW x, SenderSound(x), NEW z, SenderSound(z), Ahead(x, z), NEW cap, NEW isn,
         NEW y, NEW r, Assembled(y) \in Nat, Assembled(r) \in Nat, Assembled(y) <= Assembled(r),
         Edge(y, cap) \in Nat, Edge(r, cap) \in Nat, Edge(y, cap) <= Edge(r, cap),
         NEW m, Message(m, x, y, isn, cap)
  PROVE  Message(m, z, r, isn, cap)
<1>1. m \in MessageType /\ (~m.rst => Carries(m, x)) /\ Tells(m, y, isn, cap)
  BY Zenon DEF Message
<1>2. Len(m.payload) \in Nat /\ m.syn \in BOOLEAN /\ m.fin \in BOOLEAN /\ m.win \in Nat
  BY Zenon, <1>1, MessageFields
<1>3. ~m.rst => Carries(m, z)
  BY Zenon, <1>1, <1>2, CarriesKept
<1>4. Tells(m, r, isn, cap)
  <2>1. SUFFICES ASSUME m.ack
                 PROVE  \E a \in 0 .. Assembled(r) : /\ m.ackno = wrap(a, isn)
                                                     /\ a + m.win <= Edge(r, cap)
    BY Zenon DEF Tells
  <2>2. PICK a \in 0 .. Assembled(y) : m.ackno = wrap(a, isn) /\ a + m.win <= Edge(y, cap)
    BY Zenon, <2>1, <1>1 DEF Tells
  <2>3. a \in 0 .. Assembled(r) /\ a + m.win <= Edge(r, cap)
    BY <2>2, <1>2
  <2>4. QED
    BY Zenon, <2>2, <2>3
<1>5. QED
  BY Zenon, <1>1, <1>3, <1>4 DEF Message

\* A segment of the sender becomes a message when the receiver's state is
\* written into it.
LEMMA StampMessage ==
  ASSUME NEW c, NEW seg \in SegmentType, Carries(seg, c.sender),
         NEW p, SenderSound(p), p.stream.totoalWrite < UINT32_MAX,
         NEW cap \in Nat, NEW dl, Link(p, c.receiver, cap, dl)
  PROVE  Message(stamp(c, seg), c.sender, c.receiver, p.isn, cap)
<1> DEFINE y == c.receiver
           m == stamp(c, seg)
           no == IF y.recieve_isn THEN ackno(y) ELSE seg.ackno
           win == min(UINT16_MAX, window_size(y))
           cur == stream_out(y).totoalWrite
<1>1. /\ y.recieve_isn \in BOOLEAN
      /\ y.recieve_isn => y.isn = wrap(1, p.isn)
  BY Zenon DEF Link
<1>2. /\ cur \in Nat /\ stream_out(y).totoalRead \in Nat /\ EndBit(y) \in {0, 1}
      /\ window_size(y) = cap - (cur - stream_out(y).totoalRead)
      /\ cur <= stream_out(y).totoalRead + cap
  <2>1. window_size(y) = remaining_capacity(stream_out(y))
    BY Zenon DEF window_size
  <2>2. /\ cur \in Nat /\ stream_out(y).totoalRead \in Nat /\ EndBit(y) \in {0, 1}
        /\ remaining_capacity(stream_out(y)) = cap - (cur - stream_out(y).totoalRead)
        /\ cur <= stream_out(y).totoalRead + cap
    BY LinkNumbers
  <2>3. QED
    BY Zenon, <2>1, <2>2
<1>3. /\ Assembled(y) \in Nat /\ Edge(y, cap) \in Nat
      /\ y.recieve_isn => Assembled(y) + window_size(y) = Edge(y, cap)
  BY Zenon, LinkAssembled DEF window_size
<1>4. window_size(y) \in Nat
  BY <1>2
<1>5. win \in Nat /\ win <= window_size(y)
  BY <1>4, ConnectionAssumption DEF min
<1>6. p.isn \in WrappingInt32
  BY Zenon, SenderNumbers
<1>7. y.recieve_isn => no = wrap(Assembled(y), p.isn)
  <2>1. SUFFICES ASSUME y.recieve_isn PROVE no = wrap(Assembled(y), p.isn)
    BY Zenon
  <2> DEFINE b == cur + EndBit(y)
  <2>2. no = wrap(b, wrap(1, p.isn))
    BY Zenon, <2>1, <1>1 DEF ackno, EndBit
  <2>3. b \in Nat /\ Assembled(y) = b + 1
    BY <2>1, <1>2 DEF Assembled
  <2> HIDE DEF b, no
  <2>4. wrap(b, wrap(1, p.isn)) = wrap(b + 1, p.isn)
    BY <2>3, <1>6, WrapShift
  <2>5. QED
    BY Zenon, <2>2, <2>3, <2>4
<1>8. no \in WrappingInt32
  <2>1. CASE y.recieve_isn
    BY <2>1, <1>3, <1>6, <1>7, WrapType
  <2>2. CASE ~y.recieve_isn
    <3>1. seg.ackno = 0
      BY Zenon DEF SegmentType
    <3>2. 0 \in WrappingInt32
      BY MaxIntAssumption DEF WrappingInt32
    <3>3. QED
      BY Zenon, <3>1, <3>2, <2>2
  <2>3. QED
    BY Zenon, <2>1, <2>2
<1>9. m = [seg EXCEPT !.ack = y.recieve_isn, !.ackno = no, !.win = win]
  BY Zenon DEF stamp
<1> DEFINE ack == y.recieve_isn
<1> HIDE DEF m, no, win, ack
<1>10. /\ m \in MessageType /\ m.seqno = seg.seqno /\ m.syn = seg.syn /\ m.fin = seg.fin
       /\ m.payload = seg.payload /\ m.ack = ack /\ m.ackno = no /\ m.win = win
  BY Zenon, <1>1, <1>5, <1>8, <1>9 DEF MessageType, SegmentType, ack
<1>11. Carries(m, c.sender)
  <2>1. length_in_sequence_space(m) = length_in_sequence_space(seg)
    BY Zenon, <1>10 DEF length_in_sequence_space
  <2>2. QED
    BY Zenon, <2>1, <1>10 DEF Carries
<1>12. Tells(m, y, p.isn, cap)
  <2>1. SUFFICES ASSUME m.ack
                 PROVE  \E a \in 0 .. Assembled(y) : /\ m.ackno = wrap(a, p.isn)
                                                     /\ a + m.win <= Edge(y, cap)
    BY Zenon DEF Tells
  <2>2. y.recieve_isn
    BY Zenon, <2>1, <1>10 DEF ack
  <2>3. /\ Assembled(y) \in 0 .. Assembled(y) /\ m.ackno = wrap(Assembled(y), p.isn)
        /\ Assembled(y) + m.win <= Edge(y, cap)
    BY <2>2, <1>3, <1>4, <1>5, <1>7, <1>10
  <2>4. QED
    BY Zenon, <2>3
<1>13. QED
  BY <1>10, <1>11, <1>12 DEF Message, m

\* The error mark of the outbound stream.
LEMMA ErrorSound ==
  ASSUME NEW x, SenderSound(x)
  PROVE  LET y == [x EXCEPT !.stream = set_error(@)]
         IN  /\ SenderSound(y) /\ SameControl(x, y) /\ y.next_seqno = x.next_seqno
             /\ y.fin_ack_index = x.fin_ack_index /\ y.segments_out = x.segments_out
             /\ y.stream.totoalWrite = x.stream.totoalWrite
             /\ y.stream.inputEnd = x.stream.inputEnd /\ y.stream.error = TRUE
<1> DEFINE st == set_error(x.stream)
           y == [x EXCEPT !.stream = st]
<1>1. /\ x \in SenderType /\ Waiting(x.stream) /\ Numbered(x) /\ Timed(x) /\ Windowed(x)
      /\ Tiled(x.cur_ack_index, x.seg_buffer, x.isn, x.fin_ack_index)
      /\ x.next_seqno = Start(x.cur_ack_index, x.seg_buffer, Len(x.seg_buffer) + 1)
      /\ x.wd_right_edge >= 1
  BY Zenon DEF SenderSound, Core
<1>2. /\ st \in StreamType /\ st.buffer = x.stream.buffer /\ st.capcity = x.stream.capcity
      /\ st.totoalWrite = x.stream.totoalWrite /\ st.totoalRead = x.stream.totoalRead
      /\ st.inputEnd = x.stream.inputEnd /\ st.error = TRUE
  BY Zenon, <1>1 DEF Waiting, StreamType, set_error
<1>3. Waiting(st) /\ (eof(st) <=> eof(x.stream))
  <2> HIDE DEF st
  <2>1. QED
    BY Zenon, <1>1, <1>2 DEF Waiting, eof, buffer_size
<1> HIDE DEF st
<1>4. /\ y \in SenderType /\ y.stream = st /\ y.isn = x.isn /\ y.next_seqno = x.next_seqno
      /\ y.cur_ack_index = x.cur_ack_index /\ y.fin_ack_index = x.fin_ack_index
      /\ y.seg_buffer = x.seg_buffer /\ y.wd_right_edge = x.wd_right_edge
      /\ y.segments_out = x.segments_out
      /\ y.RTO = x.RTO /\ y.retrans_num = x.retrans_num /\ y.timer = x.timer
  BY Zenon, <1>1, <1>2 DEF SenderType
<1> HIDE DEF y
<1>5. Numbered(y)
  BY Zenon, <1>1, <1>2, <1>3, <1>4 DEF Numbered
<1>6. Timed(y) /\ Windowed(y)
  BY Zenon, <1>1, <1>4 DEF Timed, Windowed
<1>7. SenderSound(y)
  BY <1>1, <1>3, <1>4, <1>5, <1>6 DEF SenderSound, Core
<1>8. SameControl(x, y)
  BY Zenon, <1>4 DEF SameControl
<1>9. QED
  BY Zenon, <1>2, <1>4, <1>7, <1>8 DEF y, st

-----------------------------------------------------------------------------

\* Facts that no proof below cites.
HIDE DEF MaxIntAssumption, WrapType, ConnectionAssumption, CarriesKept, LinkNumbers,
  WrapShift, ErrorSound

(* One endpoint, while a call to it runs. *)

\* Connection c of endpoint e and connection p of its peer, between which the
\* messages of N (from e) are in transit; the applications have read dl and el.
Good(e, c, p, N, dl, el) ==
  /\ Own(e, c, N)
  /\ SenderOf(peer(e), p.sender)
  /\ Link(c.sender, p.receiver, RecvCapacity[peer(e)], el)
  /\ Link(p.sender, c.receiver, RecvCapacity[e], dl)

\* The sender of an endpoint counts far below the sequence space.
LEMMA SenderBound ==
  ASSUME NEW e \in Endpoint, NEW x, SenderOf(e, x)
  PROVE  /\ SenderSound(x) /\ x.isn = Isn[e] /\ Carried(x)
         /\ x.stream.totoalWrite < UINT32_MAX
         /\ 2 * (x.stream.totoalWrite + 3) < MaxInt
<1>1. SenderSound(x) /\ x.isn = Isn[e] /\ x.stream.totoalWrite <= MaxBytes[e] /\ Carried(x)
  BY Zenon DEF SenderOf
<1>2. x.stream.totoalWrite \in Nat
  BY Zenon, <1>1, SenderNumbers
<1>3. /\ MaxBytes[e] \in Nat /\ MaxInt \in Nat /\ UINT32_MAX \in Nat
      /\ 2 * (MaxBytes[e] + 3) < MaxInt /\ MaxBytes[e] + 3 < UINT32_MAX
  BY Zenon, EndpointFacts
<1>4. QED
  BY <1>1, <1>2, <1>3

\* Only the two halves and the queue matter.
LEMMA GoodQueue ==
  ASSUME NEW e \in Endpoint, NEW c, NEW p, NEW N, NEW dl, NEW el, Good(e, c, p, N, dl, el),
         NEW d, DOMAIN d = ConnectionFields, d.sender = c.sender, d.receiver = c.receiver,
         d.segments_out \in Seq(MessageType),
         \A k \in DOMAIN d.segments_out :
            Message(d.segments_out[k], c.sender, c.receiver, Isn[peer(e)], RecvCapacity[e])
  PROVE  Good(e, d, p, N, dl, el)
  BY Zenon DEF Good, Own

\* The sender moves.
LEMMA GoodSender ==
  ASSUME NEW e \in Endpoint, NEW c, NEW p, NEW N, NEW dl, NEW el, Good(e, c, p, N, dl, el),
         NEW s, SenderOf(e, s), Ahead(c.sender, s),
         s.cur_ack_index <= Assembled(p.receiver),
         s.wd_right_edge > 1 => s.wd_right_edge <= Edge(p.receiver, RecvCapacity[peer(e)]),
         NEW d, d = [c EXCEPT !.sender = s]
  PROVE  Good(e, d, p, N, dl, el)
<1> DEFINE cap == RecvCapacity[e]
           isn == Isn[peer(e)]
<1>1. /\ DOMAIN c = ConnectionFields /\ SenderOf(e, c.sender) /\ c.segments_out \in Seq(MessageType)
      /\ \A k \in DOMAIN c.segments_out :
            Message(c.segments_out[k], c.sender, c.receiver, isn, cap)
      /\ \A m \in N : Message(m, c.sender, c.receiver, isn, cap)
      /\ SenderOf(peer(e), p.sender)
      /\ Link(c.sender, p.receiver, RecvCapacity[peer(e)], el)
      /\ Link(p.sender, c.receiver, cap, dl)
  BY Zenon DEF Good, Own
<1>2. /\ DOMAIN d = ConnectionFields /\ d.sender = s /\ d.receiver = c.receiver
      /\ d.segments_out = c.segments_out
  BY Zenon, <1>1 DEF ConnectionFields
<1>3. /\ peer(e) \in Endpoint /\ RecvCapacity[peer(e)] \in Nat /\ cap \in Nat
  BY Zenon, EndpointFacts
<1>4. /\ SenderSound(c.sender) /\ SenderSound(s) /\ SenderSound(p.sender)
      /\ s.stream.totoalWrite < UINT32_MAX /\ p.sender.stream.totoalWrite < UINT32_MAX
  BY <1>1, <1>3, SenderBound
<1> HIDE DEF cap, isn
<1>5. Link(s, p.receiver, RecvCapacity[peer(e)], el)
  BY Zenon, <1>1, <1>3, <1>4, LinkSender
<1>6. Assembled(c.receiver) \in Nat /\ Edge(c.receiver, cap) \in Nat
  BY Zenon, <1>1, <1>3, <1>4, LinkAssembled
<1>7. ASSUME NEW m, Message(m, c.sender, c.receiver, isn, cap)
      PROVE  Message(m, s, c.receiver, isn, cap)
  <2> DEFINE r == c.receiver
  <2>1. Assembled(r) <= Assembled(r) /\ Edge(r, cap) <= Edge(r, cap)
    BY <1>6
  <2>2. QED
    BY Zenon, <2>1, <1>4, <1>6, <1>7, MessageKept
<1>8. QED
  BY Zenon, <1>1, <1>2, <1>5, <1>7 DEF Good, Own, cap, isn

\* The receiver moves.
LEMMA GoodReceiver ==
  ASSUME NEW e \in Endpoint, NEW c, NEW p, NEW N, NEW dl, NEW el, Good(e, c, p, N, dl, el),
         NEW r, NEW fl, Link(p.sender, r, RecvCapacity[e], fl), Later(c.receiver, r),
         NEW d, d = [c EXCEPT !.receiver = r]
  PROVE  Good(e, d, p, N, fl, el)
<1> DEFINE cap == RecvCapacity[e]
           isn == Isn[peer(e)]
<1>1. /\ DOMAIN c = ConnectionFields /\ SenderOf(e, c.sender) /\ c.segments_out \in Seq(MessageType)
      /\ \A k \in DOMAIN c.segments_out :
            Message(c.segments_out[k], c.sender, c.receiver, isn, cap)
      /\ \A m \in N : Message(m, c.sender, c.receiver, isn, cap)
      /\ SenderOf(peer(e), p.sender)
      /\ Link(c.sender, p.receiver, RecvCapacity[peer(e)], el)
      /\ Link(p.sender, c.receiver, cap, dl)
  BY Zenon DEF Good, Own
<1>2. /\ DOMAIN d = ConnectionFields /\ d.sender = c.sender /\ d.receiver = r
      /\ d.segments_out = c.segments_out
  BY Zenon, <1>1 DEF ConnectionFields
<1>3. peer(e) \in Endpoint /\ cap \in Nat
  BY Zenon, EndpointFacts
<1>4. SenderSound(c.sender) /\ SenderSound(p.sender) /\ p.sender.stream.totoalWrite < UINT32_MAX
  BY Zenon, <1>1, <1>3, SenderBound
<1>5. Link(p.sender, r, cap, fl)
  BY Zenon
<1> HIDE DEF cap, isn
<1>6. /\ Assembled(c.receiver) \in Nat /\ Edge(c.receiver, cap) \in Nat
      /\ Assembled(r) \in Nat /\ Edge(r, cap) \in Nat
  BY <1>1, <1>3, <1>4, <1>5, LinkAssembled
<1>7. Assembled(c.receiver) <= Assembled(r) /\ Edge(c.receiver, cap) <= Edge(r, cap)
  BY <1>1, <1>3, <1>4, <1>5, LaterNumbers
<1>8. Ahead(c.sender, c.sender)
  BY <1>4, GrownAhead, SenderNumbers
<1>9. ASSUME NEW m, Message(m, c.sender, c.receiver, isn, cap)
      PROVE  Message(m, c.sender, r, isn, cap)
  BY Zenon, <1>4, <1>6, <1>7, <1>8, <1>9, MessageKept
<1>10. QED
  BY <1>1, <1>2, <1>5, <1>9 DEF Good, Own, cap, isn

\* A sequence of messages after another.
LEMMA MessagesConcat ==
  ASSUME NEW a \in Seq(MessageType), NEW b \in Seq(MessageType),
         NEW x, NEW y, NEW isn, NEW cap,
         \A k \in DOMAIN a : Message(a[k], x, y, isn, cap),
         \A k \in DOMAIN b : Message(b[k], x, y, isn, cap)
  PROVE  /\ a \o b \in Seq(MessageType)
         /\ \A k \in DOMAIN (a \o b) : Message((a \o b)[k], x, y, isn, cap)
<1>1. a \o b \in Seq(MessageType)
  OBVIOUS
<1>2. ASSUME NEW k \in DOMAIN (a \o b) PROVE Message((a \o b)[k], x, y, isn, cap)
  <2>1. /\ Len(a) \in Nat /\ Len(b) \in Nat /\ DOMAIN a = 1 .. Len(a) /\ DOMAIN b = 1 .. Len(b)
        /\ DOMAIN (a \o b) = 1 .. Len(a) + Len(b)
    OBVIOUS
  <2>2. CASE k <= Len(a)
    <3>1. k \in DOMAIN a /\ (a \o b)[k] = a[k]
      BY <2>1, <2>2, <1>2
    <3>2. QED
      BY Zenon, <3>1
  <2>3. CASE k > Len(a)
    <3>1. k - Len(a) \in DOMAIN b /\ (a \o b)[k] = b[k - Len(a)]
      BY <2>1, <2>3, <1>2
    <3>2. QED
      BY Zenon, <3>1
  <2>4. QED
    BY <2>1, <2>2, <2>3, <1>2
<1>3. QED
  BY Zenon, <1>1, <1>2

\* clean (tcp_connection.cc) sends what the sender has queued, and closes the
\* connection only when both streams are done.
LEMMA GoodClean ==
  ASSUME NEW e \in Endpoint, NEW c, NEW p, NEW N, NEW dl, NEW el, Good(e, c, p, N, dl, el)
  PROVE  LET d == clean(c)
         IN  /\ Good(e, d, p, N, dl, el) /\ d.sender.segments_out = <<>>
             /\ d.receiver = c.receiver /\ d.sender.stream = c.sender.stream
             /\ d.sender.next_seqno = c.sender.next_seqno
             /\ ~c.close => Closed(d)
             /\ ~c.sender.stream.inputEnd => d.close = c.close
<1> DEFINE x == c.sender
           out == x.segments_out
           st == [k \in 1 .. Len(out) |-> stamp(c, out[k])]
           o == c.segments_out \o st
           s == [x EXCEPT !.segments_out = <<>>]
           d0 == [c EXCEPT !.segments_out = o, !.sender = s]
           d == clean(c)
           cap == RecvCapacity[e]
           isn == Isn[peer(e)]
<1>1. /\ DOMAIN c = ConnectionFields /\ SenderOf(e, x) /\ c.segments_out \in Seq(MessageType)
      /\ \A k \in DOMAIN c.segments_out :
            Message(c.segments_out[k], x, c.receiver, isn, cap)
      /\ SenderOf(peer(e), p.sender)
      /\ Link(x, p.receiver, RecvCapacity[peer(e)], el)
      /\ Link(p.sender, c.receiver, cap, dl)
  BY Zenon DEF Good, Own
<1>2. peer(e) \in Endpoint /\ cap \in Nat
  BY Zenon, EndpointFacts
<1>3. /\ SenderSound(x) /\ Carried(x) /\ SenderSound(p.sender) /\ p.sender.isn = isn
      /\ p.sender.stream.totoalWrite < UINT32_MAX
  BY Zenon, <1>1, <1>2, SenderBound
<1>4. out \in Seq(SegmentType) /\ Len(out) \in Nat /\ DOMAIN out = 1 .. Len(out)
  <2>1. out \in Seq(SegmentType)
    BY Zenon, <1>3, SenderNumbers
  <2> HIDE DEF out
  <2>2. QED
    BY <2>1
<1>5. ASSUME NEW k \in 1 .. Len(out)
      PROVE  Message(stamp(c, out[k]), x, c.receiver, isn, cap)
  <2> DEFINE seg == out[k]
  <2>1. seg \in SegmentType /\ Carries(seg, x)
    BY <1>3, <1>4 DEF Carried
  <2> HIDE DEF seg
  <2>2. Message(stamp(c, seg), x, c.receiver, isn, cap)
    BY Zenon, <2>1, <1>1, <1>2, <1>3, StampMessage
  <2>3. QED
    BY Zenon, <2>2 DEF seg
<1>6. /\ st \in Seq(MessageType)
      /\ \A k \in DOMAIN st : Message(st[k], x, c.receiver, isn, cap)
  <2>1. \A k \in 1 .. Len(out) : stamp(c, out[k]) \in MessageType
    BY Zenon, <1>5 DEF Message
  <2>2. QED
    BY <2>1, <1>4, <1>5
<1>7. /\ o \in Seq(MessageType)
      /\ \A k \in DOMAIN o : Message(o[k], x, c.receiver, isn, cap)
  <2> HIDE DEF st, cap, isn, x
  <2>1. QED
    BY Zenon, <1>1, <1>6, MessagesConcat
<1>8. d = check_close(d0)
  BY Zenon DEF clean
<1>9. /\ SenderSound(s) /\ s.isn = x.isn /\ s.stream = x.stream
      /\ s.next_seqno = x.next_seqno /\ s.cur_ack_index = x.cur_ack_index
      /\ s.wd_right_edge = x.wd_right_edge /\ s.segments_out = <<>>
  <2> DEFINE empty == <<>>
  <2>1. empty \in Seq(SegmentType)
    OBVIOUS
  <2> HIDE DEF empty, x
  <2>2. LET y == [x EXCEPT !.segments_out = empty]
        IN  /\ SenderSound(y) /\ y.isn = x.isn /\ y.stream = x.stream
            /\ y.next_seqno = x.next_seqno /\ y.cur_ack_index = x.cur_ack_index
            /\ y.wd_right_edge = x.wd_right_edge /\ y.segments_out = empty
    BY <2>1, <1>3, QueueSound
  <2>3. QED
    BY Zenon, <2>2 DEF empty
<1> HIDE DEF st, o, s, x
<1>10. /\ DOMAIN d0 = ConnectionFields /\ d0.sender = s /\ d0.receiver = c.receiver
       /\ d0.segments_out = o /\ d0.close = c.close
  BY Zenon, <1>1 DEF ConnectionFields
<1> HIDE DEF d0, d
<1>11. Good(e, d0, p, N, dl, el)
  <2> DEFINE c1 == [c EXCEPT !.segments_out = o]
             d1 == [c1 EXCEPT !.sender = s]
  <2>1. /\ DOMAIN c1 = ConnectionFields /\ c1.sender = x /\ c1.receiver = c.receiver
        /\ c1.segments_out = o
    BY Zenon, <1>1 DEF ConnectionFields, x
  <2> HIDE DEF c1
  <2>2. Good(e, c1, p, N, dl, el)
    BY Zenon, <2>1, <1>7, GoodQueue DEF x, cap, isn
  <2>3. SenderOf(e, s) /\ Ahead(x, s)
    <3>1. Carried(s)
      <4>1. s.segments_out = <<>> /\ DOMAIN <<>> = {}
        BY <1>9
      <4>2. QED
        BY ONLY Zenon, <4>1 DEF Carried
    <3>2. x.next_seqno \in Nat
      BY Zenon, <1>3, SenderNumbers
    <3>3. Ahead(x, s)
      BY <3>2, <1>3, <1>9, GrownAhead
    <3>4. QED
      BY Zenon, <3>1, <3>3, <1>1, <1>9 DEF SenderOf
  <2>4. /\ s.cur_ack_index <= Assembled(p.receiver)
        /\ s.wd_right_edge > 1 => s.wd_right_edge <= Edge(p.receiver, RecvCapacity[peer(e)])
    BY Zenon, <1>1, <1>9 DEF Link
  <2>5. Good(e, d1, p, N, dl, el)
    BY <2>1, <2>2, <2>3, <2>4, GoodSender
  <2>6. /\ DOMAIN d1 = ConnectionFields /\ d1.sender = s /\ d1.receiver = c.receiver
        /\ d1.segments_out = o
    BY Zenon, <2>1 DEF ConnectionFields
  <2>7. Own(e, d1, N) /\ DOMAIN d0 = DOMAIN d1
    BY Zenon, <2>5, <2>6, <1>10 DEF Good
  <2> HIDE DEF d1
  <2>8. QED
    BY Zenon, <2>5, <2>6, <2>7, <1>10 DEF Good, Own
<1>12. /\ d.sender = s /\ d.receiver = c.receiver /\ d.segments_out = o
       /\ DOMAIN d = ConnectionFields
       /\ \/ d.close = c.close
          \/ stream_both_eof(d0)
  BY Zenon, <1>8, <1>10 DEF check_close, ConnectionFields
<1>13. Good(e, d, p, N, dl, el)
  BY Zenon, <1>10, <1>11, <1>12 DEF Good, Own
<1>14. stream_both_eof(d0) =>
          /\ inbound_stream(d).inputEnd /\ eof(d.sender.stream)
          /\ d.sender.next_seqno = d.sender.cur_ack_index
  <2>1. s.next_seqno \in Nat /\ s.cur_ack_index \in Nat
    BY Zenon, <1>9, SenderNumbers
  <2>2. QED
    BY <2>1, <1>10, <1>12 DEF stream_both_eof, inbound_stream, stream_out, bytes_in_flight
<1>15. ~c.close => Closed(d)
  BY Zenon, <1>12, <1>14 DEF Closed
<1>16. ~c.sender.stream.inputEnd => d.close = c.close
  BY Zenon, <1>9, <1>12, <1>14 DEF eof, x
<1>17. QED
  BY Zenon, <1>9, <1>12, <1>13, <1>15, <1>16 DEF d, x

\* A method of the sender that acknowledges nothing and moves no window.
LEMMA GoodMethod ==
  ASSUME NEW e \in Endpoint, NEW c, NEW p, NEW N, NEW dl, NEW el, Good(e, c, p, N, dl, el),
         NEW s, SenderSound(s), Carried(s), s.isn = c.sender.isn,
         s.cur_ack_index = c.sender.cur_ack_index, s.wd_right_edge = c.sender.wd_right_edge,
         Ahead(c.sender, s), s.stream.totoalWrite <= MaxBytes[e]
  PROVE  Good(e, [c EXCEPT !.sender = s], p, N, dl, el)
<1>1. SenderOf(e, c.sender) /\ Link(c.sender, p.receiver, RecvCapacity[peer(e)], el)
  BY Zenon DEF Good, Own
<1>2. SenderOf(e, s)
  BY Zenon, <1>1 DEF SenderOf
<1>3. /\ s.cur_ack_index <= Assembled(p.receiver)
      /\ s.wd_right_edge > 1 => s.wd_right_edge <= Edge(p.receiver, RecvCapacity[peer(e)])
  BY Zenon, <1>1 DEF Link
<1>4. QED
  BY Zenon, <1>2, <1>3, GoodSender

\* The sender's half of a connection.
LEMMA GoodHalf ==
  ASSUME NEW e \in Endpoint, NEW c, NEW p, NEW N, NEW dl, NEW el, Good(e, c, p, N, dl, el)
  PROVE  /\ DOMAIN c = ConnectionFields
         /\ SenderSound(c.sender) /\ Carried(c.sender)
         /\ c.sender.stream.totoalWrite <= MaxBytes[e]
         /\ c.sender.next_seqno \in Nat
         /\ c.sender.isn = Isn[e]
<1>1. DOMAIN c = ConnectionFields /\ SenderOf(e, c.sender)
  BY Zenon DEF Good, Own
<1>2. QED
  BY Zenon, <1>1, SenderNumbers DEF SenderOf

\* fill_window.
LEMMA GoodFill ==
  ASSUME NEW e \in Endpoint, NEW c, NEW p, NEW N, NEW dl, NEW el, Good(e, c, p, N, dl, el)
  PROVE  LET d == [c EXCEPT !.sender = fill_window(@)]
         IN  /\ Good(e, d, p, N, dl, el)
             /\ d.receiver = c.receiver /\ d.close = c.close
             /\ SameInput(c.sender, d.sender)
<1> DEFINE x == c.sender
           s == fill_window(x)
           d == [c EXCEPT !.sender = s]
<1>1. /\ DOMAIN c = ConnectionFields /\ SenderSound(x) /\ Carried(x)
      /\ x.stream.totoalWrite <= MaxBytes[e]
  BY Zenon, GoodHalf
<1>2. /\ SenderSound(s) /\ Grown(x, s) /\ SameInput(x, s) /\ SameControl(x, s) /\ Queued(x, s)
  BY Zenon, <1>1, FillSound
<1> HIDE DEF s
<1>3. /\ s.isn = x.isn /\ s.cur_ack_index = x.cur_ack_index /\ s.wd_right_edge = x.wd_right_edge
      /\ s.stream.totoalWrite = x.stream.totoalWrite /\ x.next_seqno <= s.next_seqno
  BY Zenon, <1>2 DEF SameControl, SameInput, Grown
<1>4. Ahead(x, s)
  BY Zenon, <1>1, <1>2, <1>3, GrownAhead
<1>5. Carried(s)
  BY <1>1, <1>2, <1>4, CarriedKept
<1>6. Good(e, d, p, N, dl, el)
  BY Zenon, <1>1, <1>2, <1>3, <1>4, <1>5, GoodMethod
<1>7. d.receiver = c.receiver /\ d.close = c.close /\ d.sender = s
  BY Zenon, <1>1 DEF ConnectionFields
<1>8. QED
  BY Zenon, <1>2, <1>6, <1>7 DEF s

\* tick of the sender.
LEMMA GoodTick ==
  ASSUME NEW e \in Endpoint, NEW c, NEW p, NEW N, NEW dl, NEW el, Good(e, c, p, N, dl, el),
         NEW ms \in Nat
  PROVE  LET d == [c EXCEPT !.sender = sender_tick(@, ms)]
         IN  /\ Good(e, d, p, N, dl, el)
             /\ d.receiver = c.receiver /\ d.close = c.close
             /\ SameInput(c.sender, d.sender)
<1> DEFINE x == c.sender
           s == sender_tick(x, ms)
           d == [c EXCEPT !.sender = s]
<1>1. /\ DOMAIN c = ConnectionFields /\ SenderSound(x) /\ Carried(x)
      /\ x.stream.totoalWrite <= MaxBytes[e] /\ x.next_seqno \in Nat
  BY Zenon, GoodHalf
<1>2. /\ SenderSound(s) /\ s.stream = x.stream /\ s.isn = x.isn
      /\ s.next_seqno = x.next_seqno /\ s.cur_ack_index = x.cur_ack_index
      /\ s.wd_right_edge = x.wd_right_edge /\ Queued(x, s)
  BY Zenon, <1>1, TickSound
<1> HIDE DEF s
<1>3. Ahead(x, s)
  <2>1. x.next_seqno <= s.next_seqno /\ s.stream.totoalWrite = x.stream.totoalWrite
    BY <1>1, <1>2
  <2>2. QED
    BY ONLY Zenon, <2>1, <1>1, <1>2, GrownAhead
<1>4. Carried(s)
  BY Zenon, <1>1, <1>2, <1>3, CarriedKept
<1>5. Good(e, d, p, N, dl, el)
  BY Zenon, <1>1, <1>2, <1>3, <1>4, GoodMethod
<1>6. d.receiver = c.receiver /\ d.close = c.close /\ d.sender = s
  BY Zenon, <1>1 DEF ConnectionFields
<1>7. QED
  BY Zenon, <1>2, <1>5, <1>6 DEF s, SameInput

\* send_empty_ack.
LEMMA GoodEmptyAck ==
  ASSUME NEW e \in Endpoint, NEW c, NEW p, NEW N, NEW dl, NEW el, Good(e, c, p, N, dl, el)
  PROVE  LET d == [c EXCEPT !.sender = send_empty_ack(@)]
         IN  /\ Good(e, d, p, N, dl, el)
             /\ d.receiver = c.receiver /\ d.close = c.close
             /\ SameInput(c.sender, d.sender)
<1> DEFINE x == c.sender
           s == send_empty_ack(x)
           d == [c EXCEPT !.sender = s]
<1>1. /\ DOMAIN c = ConnectionFields /\ SenderSound(x) /\ Carried(x)
      /\ x.stream.totoalWrite <= MaxBytes[e]
  BY Zenon, GoodHalf
<1>2. /\ SenderSound(s) /\ Ahead(x, s) /\ Carried(s) /\ s.stream = x.stream /\ SameControl(x, s)
  BY Zenon, <1>1, EmptyAckCarried
<1> HIDE DEF s
<1>3. s.isn = x.isn /\ s.cur_ack_index = x.cur_ack_index /\ s.wd_right_edge = x.wd_right_edge
  BY Zenon, <1>2 DEF SameControl
<1>4. Good(e, d, p, N, dl, el)
  BY Zenon, <1>1, <1>2, <1>3, GoodMethod
<1>5. d.receiver = c.receiver /\ d.close = c.close /\ d.sender = s
  BY Zenon, <1>1 DEF ConnectionFields
<1>6. QED
  BY Zenon, <1>2, <1>4, <1>5 DEF s, SameInput

\* ack_received, for an acknowledgment that the peer has given.
LEMMA GoodAck ==
  ASSUME NEW e \in Endpoint, NEW c, NEW p, NEW N, NEW dl, NEW el, Good(e, c, p, N, dl, el),
         NEW seg \in MessageType, seg.ack,
         Tells(seg, p.receiver, Isn[e], RecvCapacity[peer(e)])
  PROVE  LET d == [c EXCEPT !.sender = ack_received(@, seg.ackno, seg.win)]
         IN  /\ Good(e, d, p, N, dl, el)
             /\ d.receiver = c.receiver /\ d.close = c.close
             /\ SameInput(c.sender, d.sender)
<1> DEFINE x == c.sender
           y == p.receiver
           cap == RecvCapacity[peer(e)]
           s == ack_received(x, seg.ackno, seg.win)
           d == [c EXCEPT !.sender = s]
<1>1. /\ DOMAIN c = ConnectionFields /\ SenderSound(x) /\ Carried(x)
      /\ x.stream.totoalWrite <= MaxBytes[e] /\ x.next_seqno \in Nat /\ x.isn = Isn[e]
  BY Zenon, GoodHalf
<1>2. Link(x, y, cap, el) /\ SenderOf(e, x)
  BY Zenon DEF Good, Own
<1>3. cap \in Nat /\ MaxInt \in Nat
  BY Zenon, EndpointFacts
<1>4. x.stream.totoalWrite < UINT32_MAX /\ 2 * (x.stream.totoalWrite + 3) < MaxInt
  BY Zenon, <1>2, SenderBound
<1>5. seg.win \in Nat
  BY Zenon, MessageFields
<1>6. PICK ack \in 0 .. Assembled(y) : seg.ackno = wrap(ack, Isn[e]) /\ ack + seg.win <= Edge(y, cap)
  BY Zenon DEF Tells
<1> DEFINE win == seg.win
<1> HIDE DEF cap, y, win
<1>7. Assembled(y) \in Nat /\ Assembled(y) <= x.next_seqno /\ Edge(y, cap) \in Nat
  BY Zenon, <1>1, <1>2, <1>3, <1>4, LinkAssembled
<1>8. ack \in Nat /\ ack <= x.next_seqno /\ ack <= Assembled(y)
  BY ONLY <1>1, <1>6, <1>7
<1>9. 2 * (x.next_seqno - ack) <= MaxInt
  <2> DEFINE n == x.next_seqno
             w == x.stream.totoalWrite
  <2>1. w \in Nat /\ n <= w + 2
    <3>1. /\ x.next_seqno \in Nat /\ x.stream.totoalWrite \in Nat
          /\ x.stream.totoalRead \in Nat /\ x.stream.totoalRead <= x.stream.totoalWrite
          /\ x.next_seqno > 0 /\ x.fin_ack_index = NoFin =>
                x.next_seqno = x.stream.totoalRead + 1
          /\ x.fin_ack_index # NoFin => x.next_seqno = x.stream.totoalWrite + 2
      BY ONLY Zenon, <1>1, SenderNumbers
    <3>2. QED
      BY ONLY <3>1
  <2>2. n \in Nat /\ ack \in Nat /\ MaxInt \in Nat /\ 2 * (w + 3) < MaxInt
    BY ONLY Zenon, <1>1, <1>3, <1>4, <1>8
  <2> HIDE DEF n, w
  <2>3. 2 * (n - ack) <= MaxInt
    BY ONLY <2>1, <2>2
  <2>4. QED
    BY Zenon, <2>3 DEF n
<1>10. s = ack_received(x, wrap(ack, x.isn), win)
  BY Zenon, <1>1, <1>6 DEF win
<1>11. /\ SenderSound(s) /\ Grown(x, s) /\ SameInput(x, s) /\ s.isn = x.isn /\ Queued(x, s)
       /\ s.cur_ack_index <= max(x.cur_ack_index, ack)
       /\ s.wd_right_edge = x.wd_right_edge \/ s.wd_right_edge = ack + win
  <2> DEFINE t == ack_received(x, wrap(ack, x.isn), win)
  <2>1. /\ SenderSound(t) /\ Grown(x, t) /\ SameInput(x, t) /\ t.isn = x.isn /\ Queued(x, t)
        /\ t.cur_ack_index <= max(x.cur_ack_index, ack)
        /\ t.wd_right_edge = x.wd_right_edge \/ t.wd_right_edge = ack + win
    BY <1>1, <1>5, <1>8, <1>9, AckSound DEF win
  <2>2. QED
    BY Zenon, <2>1, <1>10
<1> HIDE DEF s
<1>12. x.next_seqno <= s.next_seqno /\ s.stream.totoalWrite = x.stream.totoalWrite
  BY Zenon, <1>11 DEF Grown, SameInput
<1>13. Ahead(x, s)
  BY Zenon, <1>1, <1>11, <1>12, GrownAhead
<1>14. Carried(s)
  BY Zenon, <1>1, <1>11, <1>13, CarriedKept
<1>15. SenderOf(e, s)
  BY Zenon, <1>1, <1>11, <1>12, <1>14 DEF SenderOf
<1>16. s.cur_ack_index <= Assembled(y)
  <2>1. x.cur_ack_index <= Assembled(y)
    BY Zenon, <1>2 DEF Link
  <2>2. x.cur_ack_index \in Nat /\ s.cur_ack_index \in Nat
    BY Zenon, <1>1, <1>11, SenderNumbers
  <2>3. s.cur_ack_index <= max(x.cur_ack_index, ack)
    BY Zenon, <1>11
  <2>4. QED
    BY ONLY <2>1, <2>2, <2>3, <1>7, <1>8 DEF max
<1>17. s.wd_right_edge > 1 => s.wd_right_edge <= Edge(y, cap)
  BY Zenon, <1>2, <1>6, <1>11 DEF Link, win
<1>18. Good(e, d, p, N, dl, el)
  BY Zenon, <1>13, <1>15, <1>16, <1>17, GoodSender DEF y, cap
<1>19. d.receiver = c.receiver /\ d.close = c.close /\ d.sender = s
  BY Zenon, <1>1 DEF ConnectionFields
<1>20. QED
  BY Zenon, <1>11, <1>18, <1>19 DEF s

\* The application writes, or ends its stream.
LEMMA GoodInput ==
  ASSUME NEW e \in Endpoint, NEW c, NEW p, NEW N, NEW dl, NEW el, Good(e, c, p, N, dl, el),
         ~c.sender.stream.inputEnd,
         NEW st, Waiting(st), st.totoalRead = c.sender.stream.totoalRead,
         st.totoalWrite <= MaxBytes[e]
  PROVE  LET s == [c.sender EXCEPT !.stream = st]
             d == [c EXCEPT !.sender = s]
         IN  /\ Good(e, d, p, N, dl, el)
             /\ d.receiver = c.receiver /\ d.close = c.close
             /\ d.sender.stream = st
<1> DEFINE x == c.sender
           s == [x EXCEPT !.stream = st]
           d == [c EXCEPT !.sender = s]
<1>1. DOMAIN c = ConnectionFields /\ SenderSound(x) /\ Carried(x) /\ x.next_seqno \in Nat
  BY Zenon, GoodHalf
<1>2. /\ SenderSound(s) /\ SameControl(x, s) /\ s.next_seqno = x.next_seqno
      /\ s.stream = st /\ s.segments_out = x.segments_out /\ s.fin_ack_index = NoFin
  BY Zenon, <1>1, InputSound
<1>3. x.fin_ack_index = NoFin /\ x.stream.totoalRead \in Nat
  BY Zenon, <1>1, SenderNumbers
<1> HIDE DEF s
<1>4. s.isn = x.isn /\ s.cur_ack_index = x.cur_ack_index /\ s.wd_right_edge = x.wd_right_edge
  BY Zenon, <1>2 DEF SameControl
<1>5. Ahead(x, s)
  <2>1. s.stream.totoalRead = x.stream.totoalRead
    BY Zenon, <1>2
  <2>2. QED
    BY ONLY <2>1, <1>1, <1>2, <1>3, <1>4 DEF Ahead
<1>6. Queued(x, s)
  BY Zenon, <1>2 DEF Queued, Supplied
<1>7. Carried(s)
  BY Zenon, <1>1, <1>2, <1>5, <1>6, CarriedKept
<1>8. Good(e, d, p, N, dl, el)
  BY Zenon, <1>2, <1>4, <1>5, <1>7, GoodMethod
<1>9. d.receiver = c.receiver /\ d.close = c.close /\ d.sender = s
  BY Zenon, <1>1 DEF ConnectionFields
<1>10. QED
  BY Zenon, <1>2, <1>8, <1>9 DEF s
=============================================================================
