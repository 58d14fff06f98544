---------------------------- MODULE TCPSystemProofs ----------------------------
(***************************************************************************)
(* The safety properties of two connections, for any capacities, payload   *)
(* size, window and timeouts, and any number of bytes below half of the    *)
(* sequence space.  The lemmas Fill-, Write-, End-, Shutdown-, Receive-    *)
(* and TickDone say that each call ends in a Good endpoint; from them come *)
(* the inductive invariant IInv, what it implies, and that each direction  *)
(* is a reliable byte stream.                                              *)
(***************************************************************************)
EXTENDS TCPEndpointProofs, TCPStreams

-----------------------------------------------------------------------------

\* Facts that no proof below cites.
HIDE DEF PayloadAssumption, TimeoutAssumption, DivMod, DivModUnique, MultipleGap,
  SameWrap, CandidateNear, UnwrapChoice, UnwrapInverts, SliceType, SliceConcat, CutSlice,
  PieceLength, NodeIsPiece, TrimLeftPiece, TrimRightPiece, MergePieces, AbsorbPieces,
  WriteSlice, EndKeepsCore, InsertKeepsCore, InsertNothing, PushKeepsCore, ReadKeepsCore,
  NumbersSlice, SliceOfNumbers, GrowthKeepsCore, NatInduction, DownwardNatInduction,
  GeneralNatInduction, SmallestNatural, RecursiveFcnOfNat, NatInductiveDef,
  RecursiveFcnOfNatType, NatInductiveDefType, RecursiveFcnOfNatUnique, NatInductiveUnique,
  FiniteNatInductiveDef, FiniteNatInductiveDefType, FiniteNatInductiveUnique,
  EmptyIsWellFounded, IsWellFoundedOnSubset, IsWellFoundedOnSubrelation, WFMin, MinWF,
  WellFoundedIsIrreflexive, WellFoundedIsAsymmetric, WFSetLessThanIrreflexive,
  SetLessTransitive, WFInduction, WFDefOnUnique, WFInductiveDefLemma,
  TransitiveClosureThm, TransitiveClosureMinimal, TCTCTC, TCRTC, RTCTC,
  TransitiveClosureChopLast, TransitiveClosureWF, WFInductiveDef, WFInductiveDefType,
  NatLessThanWellFounded, PreImageWellFounded, WFLexPairOrdering, WFLexProductOrdering,
  LeastElement, AckedCount, Division, SendDataParts, SentMonotone, CutOne, CutTiled,
  FlightItems, FlightEnd, TiledConcat, TiledDrop, TiledFin, FreshSegment, SynTiled,
  ReadWaiting, SuppliedAppend, SuppliedConcat, SenderFields, SynCore, FillFromStreamCore,
  FillCore, PopCore, EdgeCore, AckSound, QueueSound, InputSound, FillSound, TickSound,
  EmptyAckSound, ConnectionAssumption, SegmentLength, SegmentFields, FlightCarries,
  CarriesKept, CarriedKept, EmptyCarries, EmptyAckCarried, LaterNumbers, LinkSender,
  LinkReassembler, WrapShift, LinkLearn, MessageFields, SegmentPlace, MessageKept,
  StampMessage, GoodSender, MessagesConcat

(* One call of a TCPConnection, from Good to Done. *)

\* A call has ended: endpoint e is now d.
Done(e, d, p, N, dl, el) ==
  Good(e, d, p, N, dl, el) /\ d.sender.segments_out = <<>> /\ Closed(d)

\* fill_window and what follows it.
LEMMA FillDone ==
  ASSUME NEW e \in Endpoint, NEW c, NEW p, NEW N, NEW dl, NEW el, Good(e, c, p, N, dl, el),
         ~c.close
  PROVE  LET d == clean([c EXCEPT !.sender = fill_window(@)])
         IN  /\ Done(e, d, p, N, dl, el) /\ d.receiver = c.receiver
             /\ SameInput(c.sender, d.sender)
             /\ ~c.sender.stream.inputEnd => ~d.close
<1> DEFINE b == [c EXCEPT !.sender = fill_window(@)]
           d == clean(b)
<1>1. /\ Good(e, b, p, N, dl, el) /\ b.receiver = c.receiver /\ b.close = c.close
      /\ SameInput(c.sender, b.sender)
  BY Zenon, GoodFill
<1> HIDE DEF b
<1>2. /\ Good(e, d, p, N, dl, el) /\ d.sender.segments_out = <<>>
      /\ d.receiver = b.receiver /\ d.sender.stream = b.sender.stream
      /\ ~b.close => Closed(d)
      /\ ~b.sender.stream.inputEnd => d.close = b.close
  BY Zenon, <1>1, GoodClean
<1> HIDE DEF d
<1>3. SameInput(c.sender, d.sender) /\ b.sender.stream.inputEnd = c.sender.stream.inputEnd
  BY <1>1, <1>2 DEF SameInput
<1>4. QED
  BY <1>1, <1>2, <1>3 DEF Done, d, b

\* write (tcp_connection.cc): the next n bytes.
LEMMA WriteDone ==
  ASSUME NEW e \in Endpoint, NEW c, NEW p, NEW N, NEW dl, NEW el, Good(e, c, p, N, dl, el),
         ~c.close, ~c.sender.stream.inputEnd,
         NEW n \in Nat, c.sender.stream.totoalWrite + n <= MaxBytes[e]
  PROVE  LET d == connection_write(c, [k \in 1 .. n |-> c.sender.stream.totoalWrite + k])
         IN  /\ Done(e, d, p, N, dl, el) /\ d.receiver = c.receiver
             /\ ~d.close /\ ~d.sender.stream.inputEnd
             /\ c.sender.stream.totoalWrite <= d.sender.stream.totoalWrite
             /\ d.sender.stream.totoalWrite <= c.sender.stream.totoalWrite + n
<1> DEFINE st == c.sender.stream
           data == [k \in 1 .. n |-> st.totoalWrite + k]
           new == stream_write(st, data)
           s == [c.sender EXCEPT !.stream = new]
           b == [c EXCEPT !.sender = s]
           d == clean([b EXCEPT !.sender = fill_window(@)])
<1>1. DOMAIN c = ConnectionFields /\ SenderSound(c.sender)
  BY Zenon, GoodHalf
<1>2. Waiting(st) /\ st.totoalWrite \in Nat
  BY Zenon, <1>1, SenderNumbers DEF SenderSound, Core
<1>3. /\ Waiting(new) /\ new.totoalRead = st.totoalRead /\ new.inputEnd = st.inputEnd
      /\ st.totoalWrite <= new.totoalWrite /\ new.totoalWrite <= st.totoalWrite + n
  <2> HIDE DEF st
  <2>1. QED
    BY Zenon, <1>2, WriteWaiting
<1>4. new.totoalWrite <= MaxBytes[e]
  <2>1. new.totoalWrite \in Nat
    BY Zenon, <1>3 DEF Waiting, StreamType
  <2>2. MaxBytes[e] \in Nat /\ n \in Nat /\ st.totoalWrite + n <= MaxBytes[e]
    BY Zenon, EndpointFacts
  <2> HIDE DEF new, st
  <2>3. QED
    BY ONLY <2>1, <2>2, <1>2, <1>3
<1>5. connection_write(c, data) = d
  <2>1. [c EXCEPT !.sender = fill_window(s)] = [b EXCEPT !.sender = fill_window(b.sender)]
    <3> HIDE DEF s
    <3>1. b.sender = s
      BY Zenon, <1>1 DEF ConnectionFields
    <3>2. QED
      BY Zenon, <3>1, <1>1 DEF ConnectionFields
  <2>2. QED
    BY Zenon, <2>1 DEF connection_write
<1> HIDE DEF new, data
<1>6. /\ Good(e, b, p, N, dl, el) /\ b.receiver = c.receiver /\ b.close = c.close
      /\ b.sender.stream = new
  <2>1. Waiting(new) /\ new.totoalRead = c.sender.stream.totoalRead
    BY Zenon, <1>3
  <2>2. QED
    BY <2>1, <1>4, GoodInput
<1> HIDE DEF b
<1>7. /\ Done(e, d, p, N, dl, el) /\ d.receiver = b.receiver
      /\ SameInput(b.sender, d.sender) /\ (~b.sender.stream.inputEnd => ~d.close)
  BY <1>6, FillDone
<1> HIDE DEF d
<1>8. d.sender.stream.totoalWrite = new.totoalWrite /\ d.sender.stream.inputEnd = new.inputEnd
  BY Zenon, <1>6, <1>7 DEF SameInput
<1>9. QED
  BY <1>3, <1>5, <1>6, <1>7, <1>8 DEF data

\* end_input_stream.
LEMMA EndDone ==
  ASSUME NEW e \in Endpoint, NEW c, NEW p, NEW N, NEW dl, NEW el, Good(e, c, p, N, dl, el),
         ~c.close, ~c.sender.stream.inputEnd
  PROVE  LET d == end_input_stream(c)
         IN  /\ Done(e, d, p, N, dl, el) /\ d.receiver = c.receiver
             /\ d.sender.stream.inputEnd = TRUE
             /\ d.sender.stream.totoalWrite = c.sender.stream.totoalWrite
<1> DEFINE st == c.sender.stream
           new == end_input(st)
           s == [c.sender EXCEPT !.stream = new]
           b == [c EXCEPT !.sender = s]
           d == clean([b EXCEPT !.sender = fill_window(@)])
<1>1. /\ DOMAIN c = ConnectionFields /\ SenderSound(c.sender)
      /\ st.totoalWrite <= MaxBytes[e]
  BY Zenon, GoodHalf
<1>2. Waiting(st)
  BY Zenon, <1>1 DEF SenderSound, Core
<1>3. /\ new \in StreamType /\ new.buffer = st.buffer /\ new.capcity = st.capcity
      /\ new.totoalRead = st.totoalRead /\ new.totoalWrite = st.totoalWrite
      /\ new.inputEnd = TRUE
  BY Zenon, <1>2 DEF Waiting, StreamType, end_input
<1>4. end_input_stream(c) = d
  <2>1. [c EXCEPT !.sender = fill_window(s)] = [b EXCEPT !.sender = fill_window(b.sender)]
    <3> HIDE DEF s
    <3>1. b.sender = s
      BY Zenon, <1>1 DEF ConnectionFields
    <3>2. QED
      BY Zenon, <3>1, <1>1 DEF ConnectionFields
  <2>2. QED
    BY Zenon, <2>1 DEF end_input_stream
<1> HIDE DEF new
<1>5. Waiting(new)
  BY Zenon, <1>2, <1>3 DEF Waiting
<1>6. /\ Good(e, b, p, N, dl, el) /\ b.receiver = c.receiver /\ b.close = c.close
      /\ b.sender.stream = new
  BY <1>1, <1>3, <1>5, GoodInput
<1> HIDE DEF b
<1>7. Done(e, d, p, N, dl, el) /\ d.receiver = b.receiver /\ SameInput(b.sender, d.sender)
  BY Zenon, <1>6, FillDone
<1> HIDE DEF d
<1>8. d.sender.stream.totoalWrite = new.totoalWrite /\ d.sender.stream.inputEnd = new.inputEnd
  BY Zenon, <1>6, <1>7 DEF SameInput
<1>9. QED
  BY <1>3, <1>4, <1>6, <1>7, <1>8

\* bad_shutdown (tcp_connection.cc): both streams get their error mark.
LEMMA ShutdownDone ==
  ASSUME NEW e \in Endpoint, NEW c, NEW p, NEW N, NEW dl, NEW el, Good(e, c, p, N, dl, el),
         c.sender.segments_out = <<>>, NEW send_rst \in BOOLEAN
  PROVE  LET d == bad_shutdown(c, send_rst)
         IN  /\ Done(e, d, p, N, dl, el) /\ Later(c.receiver, d.receiver)
             /\ d.sender.stream.totoalWrite = c.sender.stream.totoalWrite
             /\ d.sender.stream.inputEnd = c.sender.stream.inputEnd
<1> DEFINE x == c.sender
           y == c.receiver
           w == [y.reassembler EXCEPT !.outputStream = set_error(@)]
           r == [y EXCEPT !.reassembler = w]
           s == [x EXCEPT !.stream = set_error(@)]
           rst == [EmptySegment EXCEPT !.rst = TRUE, !.seqno = wrap(x.next_seqno, x.isn)]
           o == IF send_rst THEN Append(c.segments_out, rst) ELSE c.segments_out
           d == bad_shutdown(c, send_rst)
           isn == Isn[peer(e)]
           cap == RecvCapacity[e]
<1>1. /\ DOMAIN c = ConnectionFields /\ SenderSound(x) /\ Carried(x)
      /\ x.stream.totoalWrite <= MaxBytes[e] /\ x.next_seqno \in Nat
  BY Zenon, GoodHalf
<1>2. /\ Link(p.sender, y, cap, dl) /\ SenderOf(peer(e), p.sender)
      /\ c.segments_out \in Seq(MessageType)
      /\ \A k \in DOMAIN c.segments_out :
            Message(c.segments_out[k], x, y, isn, cap)
  BY Zenon DEF Good, Own
<1>3. peer(e) \in Endpoint /\ cap \in Nat
  BY Zenon, EndpointFacts
<1>4. SenderSound(p.sender) /\ p.sender.stream.totoalWrite < UINT32_MAX
  BY Zenon, <1>2, <1>3, SenderBound
<1>5. Link(p.sender, r, cap, dl) /\ Later(y, r)
  <2> HIDE DEF y, cap
  <2>1. QED
    BY Zenon, <1>2, <1>3, <1>4, LinkError
<1>6. /\ SenderSound(s) /\ SameControl(x, s) /\ s.next_seqno = x.next_seqno
      /\ s.fin_ack_index = x.fin_ack_index /\ s.segments_out = x.segments_out
      /\ s.stream.totoalWrite = x.stream.totoalWrite
      /\ s.stream.inputEnd = x.stream.inputEnd /\ s.stream.error = TRUE
  <2> HIDE DEF x
  <2>1. QED
    BY Zenon, <1>1, ErrorSound
<1>7. /\ DOMAIN d = ConnectionFields /\ d.sender = s /\ d.receiver = r /\ d.close = TRUE
      /\ d.segments_out = o
  <2>1. /\ DOMAIN y = ReceiverFields /\ "reassembler" \in ReceiverFields
    BY Zenon, <1>2 DEF Link, ReceiverFields
  <2>2. DOMAIN y.reassembler = Fields /\ "outputStream" \in Fields
    BY Zenon, <1>2 DEF Link, ReassemblerCore, Fields
  <2>3. QED
    BY Zenon, <2>1, <2>2, <1>1 DEF bad_shutdown, with_inbound, inbound_stream, stream_out, ConnectionFields
<1>8. Message(rst, x, y, isn, cap) /\ rst \in MessageType
  <2>1. wrap(x.next_seqno, x.isn) \in WrappingInt32 /\ 0 \in WrappingInt32
    <3>1. x.isn \in WrappingInt32
      BY Zenon, <1>1, SenderNumbers
    <3>2. 0 \in WrappingInt32
      BY MaxIntAssumption DEF WrappingInt32
    <3>3. QED
      BY <3>1, <3>2, <1>1, WrapType
  <2> DEFINE v == wrap(x.next_seqno, x.isn)
             empty == EmptySegment
  <2>2. empty \in MessageType /\ empty.ack = FALSE
    <3> DEFINE none == <<>>
    <3>1. none \in Seq(Nat)
      OBVIOUS
    <3> HIDE DEF none
    <3>2. empty = [seqno |-> 0, ack |-> FALSE, ackno |-> 0, win |-> 0,
                   syn |-> FALSE, fin |-> FALSE, rst |-> FALSE, payload |-> none]
      BY Zenon DEF EmptySegment, none
    <3>3. QED
      BY <3>1, <3>2, <2>1 DEF MessageType
  <2>3. rst = [empty EXCEPT !.rst = TRUE, !.seqno = v]
    BY Zenon
  <2> HIDE DEF v, empty, rst
  <2>4. rst \in MessageType /\ rst.rst = TRUE /\ rst.ack = FALSE
    BY Zenon, <2>1, <2>2, <2>3 DEF MessageType, v
  <2>5. QED
    BY Zenon, <2>4 DEF Message, Tells
<1> HIDE DEF rst, r, s, w, d, x, y
<1>9. /\ o \in Seq(MessageType)
      /\ \A k \in DOMAIN o : Message(o[k], x, y, isn, cap)
  <2> DEFINE a == c.segments_out
  <2> HIDE DEF a, isn, cap
  <2>1. a \in Seq(MessageType) /\ \A k \in DOMAIN a : Message(a[k], x, y, isn, cap)
    BY Zenon, <1>2 DEF a
  <2>2. /\ Append(a, rst) \in Seq(MessageType)
        /\ \A k \in DOMAIN Append(a, rst) : Message(Append(a, rst)[k], x, y, isn, cap)
    <3>1. Append(a, rst) \in Seq(MessageType)
      BY <2>1, <1>8
    <3>2. ASSUME NEW k \in DOMAIN Append(a, rst)
          PROVE  (k \in DOMAIN a /\ Append(a, rst)[k] = a[k]) \/ Append(a, rst)[k] = rst
      <4>1. Len(a) \in Nat /\ DOMAIN a = 1 .. Len(a) /\ DOMAIN Append(a, rst) = 1 .. Len(a) + 1
        BY ONLY <2>1
      <4>2. k \in 1 .. Len(a) \/ k = Len(a) + 1
        BY ONLY <3>2, <4>1
      <4>3. /\ \A i \in 1 .. Len(a) : Append(a, rst)[i] = a[i]
            /\ Append(a, rst)[Len(a) + 1] = rst
        BY ONLY <2>1
      <4>4. QED
        BY ONLY Zenon, <4>1, <4>2, <4>3
    <3>3. QED
      BY <3>1, <3>2, <2>1, <1>8
  <2>3. QED
    BY Zenon, <2>1, <2>2 DEF a
<1> HIDE DEF o
<1>10. s.isn = x.isn /\ s.cur_ack_index = x.cur_ack_index /\ s.wd_right_edge = x.wd_right_edge
  BY Zenon, <1>6 DEF SameControl
<1>11. Ahead(x, s)
  BY <1>1, <1>6, <1>10, GrownAhead
<1>12. Carried(s)
  <2>1. s.segments_out = <<>>
    BY Zenon, <1>6 DEF x
  <2>2. QED
    BY <2>1 DEF Carried
<1> DEFINE b1 == [c EXCEPT !.segments_out = o]
           b2 == [b1 EXCEPT !.receiver = r]
           b3 == [b2 EXCEPT !.sender = s]
<1>13. /\ DOMAIN b1 = ConnectionFields /\ b1.sender = x /\ b1.receiver = y /\ b1.segments_out = o
  BY Zenon, <1>1 DEF ConnectionFields, x, y
<1> HIDE DEF b1
<1>14. Good(e, b1, p, N, dl, el)
  BY <1>9, <1>13, GoodQueue DEF x, y, isn, cap
<1>15. Good(e, b2, p, N, dl, el)
  BY Zenon, <1>5, <1>13, <1>14, GoodReceiver DEF cap
<1>16. /\ DOMAIN b2 = ConnectionFields /\ b2.sender = x /\ b2.receiver = r /\ b2.segments_out = o
  BY Zenon, <1>13 DEF ConnectionFields
<1> HIDE DEF b2
<1>17. Good(e, b3, p, N, dl, el)
  BY <1>1, <1>6, <1>10, <1>11, <1>12, <1>15, <1>16, GoodMethod
<1>18. /\ DOMAIN b3 = ConnectionFields /\ b3.sender = s /\ b3.receiver = r /\ b3.segments_out = o
  BY Zenon, <1>16 DEF ConnectionFields
<1> HIDE DEF b3
<1>19. Good(e, d, p, N, dl, el)
  BY Zenon, <1>7, <1>17, <1>18 DEF Good, Own
<1>20. Closed(d) /\ d.sender.segments_out = <<>>
  BY <1>6, <1>7 DEF Closed, x
<1>21. QED
  BY <1>5, <1>6, <1>7, <1>19, <1>20 DEF Done, d, x, y

\* idle, close and linger are not part of Good.
LEMMA GoodFlags ==
  ASSUME NEW e \in Endpoint, NEW c, NEW p, NEW N, NEW dl, NEW el, Good(e, c, p, N, dl, el),
         NEW d, DOMAIN d = ConnectionFields, d.sender = c.sender, d.receiver = c.receiver,
         d.segments_out = c.segments_out
  PROVE  Good(e, d, p, N, dl, el)
  BY Zenon DEF Good, Own

\* segment_received (tcp_connection.cc), for a message of the peer.
LEMMA ReceiveDone ==
  ASSUME NEW e \in Endpoint, NEW c, NEW p, NEW N, NEW dl, NEW el, Good(e, c, p, N, dl, el),
         ~c.close, c.sender.segments_out = <<>>,
         NEW seg, Message(seg, p.sender, p.receiver, Isn[e], RecvCapacity[peer(e)])
  PROVE  LET d == connection_segment_received(c, seg)
         IN  /\ Done(e, d, p, N, dl, el) /\ Later(c.receiver, d.receiver)
             /\ d.sender.stream.totoalWrite = c.sender.stream.totoalWrite
             /\ d.sender.stream.inputEnd = c.sender.stream.inputEnd
<1> DEFINE c1 == [c EXCEPT !.idle = 0]
           r == receiver_segment_received(c1.receiver, seg)
           b == [c1 EXCEPT !.receiver = r]
           c2 == decide_linger(b)
           c3 == IF seg.ack THEN [c2 EXCEPT !.sender = ack_received(@, seg.ackno, seg.win)] ELSE c2
           c4 == IF length_in_sequence_space(seg) > 0
                 THEN [c3 EXCEPT !.sender = send_empty_ack(@)] ELSE c3
           d == connection_segment_received(c, seg)
<1>1. DOMAIN c = ConnectionFields
  BY Zenon, GoodHalf
<1>2. /\ DOMAIN c1 = ConnectionFields /\ c1.sender = c.sender /\ c1.receiver = c.receiver
      /\ c1.segments_out = c.segments_out /\ c1.close = c.close
  BY Zenon, <1>1 DEF ConnectionFields
<1>3. d = IF seg.rst THEN bad_shutdown(c1, FALSE) ELSE clean(c4)
  BY Zenon DEF connection_segment_received, answer
<1>4. /\ seg \in MessageType /\ (~seg.rst => Carries(seg, p.sender))
      /\ Tells(seg, p.receiver, Isn[e], RecvCapacity[peer(e)])
  BY Zenon DEF Message
<1> HIDE DEF c1, d
<1>5. Good(e, c1, p, N, dl, el)
  BY Zenon, <1>2, GoodFlags
<1>6. CASE seg.rst
  <2>1. c1.sender.segments_out = <<>> /\ d = bad_shutdown(c1, FALSE) /\ FALSE \in BOOLEAN
    BY <1>2, <1>3, <1>6
  <2>2. /\ Done(e, d, p, N, dl, el) /\ Later(c1.receiver, d.receiver)
        /\ d.sender.stream.totoalWrite = c1.sender.stream.totoalWrite
        /\ d.sender.stream.inputEnd = c1.sender.stream.inputEnd
    BY Zenon, <2>1, <1>5, ShutdownDone
  <2>3. QED
    BY Zenon, <2>2, <1>2 DEF d
<1>7. CASE ~seg.rst
  <2>1. Link(p.sender, c1.receiver, RecvCapacity[e], dl) /\ SenderOf(peer(e), p.sender)
    BY Zenon, <1>5 DEF Good
  <2>2. peer(e) \in Endpoint /\ RecvCapacity[e] \in Nat
    BY EndpointFacts
  <2>3. /\ SenderSound(p.sender) /\ p.sender.stream.totoalWrite < UINT32_MAX
        /\ 2 * (p.sender.stream.totoalWrite + 3) < MaxInt
    BY Zenon, <2>1, <2>2, SenderBound
  <2>4. Link(p.sender, r, RecvCapacity[e], dl) /\ Later(c1.receiver, r)
    <3> DEFINE cap == RecvCapacity[e]
    <3> HIDE DEF cap
    <3>1. Link(p.sender, c1.receiver, cap, dl) /\ cap \in Nat
      BY Zenon, <2>1, <2>2 DEF cap
    <3>2. Link(p.sender, r, cap, dl) /\ Later(c1.receiver, r)
      BY <3>1, <2>3, <1>4, <1>7, LinkReceive
    <3>3. QED
      BY Zenon, <3>2 DEF cap
  <2> HIDE DEF r
  <2>5. Good(e, b, p, N, dl, el)
    BY Zenon, <2>4, <1>5, GoodReceiver
  <2>6. /\ DOMAIN b = ConnectionFields /\ b.sender = c.sender /\ b.receiver = r
        /\ b.segments_out = c.segments_out /\ b.close = c.close
    BY Zenon, <1>2 DEF ConnectionFields
  <2> HIDE DEF b
  <2>7. /\ DOMAIN c2 = ConnectionFields /\ c2.sender = b.sender /\ c2.receiver = b.receiver
        /\ c2.segments_out = b.segments_out /\ c2.close = b.close
    BY Zenon, <2>6 DEF decide_linger, ConnectionFields
  <2> HIDE DEF c2
  <2>8. Good(e, c2, p, N, dl, el)
    BY Zenon, <2>5, <2>7, GoodFlags
  <2>9. /\ Good(e, c3, p, N, dl, el) /\ c3.receiver = c2.receiver /\ c3.close = c2.close
        /\ SameInput(c2.sender, c3.sender)
    <3>1. CASE seg.ack
      <4> DEFINE f == [c2 EXCEPT !.sender = ack_received(@, seg.ackno, seg.win)]
      <4>1. /\ Good(e, f, p, N, dl, el) /\ f.receiver = c2.receiver /\ f.close = c2.close
            /\ SameInput(c2.sender, f.sender)
        BY <3>1, <2>8, <1>4, GoodAck
      <4>2. c3 = f
        BY Zenon, <3>1
      <4> HIDE DEF f, c3
      <4>3. QED
        BY Zenon, <4>1, <4>2
    <3>2. CASE ~seg.ack
      BY Zenon, <3>2, <2>8 DEF SameInput
    <3>3. QED
      BY Zenon, <3>1, <3>2
  <2> HIDE DEF c3
  <2>10. /\ Good(e, c4, p, N, dl, el) /\ c4.receiver = c3.receiver /\ c4.close = c3.close
         /\ SameInput(c3.sender, c4.sender)
    <3>1. CASE length_in_sequence_space(seg) > 0
      <4> DEFINE f == [c3 EXCEPT !.sender = send_empty_ack(@)]
      <4>1. /\ Good(e, f, p, N, dl, el) /\ f.receiver = c3.receiver /\ f.close = c3.close
            /\ SameInput(c3.sender, f.sender)
        BY Zenon, <2>9, GoodEmptyAck
      <4>2. c4 = f
        BY Zenon, <3>1
      <4> HIDE DEF f, c4
      <4>3. QED
        BY <4>1, <4>2
    <3>2. CASE ~(length_in_sequence_space(seg) > 0)
      BY Zenon, <3>2, <2>9 DEF SameInput
    <3>3. QED
      BY Zenon, <3>1, <3>2
  <2> HIDE DEF c4
  <2>11. d = clean(c4)
    BY Zenon, <1>3, <1>7
  <2>12. /\ Good(e, d, p, N, dl, el) /\ d.sender.segments_out = <<>>
         /\ d.receiver = c4.receiver /\ d.sender.stream = c4.sender.stream
         /\ ~c4.close => Closed(d)
    BY <2>10, <2>11, GoodClean
  <2>13. d.receiver = r /\ ~c4.close
    BY <2>6, <2>7, <2>9, <2>10, <2>12, <1>2
  <2>14. /\ d.sender.stream.totoalWrite = c.sender.stream.totoalWrite
         /\ d.sender.stream.inputEnd = c.sender.stream.inputEnd
    BY <2>6, <2>7, <2>9, <2>10, <2>12 DEF SameInput
  <2>15. QED
    BY <2>4, <2>12, <2>13, <2>14, <1>2 DEF Done, d
<1>8. QED
  BY Zenon, <1>6, <1>7

\* A receiver that did nothing.
LEMMA GoodLater ==
  ASSUME NEW e \in Endpoint, NEW c, NEW p, NEW N, NEW dl, NEW el, Good(e, c, p, N, dl, el)
  PROVE  Later(c.receiver, c.receiver)
<1>1. /\ Link(p.sender, c.receiver, RecvCapacity[e], dl) /\ SenderOf(peer(e), p.sender)
  BY Zenon DEF Good
<1>2. peer(e) \in Endpoint /\ RecvCapacity[e] \in Nat
  BY Zenon, EndpointFacts
<1>3. SenderSound(p.sender) /\ p.sender.stream.totoalWrite < UINT32_MAX
  BY <1>1, <1>2, SenderBound
<1>4. stream_out(c.receiver).totoalRead \in Nat /\ stream_out(c.receiver).totoalWrite \in Nat
  BY <1>1, <1>2, <1>3, LinkNumbers
<1>5. QED
  BY <1>4 DEF Later

\* tick (tcp_connection.cc).
LEMMA TickDone ==
  ASSUME NEW e \in Endpoint, NEW c, NEW p, NEW N, NEW dl, NEW el, Good(e, c, p, N, dl, el),
         ~c.close, c.sender.segments_out = <<>>, NEW ms \in Nat
  PROVE  LET d == connection_tick(c, ms)
         IN  /\ Done(e, d, p, N, dl, el) /\ Later(c.receiver, d.receiver)
             /\ d.sender.stream.totoalWrite = c.sender.stream.totoalWrite
             /\ d.sender.stream.inputEnd = c.sender.stream.inputEnd
<1> DEFINE c1 == [c EXCEPT !.idle = min(@ + ms, linger_time)]
           b == [c1 EXCEPT !.sender = sender_tick(@, ms)]
           d == connection_tick(c, ms)
<1>1. DOMAIN c = ConnectionFields
  BY Zenon, GoodHalf
<1>2. /\ DOMAIN c1 = ConnectionFields /\ c1.sender = c.sender /\ c1.receiver = c.receiver
      /\ c1.segments_out = c.segments_out /\ c1.close = c.close
  BY Zenon, <1>1 DEF ConnectionFields
<1>3. d = IF give_up(c1) THEN bad_shutdown(c1, TRUE) ELSE clean(b)
  BY Zenon DEF connection_tick
<1> HIDE DEF c1, d
<1>4. Good(e, c1, p, N, dl, el)
  BY Zenon, <1>2, GoodFlags
<1>5. CASE give_up(c1)
  <2>1. c1.sender.segments_out = <<>> /\ d = bad_shutdown(c1, TRUE) /\ TRUE \in BOOLEAN
    BY <1>2, <1>3, <1>5
  <2>2. /\ Done(e, d, p, N, dl, el) /\ Later(c1.receiver, d.receiver)
        /\ d.sender.stream.totoalWrite = c1.sender.stream.totoalWrite
        /\ d.sender.stream.inputEnd = c1.sender.stream.inputEnd
    BY Zenon, <2>1, <1>4, ShutdownDone
  <2>3. QED
    BY <2>2, <1>2 DEF d
<1>6. CASE ~give_up(c1)
  <2>1. d = clean(b)
    BY Zenon, <1>3, <1>6
  <2>2. /\ Good(e, b, p, N, dl, el) /\ b.receiver = c1.receiver /\ b.close = c1.close
        /\ SameInput(c1.sender, b.sender)
    BY <1>4, GoodTick
  <2> HIDE DEF b
  <2>3. /\ Good(e, d, p, N, dl, el) /\ d.sender.segments_out = <<>>
        /\ d.receiver = b.receiver /\ d.sender.stream = b.sender.stream
        /\ ~b.close => Closed(d)
    BY <2>1, <2>2, GoodClean
  <2>4. Later(c.receiver, c.receiver)
    BY GoodLater
  <2>5. /\ d.sender.stream.totoalWrite = c.sender.stream.totoalWrite
        /\ d.sender.stream.inputEnd = c.sender.stream.inputEnd
    BY Zenon, <2>2, <2>3, <1>2 DEF SameInput
  <2>6. QED
    BY <2>2, <2>3, <2>4, <2>5, <1>2 DEF Done, d
<1>7. QED
  BY Zenon, <1>5, <1>6

-----------------------------------------------------------------------------

\* Facts that no proof below cites.
HIDE DEF MaxIntAssumption, WrapType, WriteWaiting, GrownAhead, LinkReceive, LinkError,
  ErrorSound, GoodQueue, GoodClean, GoodMethod, GoodHalf, GoodFill, GoodTick,
  GoodEmptyAck, GoodAck, GoodInput, ShutdownDone, GoodFlags

(* The inductive invariant. *)

\* Between two steps nothing is queued.
Quiet(c) == c.segments_out = <<>> /\ c.sender.segments_out = <<>>

IInv ==
  /\ conn \in [Endpoint -> {conn[e] : e \in Endpoint}]
  /\ net \in [Endpoint -> {net[e] : e \in Endpoint}]
  /\ received \in [Endpoint -> {received[e] : e \in Endpoint}]
  /\ \A e \in Endpoint :
        /\ Own(e, conn[e], net[peer(e)]) /\ Quiet(conn[e]) /\ Closed(conn[e])
        /\ Link(conn[e].sender, conn[peer(e)].receiver, RecvCapacity[peer(e)],
                received[peer(e)])

-----------------------------------------------------------------------------
(* The steps of the system. *)

\* What the invariant says of endpoint e and its peer.
LEMMA InvGood ==
  ASSUME IInv, NEW e \in Endpoint
  PROVE  /\ Good(e, conn[e], conn[peer(e)], net[peer(e)], received[e], received[peer(e)])
         /\ Quiet(conn[e]) /\ Closed(conn[e])
<1>1. peer(e) \in Endpoint /\ peer(peer(e)) = e
  BY Zenon, EndpointFacts
<1>2. /\ Own(e, conn[e], net[peer(e)]) /\ Quiet(conn[e]) /\ Closed(conn[e])
      /\ Link(conn[e].sender, conn[peer(e)].receiver, RecvCapacity[peer(e)], received[peer(e)])
  BY Zenon DEF IInv
<1>3. /\ Own(peer(e), conn[peer(e)], net[e])
      /\ Link(conn[peer(e)].sender, conn[e].receiver, RecvCapacity[e], received[e])
  BY Zenon, <1>1 DEF IInv
<1>4. SenderOf(peer(e), conn[peer(e)].sender)
  BY Zenon, <1>3 DEF Own
<1>5. QED
  BY <1>2, <1>3, <1>4 DEF Good

\* Endpoint e becomes d, what it has in transit N and what its application
\* has read dl.
LEMMA StepKeeps ==
  ASSUME IInv, NEW e \in Endpoint, NEW d, NEW N, NEW dl,
         Good(e, d, conn[peer(e)], N, dl, received[peer(e)]), Quiet(d), Closed(d),
         conn' = [conn EXCEPT ![e] = d], net' = [net EXCEPT ![peer(e)] = N],
         received' = [received EXCEPT ![e] = dl]
  PROVE  IInv' /\ conn'[e] = d /\ conn'[peer(e)] = conn[peer(e)]
<1> DEFINE f == peer(e)
<1>1. f \in Endpoint /\ peer(f) = e /\ f # e /\ \A i \in Endpoint : i = e \/ i = f
  BY Zenon, EndpointFacts
<1>2. DOMAIN conn = Endpoint /\ DOMAIN net = Endpoint /\ DOMAIN received = Endpoint
  BY Zenon DEF IInv
<1>3. /\ DOMAIN conn' = Endpoint /\ DOMAIN net' = Endpoint /\ DOMAIN received' = Endpoint
      /\ conn' = [i \in Endpoint |-> conn'[i]] /\ net' = [i \in Endpoint |-> net'[i]]
      /\ received' = [i \in Endpoint |-> received'[i]]
  BY Zenon, <1>2
<1>4. /\ conn'[e] = d /\ conn'[f] = conn[f] /\ net'[e] = net[e] /\ net'[f] = N
      /\ received'[e] = dl /\ received'[f] = received[f]
  BY Zenon, <1>1, <1>2
<1>5. /\ conn' \in [Endpoint -> {conn'[i] : i \in Endpoint}]
      /\ net' \in [Endpoint -> {net'[i] : i \in Endpoint}]
      /\ received' \in [Endpoint -> {received'[i] : i \in Endpoint}]
  <2>1. ASSUME NEW S, NEW F, F = [i \in S |-> F[i]]
        PROVE  F \in [S -> {F[i] : i \in S}]
    BY ONLY Zenon, <2>1
  <2>2. QED
    BY ONLY Zenon, <2>1, <1>3
<1>6. /\ Own(f, conn[f], net[e]) /\ Quiet(conn[f]) /\ Closed(conn[f])
  BY Zenon, <1>1 DEF IInv
<1>7. /\ Own(e, d, N) /\ Link(d.sender, conn[f].receiver, RecvCapacity[f], received[f])
      /\ Link(conn[f].sender, d.receiver, RecvCapacity[e], dl)
  BY Zenon DEF Good
<1> DEFINE At(i) == /\ Own(i, conn'[i], net'[peer(i)]) /\ Quiet(conn'[i]) /\ Closed(conn'[i])
                    /\ Link(conn'[i].sender, conn'[peer(i)].receiver, RecvCapacity[peer(i)],
                            received'[peer(i)])
<1>8. At(e)
  BY Zenon, <1>4, <1>7
<1>9. At(f)
  BY <1>1, <1>4, <1>6, <1>7
<1>10. \A i \in Endpoint : At(i)
  <2> HIDE DEF At
  <2>1. QED
    BY Zenon, <1>1, <1>8, <1>9
<1>11. IInv'
  BY Zenon, <1>5, <1>10 DEF IInv
<1>12. QED
  BY <1>4, <1>11

\* A handler has made c of endpoint e, and rule 4 sends what it queued.
LEMMA TransmitKeeps ==
  ASSUME IInv, NEW e \in Endpoint, NEW c,
         Done(e, c, conn[peer(e)], net[peer(e)], received[e], received[peer(e)]),
         Transmit(e, c), received' = received
  PROVE  /\ IInv' /\ conn'[peer(e)] = conn[peer(e)]
         /\ conn'[e].sender = c.sender /\ conn'[e].receiver = c.receiver
<1> DEFINE d == [c EXCEPT !.segments_out = <<>>]
           N == net[peer(e)] \cup Range(c.segments_out)
           p == conn[peer(e)]
           OK(m) == Message(m, c.sender, c.receiver, Isn[peer(e)], RecvCapacity[e])
<1>1. /\ Good(e, c, p, net[peer(e)], received[e], received[peer(e)])
      /\ c.sender.segments_out = <<>> /\ Closed(c)
  BY Zenon DEF Done
<1>2. /\ DOMAIN c = ConnectionFields /\ SenderOf(e, c.sender)
      /\ \A k \in DOMAIN c.segments_out : OK(c.segments_out[k])
      /\ \A m \in net[peer(e)] : OK(m)
  BY Zenon, <1>1 DEF Good, Own
<1>3. /\ DOMAIN d = ConnectionFields /\ d.sender = c.sender /\ d.receiver = c.receiver
      /\ d.segments_out = <<>> /\ d.close = c.close
  BY Zenon, <1>2 DEF ConnectionFields
<1>4. \A m \in N : OK(m)
  <2> HIDE DEF OK
  <2>1. \A m \in Range(c.segments_out) : OK(m)
    BY Zenon, <1>2 DEF Range
  <2>2. QED
    BY Zenon, <1>2, <2>1
<1>5. conn' = [conn EXCEPT ![e] = d] /\ net' = [net EXCEPT ![peer(e)] = N]
  BY Zenon DEF Transmit
<1>6. <<>> \in Seq(MessageType) /\ DOMAIN <<>> = {}
  <2> DEFINE none == <<>>
  <2>1. none \in Seq(MessageType) /\ DOMAIN none = {}
    OBVIOUS
  <2>2. QED
    BY Zenon, <2>1
<1> HIDE DEF d, N
<1>7. Own(e, d, N)
  BY <1>2, <1>3, <1>4, <1>6 DEF Own
<1>8. Good(e, d, p, N, received[e], received[peer(e)])
  BY <1>1, <1>3, <1>7 DEF Good
<1>9. Quiet(d) /\ Closed(d)
  BY <1>1, <1>3 DEF Quiet, Closed, inbound_stream
<1>10. received' = [received EXCEPT ![e] = received[e]]
  BY Zenon DEF IInv
<1>11. IInv' /\ conn'[e] = d /\ conn'[peer(e)] = p
  BY Zenon, <1>5, <1>8, <1>9, <1>10, StepKeeps
<1>12. QED
  BY Zenon, <1>3, <1>11

\* What a step makes of a connection: its application has put in what it had
\* put in before, or its receiver is as it was.
Moved(c, d) ==
  LET old == c.sender.stream
      new == d.sender.stream
  IN  \/ /\ new.totoalWrite = old.totoalWrite /\ new.inputEnd = old.inputEnd
         /\ Later(c.receiver, d.receiver)
      \/ /\ d.receiver = c.receiver /\ ~old.inputEnd
         /\ \/ ~new.inputEnd /\ old.totoalWrite <= new.totoalWrite
            \/ new.inputEnd /\ old.totoalWrite = new.totoalWrite

\* connect() of the socket.
LEMMA ConnectKeeps ==
  ASSUME IInv, Connect
  PROVE  /\ IInv' /\ conn'[peer(Client)] = conn[peer(Client)]
         /\ Moved(conn[Client], conn'[Client])
<1> DEFINE e == Client
           c == conn[e]
           d == connect(c)
<1>1. e \in Endpoint
  BY Zenon DEF Endpoint
<1>2. /\ Good(e, c, conn[peer(e)], net[peer(e)], received[e], received[peer(e)])
  BY Zenon, <1>1, InvGood
<1>3. ~c.close
  <2>1. state(c) = official_states["LISTEN"]
    BY Zenon DEF Connect, in_state
  <2>2. official_states["LISTEN"].active = TRUE /\ state(c).active = active(c)
    BY Zenon DEF official_states, state
  <2>3. QED
    BY Zenon, <2>1, <2>2 DEF active
<1>4. Transmit(e, d) /\ received' = received
  BY Zenon DEF Connect
<1>5. d = clean([c EXCEPT !.sender = fill_window(@)])
  BY Zenon DEF connect
<1>6. Later(c.receiver, c.receiver)
  BY Zenon, <1>1, <1>2, GoodLater
<1> HIDE DEF e, c, d
<1>7. /\ Done(e, d, conn[peer(e)], net[peer(e)], received[e], received[peer(e)])
      /\ d.receiver = c.receiver /\ SameInput(c.sender, d.sender)
  BY <1>1, <1>2, <1>3, <1>5, FillDone
<1>8. /\ IInv' /\ conn'[peer(e)] = conn[peer(e)]
      /\ conn'[e].sender = d.sender /\ conn'[e].receiver = d.receiver
  BY <1>1, <1>4, <1>7, TransmitKeeps
<1>9. Moved(c, conn'[e])
  BY Zenon, <1>6, <1>7, <1>8 DEF Moved, SameInput
<1>10. QED
  BY Zenon, <1>8, <1>9 DEF e, c

\* Bytes of the application.
LEMMA WriteKeeps ==
  ASSUME IInv, NEW e \in Endpoint, NEW n \in 1 .. MaxBytes[e], Write(e, n)
  PROVE  IInv' /\ conn'[peer(e)] = conn[peer(e)] /\ Moved(conn[e], conn'[e])
<1> DEFINE c == conn[e]
           d == connection_write(c, [k \in 1 .. n |-> c.sender.stream.totoalWrite + k])
<1>1. /\ Good(e, c, conn[peer(e)], net[peer(e)], received[e], received[peer(e)])
  BY Zenon, InvGood
<1>2. /\ ~c.close /\ ~c.sender.stream.inputEnd /\ n \in Nat
      /\ c.sender.stream.totoalWrite + n <= MaxBytes[e]
      /\ Transmit(e, d) /\ received' = received
  BY EndpointFacts DEF Write, may_write, active
<1> HIDE DEF c
<1>3. /\ Done(e, d, conn[peer(e)], net[peer(e)], received[e], received[peer(e)])
      /\ d.receiver = c.receiver /\ ~d.sender.stream.inputEnd
      /\ c.sender.stream.totoalWrite <= d.sender.stream.totoalWrite
  <2>1. e \in Endpoint
    BY Zenon
  <2>2. QED
    BY ONLY Zenon, <2>1, <1>1, <1>2, WriteDone
<1> HIDE DEF d
<1>4. /\ IInv' /\ conn'[peer(e)] = conn[peer(e)]
      /\ conn'[e].sender = d.sender /\ conn'[e].receiver = d.receiver
  BY Zenon, <1>2, <1>3, TransmitKeeps
<1>5. Moved(c, conn'[e])
  BY <1>2, <1>3, <1>4 DEF Moved
<1>6. QED
  BY Zenon, <1>4, <1>5 DEF c

\* The end of the application's bytes.
LEMMA EndKeeps ==
  ASSUME IInv, NEW e \in Endpoint, End(e)
  PROVE  IInv' /\ conn'[peer(e)] = conn[peer(e)] /\ Moved(conn[e], conn'[e])
<1> DEFINE c == conn[e]
           p == conn[peer(e)]
           N == net[peer(e)]
           b == connection_write(c, <<>>)
           d == end_input_stream(b)
<1>1. Good(e, c, p, N, received[e], received[peer(e)])
  BY Zenon, InvGood
<1>2. /\ ~c.close /\ ~c.sender.stream.inputEnd /\ Transmit(e, d) /\ received' = received
  BY Zenon DEF End, may_write, active
<1>3. c.sender.stream.totoalWrite \in Nat /\ c.sender.stream.totoalWrite + 0 <= MaxBytes[e]
  <2>1. SenderOf(e, c.sender)
    BY Zenon, <1>1 DEF Good, Own
  <2>2. SenderSound(c.sender) /\ c.sender.stream.totoalWrite <= MaxBytes[e]
    BY Zenon, <2>1 DEF SenderOf
  <2>3. c.sender.stream.totoalWrite \in Nat
    BY Zenon, <2>2, SenderNumbers
  <2>4. QED
    BY <2>2, <2>3
<1> HIDE DEF c, p, N
<1>4. b = connection_write(c, [k \in 1 .. 0 |-> c.sender.stream.totoalWrite + k])
  <2>1. <<>> = [k \in 1 .. 0 |-> c.sender.stream.totoalWrite + k]
    OBVIOUS
  <2>2. QED
    BY Zenon, <2>1
<1> HIDE DEF b
<1>5. /\ Done(e, b, p, N, received[e], received[peer(e)])
      /\ b.receiver = c.receiver /\ ~b.close /\ ~b.sender.stream.inputEnd
      /\ c.sender.stream.totoalWrite <= b.sender.stream.totoalWrite
      /\ b.sender.stream.totoalWrite <= c.sender.stream.totoalWrite + 0
  <2>1. e \in Endpoint /\ 0 \in Nat /\ ~c.close /\ ~c.sender.stream.inputEnd
    BY Zenon, <1>2
  <2>2. QED
    BY ONLY Zenon, <2>1, <1>1, <1>3, <1>4, WriteDone
<1>6. Good(e, b, p, N, received[e], received[peer(e)])
  BY Zenon, <1>5 DEF Done
<1>7. /\ Done(e, d, p, N, received[e], received[peer(e)])
      /\ d.receiver = b.receiver /\ d.sender.stream.inputEnd = TRUE
      /\ d.sender.stream.totoalWrite = b.sender.stream.totoalWrite
  BY Zenon, <1>5, <1>6, EndDone
<1> HIDE DEF d
<1>8. /\ IInv' /\ conn'[peer(e)] = conn[peer(e)]
      /\ conn'[e].sender = d.sender /\ conn'[e].receiver = d.receiver
  BY <1>2, <1>7, TransmitKeeps DEF p, N
<1>9. b.sender.stream.totoalWrite = c.sender.stream.totoalWrite
  <2>1. SenderOf(e, b.sender)
    BY Zenon, <1>6 DEF Good, Own
  <2>2. b.sender.stream.totoalWrite \in Nat
    BY Zenon, <2>1, SenderNumbers DEF SenderOf
  <2>3. QED
    BY <2>2, <1>3, <1>5
<1>10. Moved(c, conn'[e])
  BY <1>2, <1>5, <1>7, <1>8, <1>9 DEF Moved
<1>11. QED
  BY Zenon, <1>8, <1>10 DEF c

\* A segment arrives.
LEMMA DeliverKeeps ==
  ASSUME IInv, NEW e \in Endpoint, NEW seg \in net[e], Deliver(e, seg)
  PROVE  IInv' /\ conn'[peer(e)] = conn[peer(e)] /\ Moved(conn[e], conn'[e])
<1> DEFINE c == conn[e]
           p == conn[peer(e)]
           N == net[peer(e)]
           d == connection_segment_received(c, seg)
<1>1. Good(e, c, p, N, received[e], received[peer(e)]) /\ c.sender.segments_out = <<>>
  BY Zenon, InvGood DEF Quiet
<1>2. ~c.close /\ Transmit(e, d) /\ received' = received
  BY Zenon DEF Deliver, active
<1>3. Message(seg, p.sender, p.receiver, Isn[e], RecvCapacity[peer(e)])
  <2>1. peer(e) \in Endpoint /\ peer(peer(e)) = e
    BY Zenon, EndpointFacts
  <2>2. Own(peer(e), p, net[e])
    BY Zenon, <2>1 DEF IInv
  <2>3. QED
    BY Zenon, <2>1, <2>2 DEF Own
<1> HIDE DEF c, p, N
<1>4. /\ Done(e, d, p, N, received[e], received[peer(e)]) /\ Later(c.receiver, d.receiver)
      /\ d.sender.stream.totoalWrite = c.sender.stream.totoalWrite
      /\ d.sender.stream.inputEnd = c.sender.stream.inputEnd
  BY <1>1, <1>2, <1>3, ReceiveDone
<1> HIDE DEF d
<1>5. /\ IInv' /\ conn'[peer(e)] = conn[peer(e)]
      /\ conn'[e].sender = d.sender /\ conn'[e].receiver = d.receiver
  BY <1>2, <1>4, TransmitKeeps DEF p, N
<1>6. Moved(c, conn'[e])
  BY Zenon, <1>4, <1>5 DEF Moved
<1>7. QED
  BY Zenon, <1>5, <1>6 DEF c

\* One unit of time.
LEMMA TickKeeps ==
  ASSUME IInv, NEW e \in Endpoint, Tick(e)
  PROVE  IInv' /\ conn'[peer(e)] = conn[peer(e)] /\ Moved(conn[e], conn'[e])
<1> DEFINE c == conn[e]
           p == conn[peer(e)]
           N == net[peer(e)]
           d == connection_tick(c, 1)
<1>1. Good(e, c, p, N, received[e], received[peer(e)]) /\ c.sender.segments_out = <<>>
  BY Zenon, InvGood DEF Quiet
<1>2. ~c.close /\ Transmit(e, d) /\ received' = received
  BY Zenon DEF Tick, active
<1> HIDE DEF c, p, N
<1>3. /\ Done(e, d, p, N, received[e], received[peer(e)]) /\ Later(c.receiver, d.receiver)
      /\ d.sender.stream.totoalWrite = c.sender.stream.totoalWrite
      /\ d.sender.stream.inputEnd = c.sender.stream.inputEnd
  BY <1>1, <1>2, TickDone
<1> HIDE DEF d
<1>4. /\ IInv' /\ conn'[peer(e)] = conn[peer(e)]
      /\ conn'[e].sender = d.sender /\ conn'[e].receiver = d.receiver
  BY Zenon, <1>2, <1>3, TransmitKeeps DEF p, N
<1>5. Moved(c, conn'[e])
  BY <1>3, <1>4 DEF Moved
<1>6. QED
  BY Zenon, <1>4, <1>5 DEF c

\* The network drops a segment: its sender is still what it was.
LEMMA LoseKeeps ==
  ASSUME IInv, NEW e \in Endpoint, NEW seg \in net[e], Lose(e, seg)
  PROVE  IInv' /\ conn'[peer(e)] = conn[peer(e)] /\ Moved(conn[e], conn'[e])
<1> DEFINE f == peer(e)
           N == net[e] \ {seg}
<1>1. f \in Endpoint /\ peer(f) = e
  BY Zenon, EndpointFacts
<1>2. /\ Good(f, conn[f], conn[e], net[e], received[f], received[e])
      /\ Quiet(conn[f]) /\ Closed(conn[f])
  BY Zenon, <1>1, InvGood
<1>3. Good(f, conn[f], conn[e], N, received[f], received[e])
  BY Zenon, <1>2 DEF Good, Own
<1>4. /\ conn' = [conn EXCEPT ![f] = conn[f]] /\ net' = [net EXCEPT ![e] = N]
      /\ received' = [received EXCEPT ![f] = received[f]] /\ conn' = conn
  BY Zenon DEF Lose, IInv
<1>5. IInv'
  <2> HIDE DEF N, f
  <2>1. QED
    BY Zenon, <1>1, <1>2, <1>3, <1>4, StepKeeps
<1>6. Good(e, conn[e], conn[peer(e)], net[peer(e)], received[e], received[peer(e)])
  BY Zenon, InvGood
<1>7. Moved(conn[e], conn[e])
  BY Zenon, <1>6, GoodLater DEF Moved
<1>8. QED
  BY <1>4, <1>5, <1>7

\* The application takes bytes.
LEMMA ReadKeeps ==
  ASSUME IInv, NEW e \in Endpoint, NEW n \in Nat, Read(e, n)
  PROVE  IInv' /\ conn'[peer(e)] = conn[peer(e)] /\ Moved(conn[e], conn'[e])
<1> DEFINE c == conn[e]
           p == conn[peer(e)]
           N == net[peer(e)]
           y == c.receiver
           z == [y EXCEPT !.reassembler = Popped(y.reassembler, n)]
           fl == Taken(y.reassembler, received[e], n)
           d == [c EXCEPT !.receiver = z]
           cap == RecvCapacity[e]
<1>1. /\ Good(e, c, p, N, received[e], received[peer(e)])
      /\ Quiet(c) /\ Closed(c)
  BY Zenon, InvGood
<1>2. /\ DOMAIN c = ConnectionFields /\ Link(p.sender, y, cap, received[e])
      /\ SenderOf(peer(e), p.sender)
  BY Zenon, <1>1 DEF Good, Own
<1>3. peer(e) \in Endpoint /\ cap \in Nat
  BY Zenon, EndpointFacts
<1>4. SenderSound(p.sender) /\ p.sender.stream.totoalWrite < UINT32_MAX
  BY <1>2, <1>3, SenderBound
<1>5. n <= buffer_size(stream_out(y))
  BY Zenon DEF Read, inbound_stream
<1>6. Link(p.sender, z, cap, fl) /\ Later(y, z)
  <2> HIDE DEF y, p, cap
  <2>1. QED
    BY <1>2, <1>3, <1>4, <1>5, LinkRead
<1>7. DOMAIN y = ReceiverFields
  BY Zenon, <1>2 DEF Link
<1>8. d = with_inbound(c, pop_output(inbound_stream(c), n))
  BY Zenon, <1>2, <1>7 DEF with_inbound, inbound_stream, stream_out, Popped, ConnectionFields,
                    ReceiverFields
<1>9. /\ DOMAIN d = ConnectionFields /\ d.receiver = z /\ d.sender = c.sender
      /\ d.segments_out = c.segments_out /\ d.close = c.close
  BY Zenon, <1>2 DEF ConnectionFields
<1>10. /\ conn' = [conn EXCEPT ![e] = d] /\ received' = [received EXCEPT ![e] = fl]
  BY Zenon, <1>8 DEF Read, Taken, inbound_stream, stream_out, IInv
<1>11. net' = [net EXCEPT ![peer(e)] = N]
  BY Zenon DEF Read, IInv
<1> HIDE DEF z, fl
<1>12. Good(e, d, p, N, fl, received[peer(e)])
  <2> HIDE DEF p, N, c
  <2>1. QED
    BY Zenon, <1>1, <1>6, GoodReceiver
<1> HIDE DEF d
<1>13. Quiet(d) /\ Closed(d)
  BY Zenon, <1>1, <1>6, <1>9 DEF Quiet, Closed, inbound_stream, Later
<1>14. IInv' /\ conn'[e] = d /\ conn'[peer(e)] = p
  BY Zenon, <1>10, <1>11, <1>12, <1>13, StepKeeps
<1>15. Moved(c, d)
  BY Zenon, <1>6, <1>9 DEF Moved
<1>16. QED
  BY Zenon, <1>14, <1>15

\* A step of the direction from e to its peer.
Forward(e) ==
  LET x == conn[e].sender.stream
      y == conn[peer(e)].receiver
  IN  \/ /\ x'.totoalWrite = x.totoalWrite /\ x'.inputEnd = x.inputEnd
         /\ Later(y, y')
      \/ /\ y' = y /\ ~x.inputEnd
         /\ \/ ~x'.inputEnd /\ x.totoalWrite <= x'.totoalWrite
            \/ x'.inputEnd /\ x.totoalWrite = x'.totoalWrite

\* Each step of the system keeps the invariant and moves each direction.
LEMMA NextKeeps ==
  ASSUME IInv, Next
  PROVE  IInv' /\ \A e \in Endpoint : Forward(e)
<1>1. IInv' /\ \E e \in Endpoint : conn'[peer(e)] = conn[peer(e)] /\ Moved(conn[e], conn'[e])
  <2>1. CASE Connect
    BY Zenon, <2>1, ConnectKeeps DEF Endpoint
  <2>2. ASSUME NEW e \in Endpoint, AppNext(e)
        PROVE  IInv' /\ conn'[peer(e)] = conn[peer(e)] /\ Moved(conn[e], conn'[e])
    <3>1. CASE End(e)
      BY Zenon, <3>1, EndKeeps
    <3>2. ASSUME NEW n \in 1 .. MaxBytes[e], Write(e, n)
          PROVE  IInv' /\ conn'[peer(e)] = conn[peer(e)] /\ Moved(conn[e], conn'[e])
      BY Zenon, <3>2, WriteKeeps
    <3>3. ASSUME NEW n \in 1 .. RecvCapacity[e], Read(e, n)
          PROVE  IInv' /\ conn'[peer(e)] = conn[peer(e)] /\ Moved(conn[e], conn'[e])
      <4>1. n \in Nat
        BY EndpointFacts
      <4>2. QED
        BY Zenon, <3>3, <4>1, ReadKeeps
    <3>4. QED
      BY <2>2, <3>1, <3>2, <3>3 DEF AppNext
  <2>3. ASSUME NEW e \in Endpoint, NEW seg \in net[e], Lose(e, seg) \/ Deliver(e, seg)
        PROVE  IInv' /\ conn'[peer(e)] = conn[peer(e)] /\ Moved(conn[e], conn'[e])
    BY <2>3, LoseKeeps, DeliverKeeps
  <2>4. QED
    BY Zenon, <2>1, <2>2, <2>3, TickKeeps DEF Next
<1>2. PICK e \in Endpoint : conn'[peer(e)] = conn[peer(e)] /\ Moved(conn[e], conn'[e])
  BY Zenon, <1>1
<1> DEFINE f == peer(e)
<1>3. f \in Endpoint /\ peer(f) = e /\ \A i \in Endpoint : i = e \/ i = f
  BY Zenon, EndpointFacts
<1>4. Later(conn[e].receiver, conn[e].receiver) /\ Later(conn[f].receiver, conn[f].receiver)
  <2>1. /\ Good(e, conn[e], conn[f], net[f], received[e], received[f])
        /\ Good(f, conn[f], conn[e], net[e], received[f], received[e])
    BY Zenon, <1>3, InvGood
  <2>2. QED
    BY Zenon, <2>1, <1>3, GoodLater
<1>5. Forward(e)
  BY Zenon, <1>2, <1>4 DEF Forward, Moved
<1>6. Forward(f)
  BY Zenon, <1>2, <1>3, <1>4 DEF Forward, Moved
<1>7. QED
  BY Zenon, <1>1, <1>3, <1>5, <1>6

\* Two new connections.
LEMMA InitSound == Init => IInv
<1> SUFFICES ASSUME Init PROVE IInv
  BY Zenon
<1> DEFINE At(e) == /\ Own(e, conn[e], net[peer(e)]) /\ Quiet(conn[e]) /\ Closed(conn[e])
                    /\ Link(conn[e].sender, conn[peer(e)].receiver, RecvCapacity[peer(e)],
                            received[peer(e)])
<1>1. ASSUME NEW e \in Endpoint PROVE At(e)
  <2> DEFINE f == peer(e)
             c == conn[e]
             x == c.sender
             y == conn[f].receiver
             cap == RecvCapacity[f]
             none == <<>>
  <2>1. f \in Endpoint /\ cap \in Nat /\ Isn[e] \in WrappingInt32 /\ MaxBytes[e] \in Nat
    BY Zenon, EndpointFacts
  <2>2. SendCapacity[e] \in Nat
    BY Zenon, SystemAssumption
  <2>3. /\ c = NewConnection(RecvCapacity[e], SendCapacity[e], Isn[e])
        /\ conn[f] = NewConnection(RecvCapacity[f], SendCapacity[f], Isn[f])
        /\ net[f] = {} /\ received[f] = none
    BY Zenon, <2>1 DEF Init
  <2>4. /\ DOMAIN c = ConnectionFields /\ x = NewSender(SendCapacity[e], Isn[e])
        /\ c.close = FALSE /\ c.segments_out = none /\ y = NewReceiver(cap)
    BY <2>3 DEF NewConnection, ConnectionFields
  <2>5. /\ SenderSound(x) /\ x.isn = Isn[e] /\ x.segments_out = none
        /\ x.stream = NewByteStream(SendCapacity[e]) /\ x.cur_ack_index = 0
        /\ x.wd_right_edge = 1
    BY <2>1, <2>2, <2>4, NewSound
  <2>6. x.stream.totoalWrite = 0 /\ x.stream.totoalRead = 0
    BY <2>5 DEF NewByteStream
  <2>7. /\ DOMAIN y = ReceiverFields /\ y.recieve_isn = FALSE
        /\ y.reassembler = NewReassembler(cap)
    BY <2>4 DEF NewReceiver, ReceiverFields
  <2>8. stream_out(y).error = FALSE /\ y.reassembler.input_end_idx = UINT32_MAX
    BY <2>7 DEF stream_out, NewReassembler, NewByteStream
  <2>9. none \in Seq(MessageType) /\ DOMAIN none = {}
    OBVIOUS
  <2> HIDE DEF f, c, x, y, cap, none
  <2>10. /\ ReassemblerCore(Numbers(0), cap, FALSE, y.reassembler, none)
         /\ EndSeen(Numbers(0), y.reassembler)
    <3>1. Numbers(0) \in Seq(Values(Numbers(0)))
      BY Zenon, NumbersSeq
    <3>2. QED
      BY Zenon, <3>1, <2>1, <2>7, NewKeepsCore DEF none
  <2>11. Link(x, y, cap, none)
    <3>1. y.recieve_isn \in BOOLEAN /\ ~y.recieve_isn
      BY <2>7, Zenon
    <3>2. x.cur_ack_index <= Assembled(y) /\ ~(x.wd_right_edge > 1)
      BY <2>5, <3>1 DEF Assembled
    <3>3. /\ ReassemblerCore(Numbers(x.stream.totoalRead), cap, stream_out(y).error,
                             y.reassembler, none)
          /\ EndSeen(Numbers(x.stream.totoalRead), y.reassembler)
      BY <2>6, <2>8, <2>10, Zenon
    <3>4. QED
      BY <2>7, <2>8, <3>1, <3>2, <3>3, Zenon DEF Link
  <2>12. SenderOf(e, x)
    BY <2>1, <2>5, <2>6, <2>9 DEF SenderOf, Carried
  <2>13. Own(e, c, {})
    BY Zenon, <2>4, <2>9, <2>12 DEF Own, x
  <2>14. Quiet(c) /\ Closed(c)
    BY Zenon, <2>4, <2>5 DEF Quiet, Closed, none, x
  <2>15. QED
    BY <2>3, <2>11, <2>13, <2>14 DEF c, x, y, f, cap
<1>2. /\ conn \in [Endpoint -> {conn[e] : e \in Endpoint}]
      /\ net \in [Endpoint -> {net[e] : e \in Endpoint}]
      /\ received \in [Endpoint -> {received[e] : e \in Endpoint}]
  <2>1. /\ conn = [e \in Endpoint |-> conn[e]] /\ net = [e \in Endpoint |-> net[e]]
        /\ received = [e \in Endpoint |-> received[e]]
    BY Zenon DEF Init
  <2>2. QED
    BY Zenon, <2>1
<1>3. QED
  BY <1>1, <1>2 DEF IInv

\* The invariant holds in every reachable state of the two connections.
THEOREM Invariance == Spec => []IInv
<1>1. IInv /\ UNCHANGED vars => IInv'
  <2> SUFFICES ASSUME IInv, UNCHANGED vars PROVE IInv'
    BY Zenon
  <2>1. conn' = conn /\ net' = net /\ received' = received
    BY Zenon DEF vars
  <2>2. QED
    BY Zenon, <2>1 DEF IInv
<1>2. IInv /\ [Next]_vars => IInv'
  BY Zenon, <1>1, NextKeeps
<1>3. QED
  BY InitSound, <1>2, PTL DEF Spec

-----------------------------------------------------------------------------

\* Facts that no proof below cites.
HIDE DEF NewKeepsCore, NewSound, LinkRead, GoodReceiver, FillDone, WriteDone, EndDone,
  ReceiveDone, GoodLater, TickDone, StepKeeps, TransmitKeeps, ConnectKeeps, WriteKeeps,
  EndKeeps, DeliverKeeps, TickKeeps, LoseKeeps, ReadKeeps, InitSound

(* What the invariant implies. *)

\* The direction from e to its peer.
LEMMA Direction ==
  ASSUME IInv, NEW e \in Endpoint
  PROVE  LET x == conn[e].sender
             y == conn[peer(e)].receiver
         IN  /\ SenderSound(x) /\ x.stream.totoalWrite < UINT32_MAX
             /\ RecvCapacity[peer(e)] \in Nat
             /\ Link(x, y, RecvCapacity[peer(e)], received[peer(e)])
<1>1. /\ Good(e, conn[e], conn[peer(e)], net[peer(e)], received[e], received[peer(e)])
  BY Zenon, InvGood
<1>2. /\ SenderOf(e, conn[e].sender)
      /\ Link(conn[e].sender, conn[peer(e)].receiver, RecvCapacity[peer(e)], received[peer(e)])
  BY Zenon, <1>1 DEF Good, Own
<1>3. peer(e) \in Endpoint /\ RecvCapacity[peer(e)] \in Nat
  BY Zenon, EndpointFacts
<1>4. QED
  BY Zenon, <1>2, <1>3, SenderBound

\* What an endpoint has thrown away as acknowledged the peer has assembled,
\* and nothing is assembled that was not sent, whatever the network does.
THEOREM AckedAssembled == Spec => []AckedIsAssembled
<1>1. IInv => AckedIsAssembled
  <2> SUFFICES ASSUME IInv, NEW e \in Endpoint
               PROVE  /\ sender(e).cur_ack_index <= assembled(peer(e))
                      /\ assembled(peer(e)) <= sender(e).next_seqno
    BY Zenon DEF AckedIsAssembled
  <2> DEFINE x == conn[e].sender
             y == conn[peer(e)].receiver
             cap == RecvCapacity[peer(e)]
  <2>1. /\ SenderSound(x) /\ x.stream.totoalWrite < UINT32_MAX /\ cap \in Nat
        /\ Link(x, y, cap, received[peer(e)])
    BY Zenon, Direction
  <2>2. assembled(peer(e)) = Assembled(y) /\ sender(e) = x
    BY Zenon DEF assembled, Assembled, EndBit, inbound_stream, sender
  <2> HIDE DEF x, y, cap
  <2>3. Assembled(y) <= x.next_seqno
    BY Zenon, <2>1, LinkAssembled
  <2>4. x.cur_ack_index <= Assembled(y)
    BY Zenon, <2>1 DEF Link
  <2>5. QED
    BY Zenon, <2>2, <2>3, <2>4
<1>2. QED
  BY <1>1, Invariance, PTL

\* The window a sender believes in never reaches beyond the space that the
\* peer's receiver has.
THEOREM WindowKept == Spec => []WindowNeverOverrun
<1>1. IInv => WindowNeverOverrun
  <2> SUFFICES ASSUME IInv, NEW e \in Endpoint, sender(e).wd_right_edge > 1
               PROVE  sender(e).wd_right_edge <=
                         1 + inbound_stream(conn[peer(e)]).totoalRead + RecvCapacity[peer(e)]
                           + (IF inbound_stream(conn[peer(e)]).inputEnd THEN 1 ELSE 0)
    BY Zenon DEF WindowNeverOverrun
  <2>1. Link(conn[e].sender, conn[peer(e)].receiver, RecvCapacity[peer(e)], received[peer(e)])
    BY Zenon, Direction
  <2>2. conn[e].sender.wd_right_edge <= Edge(conn[peer(e)].receiver, RecvCapacity[peer(e)])
    BY Zenon, <2>1 DEF Link, sender
  <2>3. QED
    BY Zenon, <2>2 DEF Edge, EndBit, inbound_stream, sender
<1>2. QED
  BY <1>1, Invariance, PTL

\* A sender of whose stream nothing is unread and nothing in flight: the peer
\* has assembled all of it, and the end too if it was sent.
LEMMA AllAssembled ==
  ASSUME NEW x, SenderSound(x), x.stream.totoalWrite < UINT32_MAX,
         NEW cap \in Nat, NEW y, NEW dl, Link(x, y, cap, dl),
         eof(x.stream), x.next_seqno = x.cur_ack_index
  PROVE  /\ x.stream.inputEnd /\ stream_out(y).totoalWrite = x.stream.totoalWrite
         /\ stream_out(y).inputEnd \/ x.fin_ack_index = NoFin
<1> DEFINE out == stream_out(y)
           q == y.reassembler
           n == x.stream.totoalRead
<1>1. /\ q.cur_idx \in Nat /\ q.cur_idx <= n /\ out.totoalWrite = q.cur_idx
      /\ out.inputEnd => x.fin_ack_index # NoFin
      /\ EndBit(y) \in {0, 1} /\ (EndBit(y) = 1 <=> out.inputEnd)
  BY Zenon, LinkNumbers
<1>2. Assembled(y) \in Nat /\ Assembled(y) <= x.next_seqno
  BY Zenon, LinkAssembled
<1>3. x.cur_ack_index <= Assembled(y)
  BY Zenon DEF Link
<1>4. /\ x.next_seqno \in Nat /\ n \in Nat /\ x.stream.totoalWrite \in Nat
      /\ x.stream.inputEnd /\ n = x.stream.totoalWrite
      /\ x.next_seqno = 0 => n = 0 /\ x.fin_ack_index = NoFin
      /\ x.next_seqno > 0 /\ x.fin_ack_index = NoFin => x.next_seqno = n + 1
      /\ x.fin_ack_index # NoFin => x.next_seqno = x.stream.totoalWrite + 2
  BY Zenon, SenderNumbers
<1>5. Assembled(y) = x.next_seqno
  BY <1>2, <1>3, <1>4
<1>6. Assembled(y) = 0 \/ Assembled(y) = 1 + q.cur_idx + EndBit(y)
  BY Zenon, <1>1 DEF Assembled
<1> HIDE DEF out, q, n
<1>7. CASE x.fin_ack_index # NoFin
  <2>1. 1 + q.cur_idx + EndBit(y) = n + 2
    BY <1>4, <1>5, <1>6, <1>7
  <2>2. q.cur_idx = n /\ EndBit(y) = 1
    BY <2>1, <1>1, <1>4
  <2>3. QED
    BY <2>2, <1>1, <1>4 DEF out
<1>8. CASE x.fin_ack_index = NoFin
  <2>1. EndBit(y) = 0
    BY Zenon, <1>1, <1>8
  <2>2. CASE x.next_seqno = 0
    BY <2>2, <1>1, <1>4, <1>8 DEF out
  <2>3. CASE x.next_seqno > 0
    <3>1. 1 + q.cur_idx + 0 = n + 1
      BY <2>1, <2>3, <1>4, <1>5, <1>6, <1>8
    <3>2. QED
      BY <3>1, <1>1, <1>4, <1>8 DEF out
  <2>4. QED
    BY <2>2, <2>3, <1>4
<1>9. QED
  BY Zenon, <1>7, <1>8

\* A connection that closes without an error has all of the peer's stream and
\* its end, and the peer has all of its own, and its end unless that was never
\* sent.
THEOREM CleanClose == Spec => []CleanCloseMeansDelivered
<1>1. IInv => CleanCloseMeansDelivered
  <2> SUFFICES ASSUME IInv, NEW e \in Endpoint, ~active(conn[e]), ~sender(e).stream.error
               PROVE  /\ \A d \in Endpoint :
                            /\ sender(d).stream.inputEnd
                            /\ inbound_stream(conn[peer(d)]).totoalWrite
                                  = sender(d).stream.totoalWrite
                      /\ inbound_stream(conn[e]).inputEnd
                      /\ inbound_stream(conn[peer(e)]).inputEnd \/ sender(e).fin_ack_index = NoFin
    BY Zenon DEF CleanCloseMeansDelivered
  <2> DEFINE f == peer(e)
  <2>1. f \in Endpoint /\ peer(f) = e /\ \A d \in Endpoint : d = e \/ d = f
    BY Zenon, EndpointFacts
  <2>2. /\ stream_out(conn[e].receiver).inputEnd /\ eof(conn[e].sender.stream)
        /\ conn[e].sender.next_seqno = conn[e].sender.cur_ack_index
    BY Zenon DEF IInv, Closed, active, sender, inbound_stream
  <2>3. /\ conn[e].sender.stream.inputEnd
        /\ stream_out(conn[f].receiver).totoalWrite = conn[e].sender.stream.totoalWrite
        /\ stream_out(conn[f].receiver).inputEnd \/ conn[e].sender.fin_ack_index = NoFin
    <3> DEFINE x == conn[e].sender
               y == conn[f].receiver
               cap == RecvCapacity[f]
    <3>1. /\ SenderSound(x) /\ x.stream.totoalWrite < UINT32_MAX /\ cap \in Nat
          /\ Link(x, y, cap, received[f]) /\ eof(x.stream) /\ x.next_seqno = x.cur_ack_index
      BY Zenon, <2>2, Direction
    <3> HIDE DEF x, y, cap
    <3>2. /\ x.stream.inputEnd /\ stream_out(y).totoalWrite = x.stream.totoalWrite
          /\ stream_out(y).inputEnd \/ x.fin_ack_index = NoFin
      BY Zenon, <3>1, AllAssembled
    <3>3. QED
      BY Zenon, <3>2 DEF x, y
  <2>4. /\ conn[f].sender.stream.inputEnd
        /\ stream_out(conn[e].receiver).totoalWrite = conn[f].sender.stream.totoalWrite
    <3> DEFINE x == conn[f].sender
               y == conn[e].receiver
               cap == RecvCapacity[e]
    <3>1. /\ SenderSound(x) /\ x.stream.totoalWrite < UINT32_MAX /\ cap \in Nat
          /\ Link(x, y, cap, received[e]) /\ stream_out(y).inputEnd
      BY <2>1, <2>2, Direction
    <3> HIDE DEF x, y, cap
    <3>2. /\ x.fin_ack_index # NoFin /\ y.reassembler.cur_idx = x.stream.totoalRead
          /\ stream_out(y).totoalWrite = y.reassembler.cur_idx
      BY Zenon, <3>1, LinkNumbers
    <3>3. x.stream.inputEnd /\ x.stream.totoalRead = x.stream.totoalWrite
      BY <3>1, <3>2, SenderNumbers
    <3>4. QED
      BY <3>2, <3>3 DEF x, y
  <2>5. QED
    BY <2>1, <2>2, <2>3, <2>4 DEF sender, inbound_stream
<1>2. QED
  BY <1>1, Invariance, PTL

-----------------------------------------------------------------------------

\* Facts that no proof below cites.
HIDE DEF EndpointFacts, LinkAssembled, SenderBound, InvGood, AckedAssembled, WindowKept,
  AllAssembled, CleanClose

(* Each direction is a reliable byte stream. *)

\* The first numbers are a prefix of the numbers.
LEMMA NumbersPrefix ==
  ASSUME NEW m \in Nat, NEW n \in Nat, m <= n
  PROVE  /\ Len(Numbers(m)) = m /\ Len(Numbers(n)) = n
         /\ SubSeq(Numbers(n), 1, m) = Numbers(m)
<1>1. /\ Numbers(m) \in Seq(1 .. m) /\ Len(Numbers(m)) = m /\ \A k \in 1 .. m : Numbers(m)[k] = k
      /\ Numbers(n) \in Seq(1 .. n) /\ Len(Numbers(n)) = n /\ \A k \in 1 .. n : Numbers(n)[k] = k
  BY Zenon, NumbersSeq
<1> DEFINE s == SubSeq(Numbers(n), 1, m)
<1>2. s = [k \in 1 .. m |-> Numbers(n)[k]]
  BY <1>1
<1>3. \A k \in 1 .. m : Numbers(n)[k] = k
  BY <1>1
<1>4. s = Numbers(m)
  BY <1>2, <1>3 DEF Numbers
<1>5. QED
  BY <1>1, <1>4

ended(e) == conn[e].sender.stream.inputEnd

eofSeen(e) == eof(stream_out(conn[peer(e)].receiver))

\* One direction, as the applications at its ends see it.
InOrder(e) ==
  LET x   == conn[e].sender.stream
      out == stream_out(conn[peer(e)].receiver)
  IN  /\ x.totoalWrite \in Nat /\ out.totoalRead \in Nat /\ out.totoalWrite \in Nat
      /\ x.inputEnd \in BOOLEAN /\ out.inputEnd \in BOOLEAN
      /\ out.totoalRead <= out.totoalWrite /\ out.totoalWrite <= x.totoalWrite
      /\ received[peer(e)] = Numbers(out.totoalRead)
      /\ eofSeen(e) <=> out.inputEnd /\ out.totoalRead = out.totoalWrite
      /\ out.inputEnd => x.inputEnd /\ out.totoalWrite = x.totoalWrite

\* The invariant says so of both directions,
LEMMA Delivered == IInv => \A e \in Endpoint : InOrder(e)
<1> SUFFICES ASSUME IInv, NEW e \in Endpoint PROVE InOrder(e)
  BY Zenon
<1> DEFINE x == conn[e].sender
           y == conn[peer(e)].receiver
           cap == RecvCapacity[peer(e)]
           dl == received[peer(e)]
           n == x.stream.totoalRead
           out == stream_out(y)
<1>1. /\ SenderSound(x) /\ x.stream.totoalWrite < UINT32_MAX /\ cap \in Nat /\ Link(x, y, cap, dl)
  BY Zenon, Direction
<1> HIDE DEF x, y, cap, dl
<1>2. /\ y.reassembler.cur_idx \in Nat /\ y.reassembler.cur_idx <= n
      /\ out.totoalWrite = y.reassembler.cur_idx
      /\ out.totoalRead \in Nat /\ out.totoalRead <= y.reassembler.cur_idx
      /\ out.inputEnd \in BOOLEAN
      /\ eof(out) <=> out.inputEnd /\ out.totoalRead = y.reassembler.cur_idx
      /\ dl = Slice(Numbers(n), 0, out.totoalRead)
      /\ out.inputEnd => y.reassembler.cur_idx = n /\ x.fin_ack_index # NoFin
  BY <1>1, LinkNumbers
<1>3. /\ n \in Nat /\ x.stream.totoalWrite \in Nat /\ n <= x.stream.totoalWrite
      /\ x.stream.inputEnd \in BOOLEAN
      /\ x.fin_ack_index # NoFin => x.stream.inputEnd /\ n = x.stream.totoalWrite
  BY Zenon, <1>1, SenderNumbers
<1> HIDE DEF n, out
<1>4. dl = Numbers(out.totoalRead)
  <2>1. out.totoalRead <= n
    BY <1>2, <1>3
  <2>2. SubSeq(Numbers(n), 1, out.totoalRead) = Numbers(out.totoalRead)
    BY Zenon, <2>1, <1>2, <1>3, NumbersPrefix
  <2>3. Slice(Numbers(n), 0, out.totoalRead) = SubSeq(Numbers(n), 1, out.totoalRead)
    BY DEF Slice
  <2>4. QED
    BY Zenon, <2>2, <2>3, <1>2
<1>5. out.totoalWrite \in Nat /\ out.totoalWrite <= x.stream.totoalWrite
  BY <1>2, <1>3
<1>6. out.inputEnd => x.stream.inputEnd /\ out.totoalWrite = x.stream.totoalWrite
  BY Zenon, <1>2, <1>3
<1>7. eof(out) <=> out.inputEnd /\ out.totoalRead = out.totoalWrite
  BY Zenon, <1>2
<1>8. QED
  BY Zenon, <1>2, <1>3, <1>4, <1>5, <1>6, <1>7 DEF InOrder, eofSeen, x, y, dl, out

\* and it does so after a step that keeps it.
LEMMA DeliveredNext == IInv' => (\A e \in Endpoint : InOrder(e))'
  BY Delivered, PTL

\* A step of the direction is a step of a reliable byte stream, or none.
LEMMA ForwardReliable ==
  ASSUME IInv, IInv', NEW e \in Endpoint, Forward(e)
  PROVE  LET sent == written(e)
             rcvd == received[peer(e)]
         IN  \/ /\ ~ended(e) /\ Len(sent) < Len(sent')
                /\ Len(sent) <= Len(sent') /\ SubSeq(sent', 1, Len(sent)) = sent
                /\ rcvd' = rcvd /\ ended(e)' = ended(e) /\ eofSeen(e)' = eofSeen(e)
             \/ /\ ended(e)' = TRUE
                /\ sent' = sent /\ rcvd' = rcvd /\ eofSeen(e)' = eofSeen(e)
             \/ /\ ~eofSeen(e)
                /\ Len(rcvd) <= Len(rcvd') /\ SubSeq(rcvd', 1, Len(rcvd)) = rcvd
                /\ Len(rcvd') <= Len(sent) /\ SubSeq(sent, 1, Len(rcvd')) = rcvd'
                /\ eofSeen(e)' => ended(e) /\ rcvd' = sent
                /\ sent' = sent /\ ended(e)' = ended(e)
             \/ /\ sent' = sent /\ rcvd' = rcvd
                /\ ended(e)' = ended(e) /\ eofSeen(e)' = eofSeen(e)
<1> DEFINE f == peer(e)
           x == conn[e].sender.stream
           y == conn[f].receiver
           z == conn'[f].receiver
           out == stream_out(y)
           new == stream_out(z)
           a == x.totoalWrite
           b == x'.totoalWrite
           r == out.totoalRead
           s == new.totoalRead
<1>1. /\ a \in Nat /\ r \in Nat /\ out.totoalWrite \in Nat
      /\ x.inputEnd \in BOOLEAN /\ out.inputEnd \in BOOLEAN
      /\ r <= out.totoalWrite /\ out.totoalWrite <= a
      /\ received[f] = Numbers(r)
      /\ eofSeen(e) <=> out.inputEnd /\ r = out.totoalWrite
      /\ out.inputEnd => x.inputEnd /\ out.totoalWrite = a
  BY Zenon, Delivered DEF InOrder
<1>2. /\ b \in Nat /\ s \in Nat /\ new.totoalWrite \in Nat
      /\ x'.inputEnd \in BOOLEAN /\ new.inputEnd \in BOOLEAN
      /\ s <= new.totoalWrite /\ new.totoalWrite <= b
      /\ received'[f] = Numbers(s)
      /\ eofSeen(e)' <=> new.inputEnd /\ s = new.totoalWrite
      /\ new.inputEnd => x'.inputEnd /\ new.totoalWrite = b
  BY Zenon, DeliveredNext DEF InOrder
<1>3. /\ written(e) = Numbers(a) /\ written(e)' = Numbers(b)
      /\ ended(e) = x.inputEnd /\ ended(e)' = x'.inputEnd
  BY Zenon DEF written, Numbers, sender, ended
<1>4. eofSeen(e) \in BOOLEAN /\ eofSeen(e)' \in BOOLEAN
  BY Zenon DEF eofSeen, eof
<1>5. \/ b = a /\ x'.inputEnd = x.inputEnd /\ Later(y, z)
      \/ /\ z = y /\ ~x.inputEnd
         /\ \/ ~x'.inputEnd /\ a <= b
            \/ x'.inputEnd /\ a = b
  BY Zenon DEF Forward
<1> DEFINE Old == eofSeen(e)
           New == eofSeen(e)'
<1>6. Old \in BOOLEAN /\ New \in BOOLEAN
  BY Zenon, <1>4
<1> HIDE DEF x, y, z, Old, New
<1>7. CASE b = a /\ x'.inputEnd = x.inputEnd /\ Later(y, z)
  <2>1. r <= s /\ s <= a /\ (out.inputEnd => new.inputEnd)
    BY <1>1, <1>2, <1>7 DEF Later
  <2>2. written(e)' = written(e) /\ ended(e)' = ended(e)
    BY Zenon, <1>3, <1>7
  <2>3. CASE Old
    <3>1. out.inputEnd /\ r = out.totoalWrite /\ out.totoalWrite = a
      BY Zenon, <2>3, <1>1 DEF Old
    <3>2. r = s /\ new.totoalWrite = s /\ new.inputEnd
      <4> DEFINE t == new.totoalWrite
      <4>1. a \in Nat /\ r \in Nat /\ s \in Nat /\ t \in Nat /\ r <= s /\ s <= t /\ t <= a /\ r = a
        BY <3>1, <2>1, <1>1, <1>2, <1>7
      <4> HIDE DEF a, r, s, t
      <4>2. r = s /\ t = s
        BY <4>1
      <4>3. QED
        BY Zenon, <4>2, <3>1, <2>1 DEF t
    <3>3. New
      BY <3>2, <1>2 DEF New
    <3>4. New = Old /\ received'[f] = received[f]
      BY <3>2, <3>3, <2>3, <1>1, <1>2, <1>6
    <3>5. QED
      BY Zenon, <3>4, <2>2 DEF New, Old
  <2>4. CASE ~Old
    <3>1. New => ended(e) /\ received'[f] = written(e)
      <4>1. New => new.inputEnd /\ s = new.totoalWrite /\ x'.inputEnd /\ new.totoalWrite = b
        BY Zenon, <1>2 DEF New
      <4>2. QED
        BY <4>1, <1>2, <1>3, <1>7
    <3>2. /\ Len(Numbers(r)) = r /\ Len(Numbers(s)) = s /\ Len(Numbers(a)) = a
          /\ SubSeq(Numbers(s), 1, r) = Numbers(r) /\ SubSeq(Numbers(a), 1, s) = Numbers(s)
      BY Zenon, <2>1, <1>1, <1>2, NumbersPrefix
    <3>3. /\ Len(received[f]) <= Len(received'[f])
          /\ SubSeq(received'[f], 1, Len(received[f])) = received[f]
          /\ Len(received'[f]) <= Len(written(e))
          /\ SubSeq(written(e), 1, Len(received'[f])) = received'[f]
      BY <3>2, <2>1, <1>1, <1>2, <1>3
    <3>4. QED
      BY <3>1, <3>3, <2>2, <2>4 DEF New, Old
  <2>5. QED
    BY Zenon, <2>3, <2>4, <1>6
<1>8. CASE /\ z = y /\ ~x.inputEnd
           /\ \/ ~x'.inputEnd /\ a <= b
              \/ x'.inputEnd /\ a = b
  <2>1. received'[f] = received[f] /\ New = Old
    <3>1. s = r /\ new.totoalWrite = out.totoalWrite /\ new.inputEnd = out.inputEnd
      BY Zenon, <1>8
    <3>2. New <=> Old
      BY Zenon, <3>1, <1>1, <1>2 DEF New, Old
    <3>3. QED
      BY <3>1, <3>2, <1>1, <1>2, <1>6
  <2>2. CASE ~x'.inputEnd /\ a < b
    <3> HIDE DEF a, b
    <3>1. a <= b
      BY <2>2, <1>1, <1>2
    <3>2. /\ Len(Numbers(a)) = a /\ Len(Numbers(b)) = b /\ SubSeq(Numbers(b), 1, a) = Numbers(a)
      BY <3>1, <1>1, <1>2, NumbersPrefix
    <3>3. /\ Len(written(e)) < Len(written(e)') /\ Len(written(e)) <= Len(written(e)')
          /\ SubSeq(written(e)', 1, Len(written(e))) = written(e)
      BY <3>1, <3>2, <2>2, <1>3
    <3>4. ended(e)' = ended(e) /\ ~ended(e)
      BY <2>2, <1>1, <1>2, <1>3, <1>8
    <3>5. QED
      BY <2>1, <3>3, <3>4 DEF New, Old
  <2>3. CASE ~x'.inputEnd /\ a = b
    <3>1. ended(e)' = ended(e) /\ written(e)' = written(e)
      BY <2>3, <1>1, <1>2, <1>3, <1>8
    <3>2. QED
      BY Zenon, <2>1, <3>1 DEF New, Old
  <2>4. CASE x'.inputEnd /\ a = b
    <3>1. ended(e)' = TRUE /\ written(e)' = written(e)
      BY Zenon, <2>4, <1>2, <1>3
    <3>2. QED
      BY Zenon, <2>1, <3>1 DEF New, Old
  <2>5. (~x'.inputEnd /\ a < b) \/ (~x'.inputEnd /\ a = b) \/ (x'.inputEnd /\ a = b)
    BY <1>1, <1>2, <1>8
  <2>6. QED
    BY Zenon, <2>2, <2>3, <2>4, <2>5
<1>9. QED
  BY Zenon, <1>5, <1>7, <1>8

\* Before the first step nothing was written, read or ended.
LEMMA InitReliable == Init => C2S!Init /\ S2C!Init
<1> SUFFICES ASSUME Init PROVE C2S!Init /\ S2C!Init
  BY Zenon
<1>1. ASSUME NEW e \in Endpoint
      PROVE  /\ written(e) = <<>> /\ received[e] = <<>>
             /\ sender(e).stream.inputEnd = FALSE /\ eof(inbound_stream(conn[e])) = FALSE
  <2>1. conn[e] = NewConnection(RecvCapacity[e], SendCapacity[e], Isn[e])
    BY Zenon DEF Init
  <2>2. /\ conn[e].sender.stream = NewByteStream(SendCapacity[e])
        /\ stream_out(conn[e].receiver) = NewByteStream(RecvCapacity[e])
    <3>1. /\ conn[e].sender = NewSender(SendCapacity[e], Isn[e])
          /\ conn[e].receiver = NewReceiver(RecvCapacity[e])
      BY <2>1 DEF NewConnection
    <3>2. conn[e].sender.stream = NewByteStream(SendCapacity[e])
      BY <3>1 DEF NewSender
    <3>3. conn[e].receiver.reassembler = NewReassembler(RecvCapacity[e])
      BY <3>1 DEF NewReceiver
    <3>4. stream_out(conn[e].receiver) = NewByteStream(RecvCapacity[e])
      BY <3>3 DEF NewReassembler, stream_out
    <3>5. QED
      BY Zenon, <3>2, <3>4
  <2>3. /\ conn[e].sender.stream.totoalWrite = 0
        /\ conn[e].sender.stream.inputEnd = FALSE
        /\ stream_out(conn[e].receiver).inputEnd = FALSE
    BY <2>2 DEF NewByteStream
  <2>4. written(e) = <<>>
    BY <2>3 DEF written, sender
  <2>5. QED
    BY Zenon, <2>3, <2>4 DEF Init, sender, inbound_stream, eof
<1>2. QED
  BY Zenon, <1>1 DEF Endpoint, C2S!Init, S2C!Init

\* A step that moves both directions is a step of each abstract stream.
LEMMA StepReliable ==
  ASSUME IInv, IInv', \A e \in Endpoint : Forward(e)
  PROVE  /\ [C2S!Next]_<<written(Client), received[Server], sender(Client).stream.inputEnd,
                         eof(inbound_stream(conn[Server]))>>
         /\ [S2C!Next]_<<written(Server), received[Client], sender(Server).stream.inputEnd,
                         eof(inbound_stream(conn[Client]))>>
<1>1. /\ Client \in Endpoint /\ Server \in Endpoint
      /\ peer(Client) = Server /\ peer(Server) = Client
  BY Zenon, SystemAssumption DEF Endpoint, peer
<1>2. /\ ended(Client) = sender(Client).stream.inputEnd
      /\ ended(Server) = sender(Server).stream.inputEnd
      /\ eofSeen(Client) = eof(inbound_stream(conn[Server]))
      /\ eofSeen(Server) = eof(inbound_stream(conn[Client]))
      /\ ended(Client)' = (sender(Client).stream.inputEnd)'
      /\ ended(Server)' = (sender(Server).stream.inputEnd)'
      /\ eofSeen(Client)' = eof(inbound_stream(conn[Server]))'
      /\ eofSeen(Server)' = eof(inbound_stream(conn[Client]))'
  BY <1>1 DEF ended, eofSeen, sender, inbound_stream
<1>3. [C2S!Next]_<<written(Client), received[Server], sender(Client).stream.inputEnd,
                   eof(inbound_stream(conn[Server]))>>
  BY Zenon, <1>1, <1>2, ForwardReliable DEF C2S!Next, C2S!Write, C2S!End, C2S!Receive, C2S!IsPrefix
<1>4. [S2C!Next]_<<written(Server), received[Client], sender(Server).stream.inputEnd,
                   eof(inbound_stream(conn[Client]))>>
  BY Zenon, <1>1, <1>2, ForwardReliable DEF S2C!Next, S2C!Write, S2C!End, S2C!Receive, S2C!IsPrefix
<1>5. QED
  BY Zenon, <1>3, <1>4

\* The two connections over a network that loses, repeats and reorders
\* segments implement two reliable byte streams.
THEOREM Reliable == Spec => BothWaysReliable
<1>1. IInv /\ IInv' /\ [Next]_vars =>
        /\ [C2S!Next]_<<written(Client), received[Server], sender(Client).stream.inputEnd,
                        eof(inbound_stream(conn[Server]))>>
        /\ [S2C!Next]_<<written(Server), received[Client], sender(Server).stream.inputEnd,
                        eof(inbound_stream(conn[Client]))>>
  <2> SUFFICES ASSUME IInv, IInv', [Next]_vars
               PROVE  /\ [C2S!Next]_<<written(Client), received[Server],
                                      sender(Client).stream.inputEnd,
                                      eof(inbound_stream(conn[Server]))>>
                      /\ [S2C!Next]_<<written(Server), received[Client],
                                      sender(Server).stream.inputEnd,
                                      eof(inbound_stream(conn[Client]))>>
    BY Zenon
  <2>1. CASE Next
    BY Zenon, <2>1, NextKeeps, StepReliable
  <2>2. CASE UNCHANGED vars
    <3>1. conn' = conn /\ received' = received
      BY Zenon, <2>2 DEF vars
    <3>2. QED
      BY Zenon, <3>1 DEF written, sender, inbound_stream, stream_out
  <2>3. QED
    BY Zenon, <2>1, <2>2
<1>2. QED
  BY <1>1, InitReliable, Invariance, PTL DEF Spec, BothWaysReliable, C2S!Spec, S2C!Spec
=============================================================================
