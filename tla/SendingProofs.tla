----------------------------- MODULE SendingProofs -----------------------------
(***************************************************************************)
(* The safety properties of Sending, for every MaxInt, ISN, capacity,      *)
(* payload size, timeout and number of bytes.                              *)
(***************************************************************************)
EXTENDS Sending, TCPSenderProofs, TLAPS

\* The inductive invariant: what the sender's methods preserve, and that the
\* backoff follows the counted retransmissions.
IInv ==
  /\ SenderSound(s)
  /\ s.isn = Isn /\ s.stream.capcity = SendCapacity /\ s.stream.error = FALSE
  /\ s.stream.totoalWrite <= MaxBytes
  /\ s.retrans_num <= MaxRetx
  /\ s.RTO = rt_timeout * 2 ^ s.retrans_num

\* What a step makes of the sender: y is x after some method.
Carried(x, y) ==
  /\ SenderSound(y)
  /\ Grown(x, y)
  /\ y.isn = x.isn /\ y.stream.capcity = x.stream.capcity /\ y.stream.error = x.stream.error
  /\ y.stream.totoalWrite <= MaxBytes
  /\ y.retrans_num <= MaxRetx
  /\ y.RTO = rt_timeout * 2 ^ y.retrans_num

-----------------------------------------------------------------------------

\* Facts that no proof below cites.
HIDE DEF PayloadAssumption, DivMod, DivModUnique, MultipleGap, SameWrap, CandidateNear,
  UnwrapChoice, UnwrapInverts, SliceType, SliceConcat, CutSlice, PieceLength, NodeIsPiece,
  TrimLeftPiece, TrimRightPiece, MergePieces, AbsorbPieces, WriteSlice, EndKeepsCore,
  InsertKeepsCore, InsertNothing, PushKeepsCore, ReadKeepsCore, NewKeepsCore, NumbersSeq,
  NumbersSlice, SliceOfNumbers, GrowthKeepsCore, NatInduction, DownwardNatInduction,
  GeneralNatInduction, SmallestNatural, RecursiveFcnOfNat, NatInductiveDef,
  RecursiveFcnOfNatType, NatInductiveDefType, RecursiveFcnOfNatUnique, NatInductiveUnique,
  FiniteNatInductiveDef, FiniteNatInductiveDefType, FiniteNatInductiveUnique,
  EmptyIsWellFounded, IsWellFoundedOnSubset, IsWellFoundedOnSubrelation, WFMin, MinWF,
  WellFoundedIsIrreflexive, WellFoundedIsAsymmetric, WFSetLessThanIrreflexive,
  SetLessTransitive, WFInduction, WFDefOnUnique, WFInductiveDefLemma,
  TransitiveClosureThm, TransitiveClosureMinimal, TCTCTC, TCRTC, RTCTC,
  TransitiveClosureChopLast, TransitiveClosureWF, WFInductiveDef, WFInductiveDefType,
  NatLessThanWellFounded, PreImageWellFounded, WFLexPairOrdering, WFLexProductOrdering,
  LeastElement, AckedCount, Division, SendDataParts, WrapType, SentMonotone, CutOne,
  CutTiled, FlightItems, FlightEnd, TiledConcat, TiledDrop, TiledFin, FreshSegment,
  SynTiled, ReadWaiting, SuppliedAppend, SuppliedConcat, SynCore, FillFromStreamCore,
  FillCore, PopCore, EdgeCore

\* A new sender.
LEMMA InitSound == Init => IInv
<1> SUFFICES ASSUME Init PROVE IInv
  OBVIOUS
<1>1. /\ SendCapacity \in Nat /\ Isn \in WrappingInt32 /\ MaxBytes \in Nat /\ MaxRetx \in Nat
      /\ rt_timeout \in Nat
  BY SendingAssumption, TimeoutAssumption
<1>2. s = NewSender(SendCapacity, Isn)
  BY DEF Init
<1>3. /\ SenderSound(s) /\ s.isn = Isn /\ s.stream = NewByteStream(SendCapacity)
      /\ s.retrans_num = 0 /\ s.RTO = rt_timeout
  BY <1>1, <1>2, NewSound
<1>4. /\ s.stream.capcity = SendCapacity /\ s.stream.totoalWrite = 0 /\ s.stream.error = FALSE
  BY <1>3 DEF NewByteStream
<1>5. s.RTO = rt_timeout * 2 ^ s.retrans_num
  BY <1>1, <1>3
<1>6. QED
  BY <1>1, <1>3, <1>4, <1>5 DEF IInv

\* A sender between two calls, its queue taken.
LEMMA FlushedSound ==
  ASSUME IInv
  PROVE  /\ SenderSound(flushed) /\ flushed.isn = s.isn /\ flushed.stream = s.stream
         /\ flushed.next_seqno = s.next_seqno /\ flushed.cur_ack_index = s.cur_ack_index
         /\ flushed.wd_right_edge = s.wd_right_edge
         /\ flushed.RTO = s.RTO /\ flushed.retrans_num = s.retrans_num /\ flushed.timer = s.timer
         /\ s.next_seqno \in Nat /\ s.cur_ack_index \in Nat /\ s.wd_right_edge \in Nat
         /\ s.retrans_num \in Nat /\ s.stream.totoalWrite \in Nat
<1>1. SenderSound(s)
  BY DEF IInv
<1>2. <<>> \in Seq(SegmentType)
  OBVIOUS
<1>3. s \in SenderType /\ s.stream \in StreamType
  BY <1>1, SenderFields DEF SenderSound, Core
<1>4. s.stream.totoalWrite \in Nat
  BY <1>3 DEF StreamType
<1>5. /\ SenderSound(flushed) /\ flushed.isn = s.isn /\ flushed.stream = s.stream
      /\ flushed.next_seqno = s.next_seqno /\ flushed.cur_ack_index = s.cur_ack_index
      /\ flushed.wd_right_edge = s.wd_right_edge
      /\ flushed.RTO = s.RTO /\ flushed.retrans_num = s.retrans_num /\ flushed.timer = s.timer
  BY <1>1, <1>2, QueueSound, Zenon DEF flushed
<1>6. QED
  BY <1>3, <1>4, <1>5, SenderFields

\* The sequence numbers that can have been used.
LEMMA NextBound ==
  ASSUME IInv
  PROVE  s.next_seqno \in Nat /\ s.next_seqno <= MaxBytes + 2
<1>1. /\ s \in SenderType /\ Waiting(s.stream) /\ Numbered(s) /\ s.stream.totoalWrite <= MaxBytes
  BY DEF IInv, SenderSound, Core
<1>2. s.next_seqno \in Nat /\ s.stream \in StreamType
  BY <1>1, SenderFields
<1>3. /\ s.stream.buffer \in Seq(Nat) /\ s.stream.totoalRead \in Nat /\ s.stream.totoalWrite \in Nat
  BY <1>2 DEF StreamType
<1>4. Len(s.stream.buffer) \in Nat
  BY <1>3
<1>5. s.stream.totoalRead <= s.stream.totoalWrite
  BY <1>1, <1>3, <1>4 DEF Waiting
<1>6. MaxBytes \in Nat
  BY SendingAssumption
<1>7. QED
  BY <1>1, <1>2, <1>3, <1>5, <1>6 DEF Numbered

\* fill_window, after the application has connected, written or ended.
LEMMA FillCarried ==
  ASSUME IInv, NEW x, SenderSound(x), SameControl(s, x), s.next_seqno = x.next_seqno,
         x.stream.capcity = SendCapacity, x.stream.error = FALSE,
         x.stream.totoalWrite <= MaxBytes
  PROVE  Carried(s, fill_window(x))
<1> DEFINE y == fill_window(x)
<1>1. SenderSound(y) /\ Grown(x, y) /\ SameInput(x, y) /\ SameControl(x, y)
  BY FillSound
<1> HIDE DEF y
<1>2. Grown(s, y)
  BY <1>1 DEF Grown, SameControl
<1>3. QED
  BY Zenon, <1>1, <1>2 DEF Carried, IInv, SameControl, SameInput, y

\* TCPConnection::connect.
LEMMA ConnectCarried == IInv /\ Connect => Carried(s, s')
<1> SUFFICES ASSUME IInv, Connect PROVE Carried(s, s')
  OBVIOUS
<1>1. s' = fill_window(flushed)
  BY DEF Connect
<1>2. SenderSound(flushed) /\ SameControl(s, flushed) /\ s.next_seqno = flushed.next_seqno
  BY FlushedSound DEF SameControl
<1>3. /\ flushed.stream.capcity = SendCapacity /\ flushed.stream.error = FALSE
      /\ flushed.stream.totoalWrite <= MaxBytes
  BY Zenon, FlushedSound DEF IInv
<1>4. QED
  BY Zenon, <1>1, <1>2, <1>3, FillCarried

\* TCPConnection::write.
LEMMA WriteCarried ==
  ASSUME IInv, NEW n \in 1 .. MaxBytes, Write(n)
  PROVE  Carried(s, s')
<1> DEFINE st   == s.stream
           data == [k \in 1 .. n |-> st.totoalWrite + k]
           new  == stream_write(st, data)
           x    == [flushed EXCEPT !.stream = new]
<1>1. /\ s.next_seqno > 0 /\ ~st.inputEnd /\ st.totoalWrite + n <= MaxBytes
      /\ s' = fill_window([flushed EXCEPT !.stream = stream_write(flushed.stream, data)])
  BY DEF Write, flushed
<1>2. s' = fill_window(x)
  BY Zenon, <1>1, FlushedSound
<1>3. Waiting(st) /\ n \in Nat /\ MaxBytes \in Nat /\ st.capcity = SendCapacity /\ st.error = FALSE
  BY SendingAssumption DEF IInv, SenderSound, Core
<1>4. /\ Waiting(new) /\ new.totoalRead = st.totoalRead /\ new.error = st.error
      /\ new.capcity = st.capcity /\ new.totoalWrite <= st.totoalWrite + n
  BY <1>3, WriteWaiting
<1>5. new.totoalWrite \in Nat /\ st.totoalWrite \in Nat
  BY <1>3, <1>4 DEF Waiting, StreamType
<1> HIDE DEF new
<1>6. SenderSound(x) /\ SameControl(flushed, x) /\ x.next_seqno = flushed.next_seqno /\ x.stream = new
  BY <1>1, <1>4, FlushedSound, InputSound
<1> HIDE DEF x
<1>7. SameControl(s, x) /\ s.next_seqno = x.next_seqno
  BY <1>6, FlushedSound DEF SameControl
<1>8. new.totoalWrite <= MaxBytes
  BY <1>1, <1>3, <1>4, <1>5
<1>9. QED
  BY Zenon, <1>2, <1>3, <1>4, <1>6, <1>7, <1>8, FillCarried

\* TCPConnection::end_input_stream.
LEMMA EndCarried == IInv /\ End => Carried(s, s')
<1> SUFFICES ASSUME IInv, End PROVE Carried(s, s')
  OBVIOUS
<1> DEFINE st  == s.stream
           new == end_input(st)
           x   == [flushed EXCEPT !.stream = new]
<1>1. /\ s.next_seqno > 0 /\ ~st.inputEnd
      /\ s' = fill_window([flushed EXCEPT !.stream = end_input(flushed.stream)])
  BY DEF End, flushed
<1>2. s' = fill_window(x)
  BY <1>1, FlushedSound
<1>3. /\ Waiting(st) /\ st.capcity = SendCapacity /\ st.error = FALSE /\ st.totoalWrite <= MaxBytes
  BY DEF IInv, SenderSound, Core
<1>4. st \in StreamType
  BY <1>3 DEF Waiting
<1>5. /\ new \in StreamType /\ new.totoalRead = st.totoalRead /\ new.error = st.error
      /\ new.capcity = st.capcity /\ new.totoalWrite = st.totoalWrite /\ new.buffer = st.buffer
  BY Zenon, <1>4 DEF StreamType, end_input
<1> HIDE DEF new
<1>6. Waiting(new)
  BY <1>3, <1>5 DEF Waiting
<1>7. SenderSound(x) /\ SameControl(flushed, x) /\ x.next_seqno = flushed.next_seqno /\ x.stream = new
  BY <1>1, <1>5, <1>6, FlushedSound, InputSound
<1> HIDE DEF x
<1>8. SameControl(s, x) /\ s.next_seqno = x.next_seqno
  BY <1>7, FlushedSound DEF SameControl
<1>9. QED
  BY Zenon, <1>2, <1>3, <1>5, <1>7, <1>8, FillCarried

\* An acknowledgment of anything sent, with any window.
LEMMA AckCarried ==
  ASSUME IInv, NEW ack \in 1 .. MaxBytes + 2, NEW window \in 0 .. MaxWindow, Ack(ack, window)
  PROVE  Carried(s, s')
<1> DEFINE y == ack_received(flushed, wrap(ack, flushed.isn), window)
<1>1. s' = y /\ ack <= flushed.next_seqno
  BY Zenon, FlushedSound DEF Ack, IInv
<1>2. /\ MaxBytes \in Nat /\ MaxWindow \in Nat /\ MaxRetx \in Nat /\ MaxInt > 2 * (MaxBytes + 3)
      /\ MaxInt \in Nat /\ rt_timeout \in Nat
  BY SendingAssumption, TimeoutAssumption, MaxIntAssumption
<1>3. ack \in Nat /\ window \in Nat
  BY <1>2
<1>4. flushed.next_seqno \in Nat /\ flushed.next_seqno <= MaxBytes + 2
  BY NextBound, FlushedSound
<1>5. 2 * (flushed.next_seqno - ack) <= MaxInt
  BY <1>2, <1>3, <1>4
<1>6. /\ SenderSound(y) /\ Grown(flushed, y) /\ SameInput(flushed, y) /\ y.isn = flushed.isn
      /\ SameBackoff(flushed, y)
  BY <1>1, <1>3, <1>5, FlushedSound, AckSound
<1> HIDE DEF y
<1>7. Grown(s, y) /\ SameInput(s, y) /\ y.isn = s.isn /\ SameBackoff(s, y)
  BY <1>6, FlushedSound DEF Grown, SameInput, SameBackoff
<1>8. y.retrans_num <= MaxRetx /\ y.RTO = rt_timeout * 2 ^ y.retrans_num
  <2>1. CASE y.RTO = s.RTO /\ y.retrans_num = s.retrans_num
    BY <2>1 DEF IInv
  <2>2. CASE y.RTO = rt_timeout /\ y.retrans_num = 0
    BY <1>2, <2>2
  <2>3. QED
    BY <1>7, <2>1, <2>2 DEF SameBackoff
<1>9. QED
  BY <1>1, <1>6, <1>7, <1>8 DEF Carried, SameInput, IInv

\* A millisecond passes.
LEMMA TickCarried == IInv /\ Tick => Carried(s, s')
<1> SUFFICES ASSUME IInv, Tick PROVE Carried(s, s')
  OBVIOUS
<1> DEFINE y == sender_tick(flushed, 1)
<1>1. s' = y /\ s.retrans_num < MaxRetx /\ s.retrans_num \in Nat /\ MaxRetx \in Nat
      /\ rt_timeout \in Nat
  BY FlushedSound, SendingAssumption, TimeoutAssumption DEF Tick
<1>2. /\ SenderSound(y) /\ y.stream = flushed.stream /\ y.isn = flushed.isn
      /\ y.next_seqno = flushed.next_seqno /\ y.cur_ack_index = flushed.cur_ack_index
      /\ y.wd_right_edge = flushed.wd_right_edge
      /\ \/ y.RTO = flushed.RTO /\ y.retrans_num = flushed.retrans_num
         \/ y.RTO = 2 * flushed.RTO /\ y.retrans_num = flushed.retrans_num + 1
  <2>1. SenderSound(flushed) /\ 1 \in Nat
    BY FlushedSound
  <2>2. QED
    BY ONLY <2>1, TickSound
<1> HIDE DEF y
<1>3. y.stream = s.stream /\ y.isn = s.isn /\ Grown(s, y)
  BY <1>2, FlushedSound DEF Grown
<1>4. y.retrans_num <= MaxRetx /\ y.RTO = rt_timeout * 2 ^ y.retrans_num
  <2>1. CASE y.RTO = s.RTO /\ y.retrans_num = s.retrans_num
    BY <2>1 DEF IInv
  <2>2. CASE y.RTO = 2 * s.RTO /\ y.retrans_num = s.retrans_num + 1
    <3>1. s.RTO = rt_timeout * 2 ^ s.retrans_num
      BY DEF IInv
    <3>2. 2 ^ s.retrans_num \in Nat /\ 2 ^ (s.retrans_num + 1) = 2 * 2 ^ s.retrans_num
      BY <1>1, PowersAssumption
    <3>3. QED
      BY <1>1, <2>2, <3>1, <3>2
  <2>3. QED
    BY <1>2, <2>1, <2>2, FlushedSound
<1>5. QED
  BY <1>1, <1>2, <1>3, <1>4 DEF Carried, IInv

\* TCPConnection::ack_back.
LEMMA EmptyAckCarried == IInv /\ EmptyAck => Carried(s, s')
<1> SUFFICES ASSUME IInv, EmptyAck PROVE Carried(s, s')
  OBVIOUS
<1> DEFINE y == send_empty_ack(flushed)
<1>1. s' = y
  BY DEF EmptyAck
<1>2. SenderSound(y) /\ Grown(flushed, y) /\ y.stream = flushed.stream /\ SameControl(flushed, y)
  BY FlushedSound, EmptyAckSound
<1> HIDE DEF y
<1>3. Grown(s, y) /\ y.stream = s.stream /\ SameControl(s, y)
  BY <1>2, FlushedSound DEF Grown, SameControl
<1>4. QED
  BY <1>1, <1>2, <1>3 DEF Carried, SameControl, IInv

\* Every step.
LEMMA NextCarried == IInv /\ Next => Carried(s, s')
  BY ConnectCarried, WriteCarried, EndCarried, AckCarried, TickCarried, EmptyAckCarried DEF Next

\* The invariant is inductive.
LEMMA NextSound == IInv /\ [Next]_vars => IInv'
<1>1. ASSUME IInv, Next PROVE IInv'
  BY <1>1, NextCarried DEF Carried, IInv
<1>2. ASSUME IInv, UNCHANGED vars PROVE IInv'
  BY <1>2 DEF IInv, vars
<1>3. QED
  BY <1>1, <1>2

\* The invariant says what the properties say.
LEMMA InvImplies == IInv => TypeOK /\ FlightTiled /\ WindowRespected /\ TimerAndBackoff
<1> SUFFICES ASSUME IInv PROVE TypeOK /\ FlightTiled /\ WindowRespected /\ TimerAndBackoff
  OBVIOUS
<1>1. TypeOK
  BY DEF IInv, SenderSound, Core, TypeOK
<1>2. WindowRespected
  BY DEF IInv, SenderSound, Windowed, WindowRespected
<1>3. TimerAndBackoff
  BY DEF IInv, SenderSound, Core, Timed, TimerAndBackoff
<1>4. FlightTiled
  <2>1. \A k : flight_start(k) = Start(s.cur_ack_index, s.seg_buffer, k)
    BY DEF flight_start, Start
  <2>2. /\ Tiled(s.cur_ack_index, s.seg_buffer, Isn, s.fin_ack_index) /\ Numbered(s)
        /\ s.next_seqno = Start(s.cur_ack_index, s.seg_buffer, Len(s.seg_buffer) + 1)
    BY DEF IInv, SenderSound, Core
  <2>3. QED
    BY <2>1, <2>2 DEF FlightTiled, Tiled, Covers, Numbered
<1>5. QED
  BY <1>1, <1>2, <1>3, <1>4

-----------------------------------------------------------------------------

\* Facts that no proof below cites.
HIDE DEF MaxIntAssumption, TimeoutAssumption, SendingAssumption, PowersAssumption,
  WriteWaiting, SenderFields, AckSound, QueueSound, InputSound, FillSound, TickSound,
  EmptyAckSound, NewSound, FlushedSound, NextBound, FillCarried, ConnectCarried,
  WriteCarried, EndCarried, AckCarried, TickCarried, EmptyAckCarried

\* The invariant holds in every reachable state.
THEOREM SenderInvariant == Spec => []IInv
  BY InitSound, NextSound, PTL DEF Spec

\* Every field has its type, and the ISN, the capacity and the absence of an
\* error are as configured.
THEOREM SenderTyped == Spec => []TypeOK
  BY SenderInvariant, InvImplies, PTL

\* The outstanding segments always tile the sequence numbers from
\* cur_ack_index to _next_seqno: what tick retransmits is the first byte not
\* acknowledged, and no byte is lost between the stream and the flight.
THEOREM FlightIsTiled == Spec => []FlightTiled
  BY SenderInvariant, InvImplies, PTL

\* The sender never passes the right edge of the window by more than the one
\* sequence number of a probe, and the edge never falls behind cur_ack_index.
THEOREM WindowIsRespected == Spec => []WindowRespected
  BY SenderInvariant, InvImplies, PTL

\* An empty flight has a stopped timer and no counted retransmission, a
\* running timer is below the RTO, and the RTO is the initial one doubled once
\* per counted retransmission.
THEOREM TimerAndBackoffHold == Spec => []TimerAndBackoff
  BY SenderInvariant, InvImplies, PTL

\* No step of the sender takes back a sequence number, an acknowledgment or
\* window space.
THEOREM NothingIsTakenBack == Spec => NothingTakenBack
<1> DEFINE A == /\ s.next_seqno <= s'.next_seqno
                /\ s.cur_ack_index <= s'.cur_ack_index
                /\ s.wd_right_edge <= s'.wd_right_edge
<1>1. IInv /\ [Next]_vars => [A]_vars
  BY NextCarried DEF Carried, Grown
<1>2. QED
  BY <1>1, SenderInvariant, PTL DEF Spec, NothingTakenBack
=============================================================================
