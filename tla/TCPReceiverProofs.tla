--------------------------- MODULE TCPReceiverProofs ---------------------------
(***************************************************************************)
(* What a TCPReceiver is built from, for every value of the constants:     *)
(* wrapping and unwrapping of sequence numbers, and what each operation of *)
(* a StreamReassembler preserves.                                          *)
(*                                                                         *)
(* ReassemblerCore(src, cap, err, q, dl) relates a reassembler q of        *)
(* capacity cap, from which dl has been read, to the stream src it is fed  *)
(* from; it holds when src grows at its end, so that the stream may be the *)
(* one that a peer is still writing.                                       *)
(***************************************************************************)
EXTENDS TCPReceiver

\* Division with remainder, as the provers need it.
LEMMA DivMod ==
  ASSUME NEW x \in Int, NEW m \in Nat \ {0}
  PROVE  /\ x % m \in 0 .. m - 1
         /\ x \div m \in Int
         /\ x = m * (x \div m) + (x % m)
  OBVIOUS

\* Quotient and remainder are unique.
LEMMA DivModUnique ==
  ASSUME NEW m \in Nat \ {0}, NEW a \in Int, NEW b \in Int,
         NEW r \in 0 .. m - 1, NEW t \in 0 .. m - 1,
         m * a + r = m * b + t
  PROVE  a = b /\ r = t
  OBVIOUS

\* A multiple of m other than zero is at least m away from zero.
LEMMA MultipleGap ==
  ASSUME NEW m \in Nat \ {0}, NEW k \in Int
  PROVE  /\ m * k \in Int
         /\ k = 0 => m * k = 0
         /\ k >= 1 => m * k >= m
         /\ k <= -1 => m * k <= -m
  OBVIOUS

\* Two numbers wrap to the same raw value iff they differ by a multiple of MaxInt.
LEMMA SameWrap ==
  ASSUME NEW x \in Int, NEW y \in Int, NEW i \in Int
  PROVE  wrap(x, i) = wrap(y, i) <=> \E k \in Int : x = y + MaxInt * k
<1> DEFINE a == (i + x) \div MaxInt
           b == (i + y) \div MaxInt
           r == (i + x) % MaxInt
           t == (i + y) % MaxInt
<1>1. /\ a \in Int /\ r \in 0 .. MaxInt - 1 /\ i + x = MaxInt * a + r
      /\ b \in Int /\ t \in 0 .. MaxInt - 1 /\ i + y = MaxInt * b + t
  <2>1. i + x \in Int /\ i + y \in Int
    OBVIOUS
  <2>2. QED
    BY <2>1, DivMod, MaxIntAssumption
<1> HIDE DEF a, b, r, t
<1>2. ASSUME r = t PROVE x = y + MaxInt * (a - b) /\ a - b \in Int
  BY <1>1, <1>2, MaxIntAssumption
<1>3. ASSUME NEW k \in Int, x = y + MaxInt * k PROVE r = t
  <2>1. MaxInt * a + r = MaxInt * (b + k) + t
    BY <1>1, <1>3, MaxIntAssumption
  <2>2. b + k \in Int
    BY <1>1
  <2>3. QED
    BY <2>1, <2>2, <1>1, DivModUnique, MaxIntAssumption
<1>4. wrap(x, i) = r /\ wrap(y, i) = t
  BY DEF wrap, r, t
<1>5. QED
  BY <1>2, <1>3, <1>4

\* Where the candidate of unwrap lies.
LEMMA CandidateNear ==
  ASSUME NEW n \in Nat, NEW i \in WrappingInt32, NEW cp \in Nat
  PROVE  LET mid == candidate(wrap(n, i), i, cp)
         IN  /\ mid \in Nat
             /\ mid - cp < MaxInt /\ cp - mid < MaxInt
             /\ wrap(mid, i) = wrap(n, i)
<1> DEFINE w == (i + n) % MaxInt
           e == (i + n) \div MaxInt
           r == (MaxInt - i + w) % MaxInt
           f == (MaxInt - i + w) \div MaxInt
           q == cp \div MaxInt
           t == cp % MaxInt
           mid == r + q * MaxInt
<1>1. i \in Int /\ n \in Int /\ i + n \in Int /\ cp \in Int /\ MaxInt \in Int
  BY MaxIntAssumption DEF WrappingInt32
<1>2. e \in Int /\ w \in 0 .. MaxInt - 1 /\ i + n = MaxInt * e + w
  BY <1>1, DivMod, MaxIntAssumption
<1>3. MaxInt - i + w \in Int
  BY <1>1, <1>2
<1>4. f \in Int /\ r \in 0 .. MaxInt - 1 /\ MaxInt - i + w = MaxInt * f + r
  BY <1>3, DivMod, MaxIntAssumption
<1>5. q \in Int /\ t \in 0 .. MaxInt - 1 /\ cp = MaxInt * q + t
  BY <1>1, DivMod, MaxIntAssumption
<1>6. candidate(wrap(n, i), i, cp) = mid
  BY DEF candidate, wrap
<1> HIDE DEF w, e, r, f, q, t
<1>7. q \in Nat
  BY <1>5, MaxIntAssumption, MultipleGap
<1>8. mid \in Nat /\ mid - cp < MaxInt /\ cp - mid < MaxInt
  BY <1>4, <1>5, <1>7, MaxIntAssumption
<1>9. wrap(mid, i) = wrap(n, i)
  <2>1. q - e - f + 1 \in Int /\ mid \in Int
    BY <1>2, <1>4, <1>5, <1>8
  <2>2. mid = n + MaxInt * (q - e - f + 1)
    BY <1>1, <1>2, <1>4, <1>5, MaxIntAssumption
  <2>3. QED
    BY <2>1, <2>2, <1>1, SameWrap
<1>10. QED
  BY <1>6, <1>8, <1>9

\* What unwrap returns wraps to the same value, is not negative, and is the
\* candidate or its neighbour on the side of the checkpoint, whichever is closer.
LEMMA UnwrapChoice ==
  ASSUME NEW n \in Nat, NEW i \in WrappingInt32, NEW cp \in Nat
  PROVE  LET u == unwrap(wrap(n, i), i, cp)
         IN  /\ u \in Nat
             /\ wrap(u, i) = wrap(n, i)
             /\ 2 * (cp - u) <= MaxInt
             /\ 2 * (u - cp) < MaxInt \/ (u < MaxInt /\ u - cp < MaxInt)
<1> DEFINE mid == candidate(wrap(n, i), i, cp)
           u   == unwrap(wrap(n, i), i, cp)
<1>1. mid \in Nat /\ mid - cp < MaxInt /\ cp - mid < MaxInt /\ wrap(mid, i) = wrap(n, i)
  BY CandidateNear
<1>2. u = IF mid > cp
          THEN IF mid - cp < cp - (mid - MaxInt) \/ mid < MaxInt THEN mid ELSE mid - MaxInt
          ELSE IF (mid + MaxInt) - cp < cp - mid THEN mid + MaxInt ELSE mid
  BY DEF unwrap
<1> HIDE DEF mid, u
<1>3. /\ u \in Nat
      /\ 2 * (cp - u) <= MaxInt
      /\ 2 * (u - cp) < MaxInt \/ (u < MaxInt /\ u - cp < MaxInt)
  BY <1>1, <1>2, MaxIntAssumption
<1>4. \E k \in Int : u = mid + MaxInt * k
  <2>1. MaxInt * 0 = 0 /\ MaxInt * 1 = MaxInt /\ MaxInt * (-1) = -MaxInt
    BY MaxIntAssumption
  <2>2. u = mid + MaxInt * 0 \/ u = mid + MaxInt * 1 \/ u = mid + MaxInt * (-1)
    BY <1>1, <1>2, <2>1, MaxIntAssumption
  <2>3. QED
    BY <2>2
<1>5. u \in Int /\ mid \in Int /\ i \in Int
  BY <1>1, <1>3 DEF WrappingInt32
<1>6. wrap(u, i) = wrap(n, i)
  BY <1>1, <1>4, <1>5, SameWrap
<1>7. QED
  BY <1>3, <1>6 DEF u

\* unwrap inverts wrap within half of the sequence space of the checkpoint.
LEMMA UnwrapInverts ==
  ASSUME NEW n \in Nat, NEW i \in WrappingInt32, NEW cp \in Nat,
         2 * (n - cp) < MaxInt, 2 * (cp - n) <= MaxInt
  PROVE  unwrap(wrap(n, i), i, cp) = n
<1> DEFINE u == unwrap(wrap(n, i), i, cp)
<1>1. /\ u \in Nat /\ wrap(u, i) = wrap(n, i)
      /\ 2 * (cp - u) <= MaxInt
      /\ 2 * (u - cp) < MaxInt \/ (u < MaxInt /\ u - cp < MaxInt)
  BY UnwrapChoice
<1> HIDE DEF u
<1>2. i \in Int /\ u \in Int /\ n \in Int
  BY <1>1 DEF WrappingInt32
<1>3. PICK k \in Int : u = n + MaxInt * k
  BY <1>1, <1>2, SameWrap
<1>4. /\ MaxInt * k \in Int /\ (k = 0 => MaxInt * k = 0)
      /\ (k >= 1 => MaxInt * k >= MaxInt) /\ (k <= -1 => MaxInt * k <= -MaxInt)
  BY MultipleGap, MaxIntAssumption
<1>5. k = 0
  <2>1. CASE k >= 1
    BY <2>1, <1>1, <1>3, <1>4, MaxIntAssumption
  <2>2. CASE k <= -1
    BY <2>2, <1>1, <1>3, <1>4, MaxIntAssumption
  <2>3. QED
    BY <2>1, <2>2
<1>6. QED
  BY <1>3, <1>4, <1>5 DEF u

-----------------------------------------------------------------------------
\* The values of a sequence.
Values(src) == {src[i] : i \in DOMAIN src}

\* The bytes with index a, ..., b - 1 of the stream.
Slice(src, a, b) == SubSeq(src, a + 1, b)

\* The node that holds the stream's bytes with index a, ..., b.
Piece(src, a, b) == [start_idx |-> a, end_idx |-> b, data |-> Slice(src, a, b + 1)]

IsPiece(src, s) ==
  /\ s = Piece(src, s.start_idx, s.end_idx)
  /\ s.start_idx \in Nat /\ s.end_idx \in Nat
  /\ s.start_idx <= s.end_idx /\ s.end_idx < Len(src)

\* The length of a slice.
LEMMA SliceType ==
  ASSUME NEW src, src \in Seq(Values(src)),
         NEW a \in Nat, NEW b \in Nat, a <= b, b <= Len(src)
  PROVE  Slice(src, a, b) \in Seq(Values(src)) /\ Len(Slice(src, a, b)) = b - a
<1>1. Len(src) \in Nat /\ \A i \in a + 1 .. b : src[i] \in Values(src)
  OBVIOUS
<1>2. QED
  BY <1>1 DEF Slice

\* Adjacent slices make a longer one.
LEMMA SliceConcat ==
  ASSUME NEW src, src \in Seq(Values(src)),
         NEW a \in Nat, NEW b \in Nat, NEW c \in Nat,
         a <= b, b <= c, c <= Len(src)
  PROVE  Slice(src, a, b) \o Slice(src, b, c) = Slice(src, a, c)
<1>1. Len(src) \in Nat
  OBVIOUS
<1>2. /\ a + 1 \in 1 .. Len(src) + 1
      /\ b \in a + 1 - 1 .. Len(src)
      /\ c \in b .. Len(src)
  BY <1>1
<1>3. QED
  BY <1>2 DEF Slice

\* SubSeq under a name that the provers do not expand.
Cut(s, i, j) == SubSeq(s, i, j)

\* A part of a slice is a slice.
LEMMA CutSlice ==
  ASSUME NEW src, src \in Seq(Values(src)),
         NEW a \in Nat, NEW b \in Nat, a <= b, b <= Len(src),
         NEW i \in 1 .. b - a + 1, NEW j \in i - 1 .. b - a
  PROVE  Cut(Slice(src, a, b), i, j) = Slice(src, a + i - 1, a + j)
<1>1. Len(src) \in Nat
  OBVIOUS
<1>2. CASE j < i
  BY <1>1, <1>2 DEF Slice, Cut
<1>3. CASE i <= j
  <2>1. /\ a + 1 \in 1 .. Len(src) /\ b \in 1 .. Len(src)
        /\ i \in 1 .. b - (a + 1) + 1 /\ j \in 1 .. b - (a + 1) + 1
    BY <1>1, <1>3
  <2>2. SubSeq(SubSeq(src, a + 1, b), i, j) = SubSeq(src, (a + 1) + i - 1, (a + 1) + j - 1)
    BY <2>1
  <2>3. (a + 1) + i - 1 = a + i - 1 + 1 /\ (a + 1) + j - 1 = a + j
    OBVIOUS
  <2>4. QED
    BY <2>2, <2>3 DEF Slice, Cut
<1>4. QED
  BY <1>2, <1>3

\* The length of the data of a Piece.
LEMMA PieceLength ==
  ASSUME NEW src, src \in Seq(Values(src)),
         NEW a \in Nat, NEW b \in Nat, a <= b, b < Len(src)
  PROVE  Len(Slice(src, a, b + 1)) = b + 1 - a /\ b + 1 <= Len(src)
<1>1. b + 1 \in Nat /\ a <= b + 1 /\ b + 1 <= Len(src)
  OBVIOUS
<1>2. QED
  BY <1>1, SliceType

\* The node that push_substring makes of its arguments (line 36).
LEMMA NodeIsPiece ==
  ASSUME NEW src, src \in Seq(Values(src)),
         NEW a \in Nat, NEW b \in Nat, a < b, b <= Len(src)
  PROVE  node(a, Slice(src, a, b)) = Piece(src, a, b - 1)
<1>1. Len(Slice(src, a, b)) = b - a
  BY SliceType
<1>2. a + (b - a) - 1 = b - 1 /\ b - 1 + 1 = b
  OBVIOUS
<1>3. QED
  BY <1>1, <1>2 DEF node, Piece

\* Cutting off what is already assembled (lines 44-47).
LEMMA TrimLeftPiece ==
  ASSUME NEW src, src \in Seq(Values(src)),
         NEW q, NEW a \in Nat, NEW b \in Nat, b < Len(src), a <= b,
         NEW c \in Nat, q.cur_idx = c, c <= b
  PROVE  trim_left(q, Piece(src, a, b)) = Piece(src, max(a, c), b)
<1>1. CASE a < c
  <2>1. Len(Slice(src, a, b + 1)) = b + 1 - a /\ b + 1 <= Len(src)
    BY PieceLength
  <2>2. Cut(Slice(src, a, b + 1), c - a + 1, b + 1 - a) = Slice(src, c, b + 1)
    <3>1. /\ b + 1 \in Nat /\ a <= b + 1 /\ c - a + 1 \in 1 .. b + 1 - a + 1
          /\ b + 1 - a \in c - a + 1 - 1 .. b + 1 - a
      BY <1>1
    <3>2. QED
      BY <3>1, <2>1, CutSlice
  <2>3. QED
    BY <1>1, <2>1, <2>2 DEF trim_left, Piece, max, Cut
<1>2. CASE ~(a < c)
  BY <1>2 DEF trim_left, Piece, max
<1>3. QED
  BY <1>1, <1>2

\* Cutting off what lies beyond the window (lines 48-51); the whole node, if
\* the window is full.
LEMMA TrimRightPiece ==
  ASSUME NEW src, src \in Seq(Values(src)),
         NEW q, NEW a \in Nat, NEW b \in Nat, b < Len(src), a <= b,
         NEW m \in Int, max_idx(q) = m, a <= m + 1
  PROVE  trim_right(q, Piece(src, a, b)) = Piece(src, a, min(b, m))
<1>1. CASE b > m
  <2>1. Len(Slice(src, a, b + 1)) = b + 1 - a /\ b + 1 <= Len(src)
    BY PieceLength
  <2>2. Cut(Slice(src, a, b + 1), 1, b + 1 - a - (b - m)) = Slice(src, a, m + 1)
    <3>1. /\ b + 1 \in Nat /\ a <= b + 1 /\ 1 \in 1 .. b + 1 - a + 1
          /\ b + 1 - a - (b - m) \in 1 - 1 .. b + 1 - a
      BY <1>1
    <3>2. QED
      BY <3>1, <2>1, CutSlice
  <2>3. trim_right(q, Piece(src, a, b))
          = [start_idx |-> a, end_idx |-> m,
             data |-> Cut(Slice(src, a, b + 1), 1, Len(Slice(src, a, b + 1)) - (b - m))]
    BY <1>1 DEF trim_right, Piece, Cut
  <2>4. min(b, m) = m
    BY <1>1 DEF min
  <2>5. QED
    BY <2>1, <2>2, <2>3, <2>4 DEF Piece
<1>2. CASE ~(b > m)
  BY <1>2 DEF trim_right, Piece, min
<1>3. QED
  BY <1>1, <1>2

\* mergeTo of two Pieces that overlap or touch (lines 19-28).
LEMMA MergePieces ==
  ASSUME NEW src, src \in Seq(Values(src)),
         NEW a \in Nat, NEW b \in Nat, NEW c \in Nat, NEW d \in Nat,
         a <= b, b < Len(src), c <= d, d < Len(src),
         b + 1 >= c, d + 1 >= a
  PROVE  mergeTo(Piece(src, a, b), Piece(src, c, d)) = Piece(src, min(a, c), max(b, d))
<1> DEFINE left  == IF a < c THEN SubSeq(Slice(src, a, b + 1), 1, c - a) ELSE <<>>
           right == IF b > d
                    THEN SubSeq(Slice(src, a, b + 1), Len(Slice(src, a, b + 1)) - (b - d) + 1,
                                Len(Slice(src, a, b + 1)))
                    ELSE <<>>
<1>1. Len(src) \in Nat /\ Len(Slice(src, a, b + 1)) = b + 1 - a
  <2>1. Len(src) \in Nat
    OBVIOUS
  <2>2. QED
    BY <2>1, PieceLength
<1>2. left = Slice(src, min(a, c), c)
  <2>1. CASE a < c
    <3>1. Cut(Slice(src, a, b + 1), 1, c - a) = Slice(src, a, c)
      <4>1. /\ b + 1 \in Nat /\ a <= b + 1 /\ b + 1 <= Len(src)
            /\ 1 \in 1 .. b + 1 - a + 1 /\ c - a \in 1 - 1 .. b + 1 - a
        BY <1>1, <2>1
      <4>2. QED
        BY <4>1, CutSlice
    <3>2. QED
      BY <3>1, <2>1 DEF min, Cut
  <2>2. CASE ~(a < c)
    BY <2>2 DEF Slice, min
  <2>3. QED
    BY <2>1, <2>2
<1>3. right = Slice(src, d + 1, max(b, d) + 1)
  <2>1. CASE b > d
    <3>1. Cut(Slice(src, a, b + 1), b + 1 - a - (b - d) + 1, b + 1 - a) = Slice(src, d + 1, b + 1)
      <4>1. /\ b + 1 \in Nat /\ a <= b + 1 /\ b + 1 <= Len(src)
            /\ b + 1 - a - (b - d) + 1 \in 1 .. b + 1 - a + 1
            /\ b + 1 - a \in b + 1 - a - (b - d) + 1 - 1 .. b + 1 - a
        BY <1>1, <2>1
      <4>2. QED
        BY <4>1, CutSlice
    <3>2. right = Cut(Slice(src, a, b + 1), Len(Slice(src, a, b + 1)) - (b - d) + 1, Len(Slice(src, a, b + 1)))
      BY <2>1 DEF Cut
    <3>3. max(b, d) = b
      BY <2>1 DEF max
    <3>4. QED
      BY <3>1, <3>2, <3>3, <1>1
  <2>2. CASE ~(b > d)
    BY <2>2 DEF Slice, max
  <2>3. QED
    BY <2>1, <2>2
<1>4. left \o Slice(src, c, d + 1) \o right = Slice(src, min(a, c), max(b, d) + 1)
  <2> DEFINE lo  == min(a, c)
             mid == d + 1
             hi  == max(b, d) + 1
  <2>1. /\ lo \in Nat /\ lo <= c /\ c <= Len(src)
        /\ mid \in Nat /\ c <= mid /\ lo <= mid /\ mid <= Len(src)
        /\ hi \in Nat /\ mid <= hi /\ hi <= Len(src)
    BY <1>1 DEF min, max
  <2>2. left = Slice(src, lo, c) /\ right = Slice(src, mid, hi)
    BY <1>2, <1>3
  <2> HIDE DEF lo, mid, hi, left, right
  <2>3. Slice(src, lo, c) \o Slice(src, c, mid) = Slice(src, lo, mid)
    <3>1. /\ lo \in Nat /\ c \in Nat /\ mid \in Nat /\ lo <= c /\ c <= mid /\ mid <= Len(src)
          /\ src \in Seq(Values(src))
      BY <2>1
    <3>2. QED
      BY ONLY <3>1, SliceConcat
  <2>4. Slice(src, lo, mid) \o Slice(src, mid, hi) = Slice(src, lo, hi)
    <3>1. /\ lo \in Nat /\ mid \in Nat /\ hi \in Nat /\ lo <= mid /\ mid <= hi /\ hi <= Len(src)
          /\ src \in Seq(Values(src))
      BY <2>1
    <3>2. QED
      BY ONLY <3>1, SliceConcat
  <2>5. left \o Slice(src, c, mid) \o right = Slice(src, lo, hi)
    BY <2>2, <2>3, <2>4
  <2>6. QED
    BY <2>5 DEF lo, mid, hi
<1>5. mergeTo(Piece(src, a, b), Piece(src, c, d))
        = [start_idx |-> min(a, c), end_idx |-> max(b, d),
           data |-> left \o Slice(src, c, d + 1) \o right]
  BY DEF mergeTo, Piece
<1>6. QED
  BY <1>4, <1>5 DEF Piece

\* No two nodes of segs overlap or touch.
Separated(segs) ==
  \A s, t \in segs : s # t => s.end_idx + 1 < t.start_idx \/ t.end_idx + 1 < s.start_idx

\* From c to d is what a .. b and segs cover together, and nothing else.
Spanned(src, segs, a, b, c, d) ==
  /\ c <= a /\ b <= d /\ d < Len(src)
  /\ c = a \/ \E s \in segs : s.start_idx = c
  /\ d = b \/ \E s \in segs : s.end_idx = d
  /\ \A s \in segs : c <= s.start_idx /\ s.end_idx <= d

\* absorb returns the node that covers nd and all of segs, and nothing else.
LEMMA AbsorbPieces ==
  ASSUME NEW src, src \in Seq(Values(src)),
         NEW segs, \A s \in segs : IsPiece(src, s), Separated(segs),
         NEW a \in Nat, NEW b \in Nat, a <= b, b < Len(src),
         \A s \in segs : s.end_idx + 1 >= a /\ b + 1 >= s.start_idx
  PROVE  \E c, d \in Nat :
            absorb(segs, Piece(src, a, b)) = Piece(src, c, d) /\ Spanned(src, segs, a, b, c, d)
<1> DEFINE lefts  == {s \in segs : s.start_idx < a}
           rights == {s \in segs : s.end_idx > b}
           L      == CHOOSE s \in lefts : TRUE
           R      == CHOOSE s \in rights : TRUE
           nd1    == IF lefts = {} THEN Piece(src, a, b) ELSE mergeTo(L, Piece(src, a, b))
<1>1. \A s \in segs : /\ s.start_idx \in Nat /\ s.end_idx \in Nat /\ s.start_idx <= s.end_idx
                      /\ s.end_idx < Len(src) /\ s = Piece(src, s.start_idx, s.end_idx)
  BY DEF IsPiece
<1>2. lefts # {} => L \in lefts
  OBVIOUS
<1>3. rights # {} => R \in rights
  OBVIOUS
<1>4. absorb(segs, Piece(src, a, b)) = IF rights = {} THEN nd1 ELSE mergeTo(R, nd1)
  BY DEF absorb, Piece
<1> HIDE DEF L, R
<1>5. ASSUME NEW s \in lefts, NEW t \in lefts PROVE s = t
  <2>1. /\ s \in segs /\ t \in segs /\ s.start_idx < a /\ t.start_idx < a
        /\ s.end_idx + 1 >= a /\ t.end_idx + 1 >= a
        /\ s.start_idx \in Nat /\ s.end_idx \in Nat /\ t.start_idx \in Nat /\ t.end_idx \in Nat
    BY <1>1
  <2>2. ~(s.end_idx + 1 < t.start_idx) /\ ~(t.end_idx + 1 < s.start_idx)
    BY ONLY <2>1
  <2>3. s # t => s.end_idx + 1 < t.start_idx \/ t.end_idx + 1 < s.start_idx
    BY <2>1 DEF Separated
  <2>4. QED
    BY ONLY <2>2, <2>3
<1>6. ASSUME NEW s \in rights, NEW t \in rights PROVE s = t
  <2>1. /\ s \in segs /\ t \in segs /\ s.end_idx > b /\ t.end_idx > b
        /\ b + 1 >= s.start_idx /\ b + 1 >= t.start_idx
        /\ s.start_idx \in Nat /\ s.end_idx \in Nat /\ t.start_idx \in Nat /\ t.end_idx \in Nat
    BY <1>1
  <2>2. ~(s.end_idx + 1 < t.start_idx) /\ ~(t.end_idx + 1 < s.start_idx)
    BY ONLY <2>1
  <2>3. s # t => s.end_idx + 1 < t.start_idx \/ t.end_idx + 1 < s.start_idx
    BY <2>1 DEF Separated
  <2>4. QED
    BY ONLY <2>2, <2>3
<1>7. PICK c \in Nat, e \in Nat :
         /\ nd1 = Piece(src, c, e) /\ c <= a /\ b <= e /\ e < Len(src)
         /\ c = a \/ \E s \in segs : s.start_idx = c
         /\ \A s \in segs : c <= s.start_idx
         /\ e = b \/ \E s \in rights : s.end_idx = e
  <2>1. CASE lefts = {}
    <3>1. \A s \in segs : a <= s.start_idx
      BY <2>1, <1>1
    <3>2. nd1 = Piece(src, a, b)
      BY <2>1
    <3>3. QED
      BY <3>1, <3>2
  <2>2. CASE lefts # {}
    <3>1. L \in segs /\ L.start_idx < a
      BY <2>2, <1>2
    <3>2. mergeTo(Piece(src, L.start_idx, L.end_idx), Piece(src, a, b))
            = Piece(src, min(L.start_idx, a), max(L.end_idx, b))
      BY <3>1, <1>1, MergePieces
    <3>3. L = Piece(src, L.start_idx, L.end_idx)
      BY <3>1, <1>1
    <3>4. nd1 = Piece(src, min(L.start_idx, a), max(L.end_idx, b))
      BY <3>2, <3>3, <2>2
    <3>5. min(L.start_idx, a) = L.start_idx
      BY <3>1, <1>1 DEF min
    <3>6. \A s \in segs : L.start_idx <= s.start_idx
      BY <3>1, <1>1, <1>2, <1>5, <2>2
    <3>7. /\ max(L.end_idx, b) \in Nat /\ b <= max(L.end_idx, b)
          /\ max(L.end_idx, b) < Len(src)
          /\ max(L.end_idx, b) = b \/ \E s \in rights : s.end_idx = max(L.end_idx, b)
      BY <3>1, <1>1 DEF max
    <3>8. L \in segs /\ L.start_idx \in Nat /\ L.start_idx <= a
      BY <3>1, <1>1
    <3>9. nd1 = Piece(src, L.start_idx, max(L.end_idx, b))
      BY <3>4, <3>5
    <3>10. QED
      BY ONLY <3>6, <3>7, <3>8, <3>9
  <2>3. QED
    BY <2>1, <2>2
<1> HIDE DEF nd1
<1>8. CASE rights = {}
  <2>1. \A s \in segs : s.end_idx <= b
    BY <1>8, <1>1
  <2>2. e = b
    BY <1>7, <1>8
  <2>3. absorb(segs, Piece(src, a, b)) = Piece(src, c, e)
    BY <1>4, <1>7, <1>8
  <2>4. Spanned(src, segs, a, b, c, e)
    BY <2>1, <2>2, <1>7 DEF Spanned
  <2>5. QED
    BY ONLY <2>3, <2>4
<1>9. CASE rights # {}
  <2>1. R \in segs /\ R.end_idx > b
    BY <1>3, <1>9
  <2>2. e <= R.end_idx
    BY <2>1, <1>1, <1>3, <1>6, <1>7, <1>9
  <2>3. mergeTo(Piece(src, R.start_idx, R.end_idx), Piece(src, c, e))
          = Piece(src, min(R.start_idx, c), max(R.end_idx, e))
    <3>1. /\ R.start_idx \in Nat /\ R.end_idx \in Nat /\ R.start_idx <= R.end_idx
          /\ R.end_idx < Len(src)
      BY <2>1, <1>1
    <3>2. /\ c \in Nat /\ e \in Nat /\ e < Len(src) /\ src \in Seq(Values(src))
          /\ c <= e /\ R.end_idx + 1 >= c /\ e + 1 >= R.start_idx
      BY <3>1, <2>1, <1>7
    <3>3. QED
      BY ONLY <3>1, <3>2, MergePieces
  <2>4. R = Piece(src, R.start_idx, R.end_idx) /\ c <= R.start_idx
    BY <2>1, <1>1, <1>7
  <2>5. min(R.start_idx, c) = c /\ max(R.end_idx, e) = R.end_idx
    BY <2>1, <2>2, <2>4, <1>1, <1>7 DEF min, max
  <2>6. absorb(segs, Piece(src, a, b)) = Piece(src, c, R.end_idx)
    BY <2>3, <2>4, <2>5, <1>4, <1>7, <1>9
  <2>7. \A s \in segs : s.end_idx <= R.end_idx
    BY <2>1, <1>1, <1>3, <1>6, <1>9
  <2>8. R.end_idx \in Nat /\ Spanned(src, segs, a, b, c, R.end_idx)
    BY <2>1, <2>7, <1>1, <1>7 DEF Spanned
  <2>9. QED
    BY ONLY <2>6, <2>8
<1>10. QED
  BY <1>8, <1>9

-----------------------------------------------------------------------------
OutputType(src, cap, err) ==
  [buffer : Seq(Values(src)), capcity : {cap}, inputEnd : BOOLEAN,
   totoalWrite : Nat, totoalRead : Nat, error : {err}]

Fields ==
  {"outputStream", "seg_buffer", "cur_idx", "input_end_idx", "unassembled_bytes"}

\* What holds of the output stream.
OutputCore(src, cap, err, out, cur, dl) ==
  /\ out \in OutputType(src, cap, err)
  /\ cur \in Nat /\ cur <= Len(src)
  /\ out.totoalWrite = cur
  /\ out.totoalRead <= cur /\ cur <= out.totoalRead + cap
  /\ out.buffer = Slice(src, out.totoalRead, cur)
  /\ dl = Slice(src, 0, out.totoalRead)
  /\ Len(src) <= UINT32_MAX => (out.inputEnd => cur = Len(src))

\* What holds of the stored nodes.
StoreCore(src, segs, cur, edge) ==
  /\ \A s \in segs : IsPiece(src, s) /\ cur < s.start_idx /\ s.end_idx < edge
  /\ Separated(segs)

\* The end is signalled only when everything before the mark is there.
EndDue(q) == q.outputStream.inputEnd => q.input_end_idx <= q.cur_idx

ReassemblerCore(src, cap, err, q, dl) ==
  /\ DOMAIN q = Fields
  /\ OutputCore(src, cap, err, q.outputStream, q.cur_idx, dl)
  /\ StoreCore(src, q.seg_buffer, q.cur_idx, q.outputStream.totoalRead + cap)
  /\ q.input_end_idx \in {UINT32_MAX, Len(src)}
  /\ Len(src) <= UINT32_MAX => EndDue(q)

\* An end mark that is due has been set.
EndSeen(src, q) ==
  (q.input_end_idx = Len(src) /\ q.cur_idx = Len(src)) => q.outputStream.inputEnd

\* w is q with more assembled, nothing read, and the end marked as given.
Advanced(q, w, mark) ==
  /\ q.cur_idx <= w.cur_idx
  /\ w.outputStream.totoalRead = q.outputStream.totoalRead
  /\ w.input_end_idx = mark

Indices(s) == s.start_idx .. s.end_idx

Accepted(q) == (0 .. q.cur_idx - 1) \cup UNION {Indices(s) : s \in q.seg_buffer}

\* Writing a slice that fits appends all of it.
LEMMA WriteSlice ==
  ASSUME NEW src, src \in Seq(Values(src)), NEW cap \in Nat, NEW err,
         NEW out, NEW cur, NEW dl, OutputCore(src, cap, err, out, cur, dl),
         NEW e \in Nat, cur <= e, e <= Len(src), e <= out.totoalRead + cap,
         NEW w, w = stream_write(out, Slice(src, cur, e))
  PROVE  /\ w \in OutputType(src, cap, err)
         /\ w.totoalWrite = e /\ w.totoalRead = out.totoalRead
         /\ w.buffer = Slice(src, out.totoalRead, e)
         /\ w.inputEnd = out.inputEnd
<1> DEFINE rd == out.totoalRead
<1>1. /\ cur \in Nat /\ rd \in Nat /\ rd <= cur /\ out.capcity = cap /\ cap \in Nat
      /\ out.buffer = Slice(src, rd, cur) /\ out.totoalWrite = cur /\ out \in OutputType(src, cap, err)
      /\ out.totoalRead = rd /\ e <= rd + cap /\ rd <= e /\ cur <= e /\ cur <= Len(src)
  <2>1. cur \in Nat /\ rd \in Nat /\ out.capcity = cap /\ cap \in Nat
    BY DEF OutputCore, OutputType
  <2>2. QED
    BY <2>1 DEF OutputCore
<1> HIDE DEF rd
<1>2. /\ Slice(src, cur, e) \in Seq(Values(src)) /\ Len(Slice(src, cur, e)) = e - cur
      /\ Len(Slice(src, rd, cur)) = cur - rd
      /\ Slice(src, rd, e) \in Seq(Values(src))
  <2>1. /\ src \in Seq(Values(src)) /\ cur \in Nat /\ rd \in Nat /\ e \in Nat
        /\ cur <= e /\ rd <= cur /\ rd <= e /\ e <= Len(src) /\ cur <= Len(src)
    BY <1>1
  <2>2. QED
    BY ONLY <2>1, SliceType
<1>3. min(Len(Slice(src, cur, e)), remaining_capacity(out)) = Len(Slice(src, cur, e))
  BY <1>1, <1>2 DEF min, remaining_capacity, buffer_size
<1>4. SubSeq(Slice(src, cur, e), 1, Len(Slice(src, cur, e))) = Slice(src, cur, e)
  BY <1>2
<1>5. Slice(src, rd, cur) \o Slice(src, cur, e) = Slice(src, rd, e)
  <2>1. rd \in Nat /\ cur \in Nat /\ rd <= cur /\ cur <= e
    BY <1>1
  <2>2. QED
    BY <2>1, SliceConcat
<1>6. w = [out EXCEPT !.buffer = Slice(src, rd, e), !.totoalWrite = e]
  <2>1. w = [out EXCEPT !.buffer = out.buffer \o SubSeq(Slice(src, cur, e), 1, Len(Slice(src, cur, e))),
                        !.totoalWrite = out.totoalWrite + Len(Slice(src, cur, e))]
    BY <1>3 DEF stream_write
  <2>2. out.totoalWrite + Len(Slice(src, cur, e)) = e
    BY <1>1, <1>2
  <2>3. QED
    BY <2>1, <2>2, <1>1, <1>4, <1>5
<1>7. QED
  BY <1>1, <1>2, <1>6 DEF OutputType

\* Setting the end mark, or not, keeps Core and establishes EndSeen.
LEMMA EndKeepsCore ==
  ASSUME NEW src, src \in Seq(Values(src)), NEW cap \in Nat, NEW err,
         NEW q, NEW dl, ReassemblerCore(src, cap, err, q, dl)
  PROVE  /\ ReassemblerCore(src, cap, err, end_if_complete(q), dl)
         /\ EndSeen(src, end_if_complete(q))
         /\ Accepted(end_if_complete(q)) = Accepted(q)
         /\ Advanced(q, end_if_complete(q), q.input_end_idx)
<1> DEFINE w == end_if_complete(q)
<1>1. /\ q.cur_idx \in Nat /\ q.input_end_idx \in Int /\ Len(src) \in Nat /\ UINT32_MAX \in Nat
      /\ q.cur_idx <= Len(src)
  BY MaxIntAssumption DEF ReassemblerCore, OutputCore, UINT32_MAX
<1>2. CASE q.cur_idx >= q.input_end_idx
  <2>1. w = [q EXCEPT !.outputStream = [q.outputStream EXCEPT !.inputEnd = TRUE]]
    BY <1>2 DEF end_if_complete, end_input
  <2>2. /\ DOMAIN w = Fields /\ w.seg_buffer = q.seg_buffer /\ w.cur_idx = q.cur_idx
        /\ w.input_end_idx = q.input_end_idx
        /\ w.outputStream = [q.outputStream EXCEPT !.inputEnd = TRUE]
    BY <2>1 DEF ReassemblerCore, Fields
  <2>3. /\ w.outputStream \in OutputType(src, cap, err) /\ w.outputStream.inputEnd = TRUE
        /\ w.outputStream.totoalRead = q.outputStream.totoalRead
        /\ w.outputStream.totoalWrite = q.outputStream.totoalWrite
        /\ w.outputStream.buffer = q.outputStream.buffer
    BY <2>2 DEF ReassemblerCore, OutputCore, OutputType
  <2>4. Len(src) <= UINT32_MAX => q.cur_idx = Len(src)
    BY <1>1, <1>2 DEF ReassemblerCore
  <2> HIDE DEF w
  <2>5. OutputCore(src, cap, err, w.outputStream, w.cur_idx, dl)
    BY <2>2, <2>3, <2>4 DEF ReassemblerCore, OutputCore
  <2>6. StoreCore(src, w.seg_buffer, w.cur_idx, w.outputStream.totoalRead + cap)
    BY <2>2, <2>3 DEF ReassemblerCore
  <2>7. Accepted(w) = Accepted(q)
    BY <2>2 DEF Accepted
  <2>8. EndDue(w)
    BY <1>1, <1>2, <2>2 DEF EndDue
  <2>9. Advanced(q, w, q.input_end_idx)
    BY <1>1, <2>2, <2>3 DEF Advanced
  <2>10. QED
    BY <2>2, <2>3, <2>5, <2>6, <2>7, <2>8, <2>9 DEF ReassemblerCore, EndSeen, w
<1>3. CASE ~(q.cur_idx >= q.input_end_idx)
  <2>1. w = q
    BY <1>3 DEF end_if_complete
  <2>2. QED
    BY <2>1, <1>1, <1>3 DEF EndSeen, Advanced
<1>4. QED
  BY <1>2, <1>3

\* Inserting a node that lies within the window.
LEMMA InsertKeepsCore ==
  ASSUME NEW src, src \in Seq(Values(src)), NEW cap \in Nat, NEW err,
         NEW q, NEW dl, ReassemblerCore(src, cap, err, q, dl),
         NEW a \in Nat, NEW b \in Nat, q.cur_idx <= a, a <= b, b < Len(src),
         b < q.outputStream.totoalRead + cap
  PROVE  /\ ReassemblerCore(src, cap, err, insert_node(q, Piece(src, a, b)), dl)
         /\ EndSeen(src, insert_node(q, Piece(src, a, b)))
         /\ Accepted(q) \subseteq Accepted(insert_node(q, Piece(src, a, b)))
         /\ Advanced(q, insert_node(q, Piece(src, a, b)), q.input_end_idx)
<1> DEFINE segs == touching(q.seg_buffer, Piece(src, a, b))
           nd1  == absorb(segs, Piece(src, a, b))
           cur  == q.cur_idx
           edge == q.outputStream.totoalRead + cap
           kept == q.seg_buffer \ segs
           rest == [q EXCEPT !.seg_buffer = @ \ segs,
                             !.unassembled_bytes = @ - stored_bytes(segs)]
<1>1. /\ cur \in Nat /\ edge \in Nat /\ Len(src) \in Nat /\ cur <= a /\ b < edge
      /\ DOMAIN q = Fields
  <2>1. cur \in Nat /\ q.outputStream.totoalRead \in Nat /\ DOMAIN q = Fields
    BY DEF ReassemblerCore, OutputCore, OutputType
  <2>2. QED
    BY <2>1
<1>2. /\ \A s \in q.seg_buffer :
            /\ s.start_idx \in Nat /\ s.end_idx \in Nat /\ s.start_idx <= s.end_idx
            /\ s.end_idx < Len(src) /\ IsPiece(src, s) /\ cur < s.start_idx /\ s.end_idx < edge
      /\ Separated(q.seg_buffer)
  BY DEF ReassemblerCore, StoreCore, IsPiece
<1>3. segs = {s \in q.seg_buffer : s.end_idx + 1 >= a /\ b + 1 >= s.start_idx}
  BY DEF touching, Piece
<1> HIDE DEF segs
<1>4. PICK c \in Nat, d \in Nat :
         /\ nd1 = Piece(src, c, d)
         /\ c <= a /\ b <= d /\ d < Len(src)
         /\ c = a \/ \E s \in segs : s.start_idx = c
         /\ d = b \/ \E s \in segs : s.end_idx = d
         /\ \A s \in segs : c <= s.start_idx /\ s.end_idx <= d
  <2>1. /\ \A s \in segs : IsPiece(src, s) /\ s.end_idx + 1 >= a /\ b + 1 >= s.start_idx
        /\ Separated(segs)
    BY <1>2, <1>3 DEF Separated
  <2>2. /\ a \in Nat /\ b \in Nat /\ a <= b /\ b < Len(src) /\ src \in Seq(Values(src))
        /\ \A s \in segs : IsPiece(src, s)
        /\ \A s \in segs : s.end_idx + 1 >= a /\ b + 1 >= s.start_idx
    BY <2>1
  <2>3. \E c, d \in Nat :
           absorb(segs, Piece(src, a, b)) = Piece(src, c, d) /\ Spanned(src, segs, a, b, c, d)
    BY ONLY <2>1, <2>2, AbsorbPieces
  <2>4. QED
    BY <2>3 DEF Spanned
<1> HIDE DEF nd1
<1>5. cur <= c /\ d < edge /\ c <= d /\ (c = cur => c = a)
  BY <1>1, <1>2, <1>3, <1>4
\* What is kept lies clear of the new node.
<1>6. \A s \in kept : s.end_idx + 1 < c \/ d + 1 < s.start_idx
  <2> SUFFICES ASSUME NEW s \in kept PROVE s.end_idx + 1 < c \/ d + 1 < s.start_idx
    OBVIOUS
  <2>1. /\ s \in q.seg_buffer /\ s.start_idx \in Nat /\ s.end_idx \in Nat
        /\ s.start_idx <= s.end_idx
        /\ s.end_idx + 1 < a \/ b + 1 < s.start_idx
    BY <1>2, <1>3
  <2>2. \A t \in segs : /\ t.start_idx \in Nat /\ t.end_idx \in Nat /\ t.start_idx <= t.end_idx
                        /\ t.end_idx + 1 >= a /\ b + 1 >= t.start_idx
                        /\ s.end_idx + 1 < t.start_idx \/ t.end_idx + 1 < s.start_idx
    BY <2>1, <1>2, <1>3 DEF Separated
  <2>3. CASE s.end_idx + 1 < a
    <3>1. CASE c = a
      BY <3>1, <2>3
    <3>2. CASE \E t \in segs : t.start_idx = c
      <4>1. PICK t \in segs : t.start_idx = c
        BY <3>2
      <4>2. /\ t.end_idx \in Nat /\ t.end_idx + 1 >= a
            /\ s.end_idx + 1 < c \/ t.end_idx + 1 < s.start_idx
        BY <4>1, <2>2
      <4>3. s.start_idx \in Nat /\ s.end_idx \in Nat /\ s.start_idx <= s.end_idx /\ a \in Nat
        BY <2>1, <1>2, <1>1
      <4>4. QED
        BY ONLY <4>2, <4>3, <2>3
    <3>3. QED
      BY <3>1, <3>2, <1>4
  <2>4. CASE b + 1 < s.start_idx
    <3>1. CASE d = b
      BY <3>1, <2>4
    <3>2. CASE \E t \in segs : t.end_idx = d
      <4>1. PICK t \in segs : t.end_idx = d
        BY <3>2
      <4>2. /\ t.start_idx \in Nat /\ b + 1 >= t.start_idx
            /\ s.end_idx + 1 < t.start_idx \/ d + 1 < s.start_idx
        BY <4>1, <2>2
      <4>3. QED
        BY <4>2, <2>1, <2>4
    <3>3. QED
      BY <3>1, <3>2, <1>4
  <2>5. QED
    BY <2>1, <2>3, <2>4
<1>7. /\ DOMAIN rest = Fields /\ rest.seg_buffer = kept /\ rest.cur_idx = cur
      /\ rest.outputStream = q.outputStream /\ rest.input_end_idx = q.input_end_idx
  BY <1>1 DEF Fields
<1>8. CASE c = cur
  <2> DEFINE w  == stream_write(q.outputStream, Slice(src, c, d + 1))
             q1 == [rest EXCEPT !.outputStream = w, !.cur_idx = d + 1]
  <2>1. insert_node(q, Piece(src, a, b)) = end_if_complete(q1)
    <3>1. insert_node(q, Piece(src, a, b)) =
            IF nd1.start_idx = q.cur_idx
            THEN end_if_complete([rest EXCEPT !.outputStream = stream_write(@, nd1.data),
                                              !.cur_idx = nd1.end_idx + 1])
            ELSE [rest EXCEPT !.seg_buffer = @ \cup {nd1},
                              !.unassembled_bytes = @ + Len(nd1.data)]
      BY DEF insert_node, nd1, segs
    <3>2. nd1.start_idx = c /\ nd1.end_idx = d /\ nd1.data = Slice(src, c, d + 1)
      BY <1>4 DEF Piece
    <3> HIDE DEF rest
    <3>3. QED
      BY <3>1, <3>2, <1>7, <1>8
  <2>2. /\ DOMAIN q1 = Fields /\ q1.seg_buffer = kept /\ q1.cur_idx = d + 1
        /\ q1.outputStream = w /\ q1.input_end_idx = q.input_end_idx
    <3> HIDE DEF w, rest
    <3>1. QED
      BY <1>7 DEF Fields
  <2>3. /\ w \in OutputType(src, cap, err) /\ w.totoalWrite = d + 1
        /\ w.totoalRead = q.outputStream.totoalRead
        /\ w.buffer = Slice(src, q.outputStream.totoalRead, d + 1)
        /\ w.inputEnd = q.outputStream.inputEnd
    <3>1. d + 1 \in Nat /\ cur < d + 1 /\ d + 1 <= Len(src) /\ d + 1 <= edge
      BY <1>1, <1>4, <1>5, <1>8
    <3>2. OutputCore(src, cap, err, q.outputStream, cur, dl)
      BY DEF ReassemblerCore
    <3>3. QED
      BY <3>1, <3>2, <1>8, WriteSlice
  <2> HIDE DEF w, q1, rest
  <2>4. OutputCore(src, cap, err, w, d + 1, dl)
    <3>1. Len(src) <= UINT32_MAX => ~q.outputStream.inputEnd
      BY <1>1, <1>4, <1>5, <1>8 DEF ReassemblerCore, OutputCore
    <3>2. q.outputStream.totoalRead \in Nat /\ q.outputStream.totoalRead <= cur
      BY DEF ReassemblerCore, OutputCore, OutputType
    <3>3. /\ d + 1 \in Nat /\ d + 1 <= Len(src) /\ q.outputStream.totoalRead <= d + 1
          /\ d + 1 <= edge
      <4>1. cur \in Nat /\ d \in Nat /\ cur < d + 1 /\ d + 1 <= Len(src) /\ d + 1 <= edge
        BY <1>1, <1>4, <1>5, <1>8
      <4>2. QED
        BY ONLY <4>1, <3>2
    <3>4. QED
      BY <3>1, <3>3, <2>3 DEF ReassemblerCore, OutputCore
  <2>5. StoreCore(src, kept, d + 1, edge)
    <3>1. \A s \in kept : d + 1 < s.start_idx
      BY <1>1, <1>2, <1>6, <1>8
    <3>2. QED
      BY <3>1, <1>2 DEF StoreCore, Separated
  <2>6. ReassemblerCore(src, cap, err, q1, dl) /\ Advanced(q, q1, q.input_end_idx)
    <3>1. q.input_end_idx \in Int /\ cur <= d + 1
      BY <1>1, <1>5, <1>8, MaxIntAssumption DEF ReassemblerCore, UINT32_MAX
    <3>2. Len(src) <= UINT32_MAX => EndDue(q1)
      BY <3>1, <2>2, <2>3, <1>1, <1>4 DEF ReassemblerCore, EndDue
    <3>3. QED
      BY <3>1, <3>2, <2>2, <2>3, <2>4, <2>5 DEF ReassemblerCore, Advanced
  <2>7. Accepted(q) \subseteq Accepted(q1)
    <3> SUFFICES ASSUME NEW x \in Accepted(q) PROVE x \in Accepted(q1)
      OBVIOUS
    <3>1. CASE x \in 0 .. cur - 1
      BY <3>1, <2>2, <1>1, <1>4, <1>5, <1>8 DEF Accepted
    <3>2. CASE \E s \in kept : x \in Indices(s)
      BY <3>2, <2>2 DEF Accepted
    <3>3. CASE \E s \in segs : x \in Indices(s)
      <4>1. PICK s \in segs : x \in s.start_idx .. s.end_idx
        BY <3>3 DEF Indices
      <4>2. x \in 0 .. (d + 1) - 1
        BY <4>1, <1>2, <1>3, <1>4
      <4>3. QED
        BY <4>2, <2>2 DEF Accepted
    <3>4. QED
      BY <3>1, <3>2, <3>3 DEF Accepted
  <2>8. /\ ReassemblerCore(src, cap, err, end_if_complete(q1), dl) /\ EndSeen(src, end_if_complete(q1))
        /\ Accepted(end_if_complete(q1)) = Accepted(q1)
        /\ Advanced(q1, end_if_complete(q1), q1.input_end_idx)
    BY <2>6, EndKeepsCore
  <2>9. q1.cur_idx \in Nat /\ end_if_complete(q1).cur_idx \in Nat
    BY <2>6, <2>8 DEF ReassemblerCore, OutputCore
  <2>10. Advanced(q, end_if_complete(q1), q.input_end_idx)
    BY <2>6, <2>8, <2>9, <1>1 DEF Advanced
  <2>11. QED
    BY <2>1, <2>7, <2>8, <2>10
<1>9. CASE c # cur
  <2> DEFINE q1 == [rest EXCEPT !.seg_buffer = @ \cup {nd1},
                                !.unassembled_bytes = @ + Len(nd1.data)]
  <2>1. insert_node(q, Piece(src, a, b)) = q1
    <3>1. insert_node(q, Piece(src, a, b)) =
            IF nd1.start_idx = q.cur_idx
            THEN end_if_complete([rest EXCEPT !.outputStream = stream_write(@, nd1.data),
                                              !.cur_idx = nd1.end_idx + 1])
            ELSE q1
      BY DEF insert_node, nd1, segs
    <3>2. nd1.start_idx = c
      BY <1>4 DEF Piece
    <3> HIDE DEF rest, q1
    <3>3. QED
      BY <3>1, <3>2, <1>9
  <2>2. /\ DOMAIN q1 = Fields /\ q1.seg_buffer = kept \cup {nd1} /\ q1.cur_idx = cur
        /\ q1.outputStream = q.outputStream /\ q1.input_end_idx = q.input_end_idx
    <3> HIDE DEF rest
    <3>1. QED
      BY <1>7 DEF Fields
  <2>3. nd1.start_idx = c /\ nd1.end_idx = d /\ IsPiece(src, nd1)
    BY <1>4, <1>5 DEF Piece, IsPiece
  <2> HIDE DEF q1, rest
  <2>4. StoreCore(src, kept \cup {nd1}, cur, edge)
    <3>1. \A s \in kept \cup {nd1} : IsPiece(src, s) /\ cur < s.start_idx /\ s.end_idx < edge
      BY <2>3, <1>1, <1>2, <1>5, <1>9
    <3>2. Separated(kept \cup {nd1})
      BY <2>3, <1>2, <1>6 DEF Separated
    <3>3. QED
      BY <3>1, <3>2 DEF StoreCore
  <2>5. ReassemblerCore(src, cap, err, q1, dl) /\ Advanced(q, q1, q.input_end_idx)
    BY <2>2, <2>4, <1>1 DEF ReassemblerCore, EndDue, Advanced
  <2>6. EndSeen(src, q1)
    BY <2>2, <1>1 DEF EndSeen
  <2>7. Accepted(q) \subseteq Accepted(q1)
    <3> SUFFICES ASSUME NEW x \in Accepted(q) PROVE x \in Accepted(q1)
      OBVIOUS
    <3>1. CASE x \in 0 .. cur - 1
      BY <3>1, <2>2 DEF Accepted
    <3>2. CASE \E s \in kept : x \in Indices(s)
      BY <3>2, <2>2 DEF Accepted
    <3>3. CASE \E s \in segs : x \in Indices(s)
      <4>1. PICK s \in segs : x \in s.start_idx .. s.end_idx
        BY <3>3 DEF Indices
      <4>2. x \in Indices(nd1)
        <5>1. /\ s.start_idx \in Nat /\ s.end_idx \in Nat /\ c <= s.start_idx /\ s.end_idx <= d
              /\ c \in Nat /\ d \in Nat /\ nd1.start_idx = c /\ nd1.end_idx = d
          BY <2>3, <1>2, <1>3, <1>4
        <5>2. QED
          BY ONLY <4>1, <5>1 DEF Indices
      <4>3. QED
        BY <4>2, <2>2 DEF Accepted
    <3>4. QED
      BY <3>1, <3>2, <3>3 DEF Accepted
  <2>8. QED
    BY <2>1, <2>5, <2>6, <2>7
<1>10. QED
  BY <1>8, <1>9

\* With a full window the trimmed node is empty, and inserting it changes nothing.
LEMMA InsertNothing ==
  ASSUME NEW src, src \in Seq(Values(src)), NEW cap \in Nat, NEW err,
         NEW q, NEW dl, ReassemblerCore(src, cap, err, q, dl)
  PROVE  LET w == insert_node(q, Piece(src, q.cur_idx, q.cur_idx - 1))
         IN  /\ ReassemblerCore(src, cap, err, w, dl) /\ EndSeen(src, w)
             /\ Accepted(q) \subseteq Accepted(w)
             /\ Advanced(q, w, q.input_end_idx)
<1> DEFINE cur  == q.cur_idx
           nd   == Piece(src, cur, cur - 1)
           segs == touching(q.seg_buffer, nd)
           rest == [q EXCEPT !.seg_buffer = @ \ segs,
                             !.unassembled_bytes = @ - stored_bytes(segs)]
           w    == stream_write(q.outputStream, Slice(src, cur, cur))
           q1   == [rest EXCEPT !.outputStream = w, !.cur_idx = cur]
<1>1. /\ cur \in Nat /\ cur <= Len(src) /\ cur <= q.outputStream.totoalRead + cap
      /\ DOMAIN q = Fields /\ OutputCore(src, cap, err, q.outputStream, cur, dl)
  BY DEF ReassemblerCore, OutputCore
<1>2. nd = [start_idx |-> cur, end_idx |-> cur - 1, data |-> Slice(src, cur, cur)] /\ cur - 1 + 1 = cur
  <2>1. cur - 1 + 1 = cur
    BY <1>1
  <2>2. QED
    BY <2>1 DEF Piece
<1>3. segs = {}
  BY <1>1, <1>2 DEF touching, ReassemblerCore, StoreCore, IsPiece
<1>4. absorb({}, nd) = nd
  BY DEF absorb
<1>5. insert_node(q, nd) = end_if_complete(q1)
  <2> DEFINE nd1 == absorb(segs, nd)
  <2>1. insert_node(q, nd) =
          IF nd1.start_idx = cur
          THEN end_if_complete([rest EXCEPT !.outputStream = stream_write(@, nd1.data),
                                            !.cur_idx = nd1.end_idx + 1])
          ELSE [rest EXCEPT !.seg_buffer = @ \cup {nd1},
                            !.unassembled_bytes = @ + Len(nd1.data)]
    BY DEF insert_node
  <2>2. nd1.start_idx = cur /\ nd1.end_idx + 1 = cur /\ nd1.data = Slice(src, cur, cur)
    <3> HIDE DEF segs, nd
    <3>1. nd1 = nd
      BY <1>3, <1>4
    <3>2. QED
      BY <3>1, <1>2
  <2>3. rest.outputStream = q.outputStream
    BY <1>1 DEF Fields
  <2> HIDE DEF rest, nd1
  <2>4. QED
    BY <2>1, <2>2, <2>3
<1>6. /\ w \in OutputType(src, cap, err)
      /\ w.totoalWrite = cur /\ w.totoalRead = q.outputStream.totoalRead
      /\ w.buffer = Slice(src, q.outputStream.totoalRead, cur)
      /\ w.inputEnd = q.outputStream.inputEnd
  BY <1>1, WriteSlice
<1>7. /\ DOMAIN q1 = Fields /\ q1.seg_buffer = q.seg_buffer /\ q1.cur_idx = cur
      /\ q1.outputStream = w /\ q1.input_end_idx = q.input_end_idx
  <2> HIDE DEF w, segs
  <2>1. QED
    BY <1>1, <1>3 DEF Fields
<1> HIDE DEF q1, nd, w
<1>8. ReassemblerCore(src, cap, err, q1, dl) /\ Accepted(q1) = Accepted(q)
  <2>1. OutputCore(src, cap, err, w, cur, dl)
    BY <1>1, <1>6 DEF OutputCore
  <2>2. QED
    BY <2>1, <1>6, <1>7 DEF ReassemblerCore, Accepted, EndDue
<1>9. /\ ReassemblerCore(src, cap, err, end_if_complete(q1), dl) /\ EndSeen(src, end_if_complete(q1))
      /\ Accepted(end_if_complete(q1)) = Accepted(q1)
      /\ Advanced(q1, end_if_complete(q1), q1.input_end_idx)
  BY <1>8, EndKeepsCore
<1>10. Advanced(q, end_if_complete(q1), q.input_end_idx)
  BY <1>6, <1>7, <1>9 DEF Advanced
<1>11. QED
  BY <1>5, <1>8, <1>9, <1>10 DEF nd

\* push_substring of any part of the stream.
LEMMA PushKeepsCore ==
  ASSUME NEW src, src \in Seq(Values(src)), NEW cap \in Nat, NEW err,
         NEW q, NEW dl, ReassemblerCore(src, cap, err, q, dl),
         NEW first \in Nat, NEW last \in Nat, first <= last, last <= Len(src),
         NEW eofFlag \in BOOLEAN, eofFlag => last = Len(src)
  PROVE  LET w == push_substring(q, Slice(src, first, last), first, eofFlag)
         IN  /\ ReassemblerCore(src, cap, err, w, dl) /\ EndSeen(src, w)
             /\ Accepted(q) \subseteq Accepted(w)
             /\ Advanced(q, w, IF eofFlag THEN Len(src) ELSE q.input_end_idx)
<1> DEFINE data == Slice(src, first, last)
           nd   == node(first, data)
           r0   == IF eofFlag THEN [q EXCEPT !.input_end_idx = first + Len(data)] ELSE q
           w    == push_substring(q, data, first, eofFlag)
           cur  == q.cur_idx
           rd   == q.outputStream.totoalRead
<1>1. /\ cur \in Nat /\ rd \in Nat /\ cap \in Nat /\ Len(src) \in Nat
      /\ rd <= cur /\ cur <= Len(src) /\ cur <= rd + cap
      /\ q.cur_idx = cur /\ q.outputStream.totoalRead = rd
      /\ q.outputStream.capcity = cap /\ q.outputStream.buffer = Slice(src, rd, cur)
  <2>1. cur \in Nat /\ rd \in Nat /\ cap \in Nat /\ Len(src) \in Nat
    BY DEF ReassemblerCore, OutputCore, OutputType
  <2>2. q.outputStream.capcity = cap
    BY DEF ReassemblerCore, OutputCore, OutputType
  <2>3. QED
    BY <2>1, <2>2 DEF ReassemblerCore, OutputCore
<1>2. Len(data) = last - first /\ data \in Seq(Values(src))
  BY SliceType
<1>3. /\ ReassemblerCore(src, cap, err, r0, dl) /\ Accepted(r0) = Accepted(q) /\ r0.cur_idx = cur
      /\ r0.outputStream = q.outputStream
      /\ r0.input_end_idx = IF eofFlag THEN Len(src) ELSE q.input_end_idx
  <2>1. CASE eofFlag
    <3>1. first + Len(data) = Len(src)
      BY <1>2, <2>1
    <3>2. r0 = [q EXCEPT !.input_end_idx = Len(src)]
      BY <3>1, <2>1
    <3>3. /\ DOMAIN r0 = Fields /\ r0.seg_buffer = q.seg_buffer /\ r0.cur_idx = cur
          /\ r0.outputStream = q.outputStream /\ r0.input_end_idx = Len(src)
      BY <3>2 DEF ReassemblerCore, Fields
    <3> HIDE DEF r0
    <3>4. Len(src) <= UINT32_MAX => EndDue(r0)
      BY <3>3, <1>1, MaxIntAssumption DEF ReassemblerCore, EndDue, UINT32_MAX
    <3>5. QED
      BY <3>3, <3>4, <2>1 DEF ReassemblerCore, Accepted
  <2>2. CASE ~eofFlag
    BY <2>2
  <2>3. QED
    BY <2>1, <2>2
<1>4. max_idx(q) = rd + cap - 1 /\ max_idx(r0) = rd + cap - 1
  <2> HIDE DEF cur, rd, r0
  <2>1. Len(Slice(src, rd, cur)) = cur - rd
    BY <1>1, SliceType
  <2>2. max_idx(q) = rd + cap - 1
    <3>1. remaining_capacity(q.outputStream) = cap - (cur - rd)
      BY <2>1, <1>1 DEF remaining_capacity, buffer_size
    <3>2. max_idx(q) = cur + (cap - (cur - rd)) - 1
      BY <3>1, <1>1 DEF max_idx
    <3>3. cur \in Nat /\ rd \in Nat /\ cap \in Nat
      BY <1>1
    <3>4. QED
      BY <3>2, <3>3
  <2>3. max_idx(r0) = max_idx(q)
    BY <1>1, <1>3 DEF max_idx
  <2>4. QED
    BY <2>2, <2>3
<1>5. w = IF cur > nd.end_idx \/ nd.start_idx > max_idx(q) \/ data = <<>>
          THEN end_if_complete(r0)
          ELSE insert_node(r0, trim_right(r0, trim_left(r0, nd)))
  BY DEF push_substring
<1> HIDE DEF r0, w, cur, rd
<1>6. CASE cur > nd.end_idx \/ nd.start_idx > max_idx(q) \/ data = <<>>
  <2>1. w = end_if_complete(r0)
    BY <1>5, <1>6
  <2>2. /\ ReassemblerCore(src, cap, err, w, dl) /\ EndSeen(src, w) /\ Accepted(w) = Accepted(r0)
        /\ Advanced(r0, w, r0.input_end_idx)
    BY <2>1, <1>3, EndKeepsCore
  <2>3. QED
    BY <2>2, <1>1, <1>3 DEF w, Advanced
<1>7. CASE ~(cur > nd.end_idx \/ nd.start_idx > max_idx(q) \/ data = <<>>)
  <2>1. first < last
    BY <1>2, <1>7
  <2>2. nd = Piece(src, first, last - 1) /\ nd.start_idx = first /\ nd.end_idx = last - 1
    BY <2>1, NodeIsPiece DEF Piece
  <2>3. PICK b \in Nat : b = last - 1
    BY <2>1
  <2>4. PICK a \in Nat : a = max(first, cur)
    BY <1>1 DEF max
  <2>5. PICK m \in Int : m = rd + cap - 1
    BY <1>1
  <2>6. cur <= b /\ b < Len(src) /\ first <= m /\ cur <= m + 1 /\ first <= b /\ a <= b /\ a <= m + 1
    <3>1. cur <= b
      BY <2>2, <2>3, <1>1, <1>7
    <3>2. first <= m
      BY <2>2, <2>5, <1>1, <1>4, <1>7
    <3>3. b < Len(src) /\ cur <= m + 1 /\ first <= b
      BY <2>1, <2>3, <2>5, <1>1
    <3>4. cur \in Nat /\ first \in Nat
      BY <1>1
    <3>5. a = first \/ a = cur
      BY <2>4 DEF max
    <3>6. QED
      BY <3>1, <3>2, <3>3, <3>4, <3>5
  <2>7. trim_left(r0, Piece(src, first, b)) = Piece(src, a, b)
    <3>1. cur \in Nat /\ r0.cur_idx = cur /\ cur <= b /\ first <= b /\ b < Len(src)
      BY <2>6, <1>1, <1>3
    <3>2. trim_left(r0, Piece(src, first, b)) = Piece(src, max(first, cur), b)
      BY <3>1, TrimLeftPiece
    <3>3. QED
      BY <3>2, <2>4
  <2>8. trim_right(r0, Piece(src, a, b)) = Piece(src, a, min(b, m))
    BY <2>5, <2>6, <1>4, TrimRightPiece
  <2>9. w = insert_node(r0, Piece(src, a, min(b, m)))
    BY <2>2, <2>3, <2>7, <2>8, <1>5, <1>7
  <2>10. CASE cur <= m
    <3>1. PICK e \in Nat : e = min(b, m)
      BY <2>10, <1>1 DEF min
    <3>2. cur <= a /\ a <= e /\ e < Len(src) /\ e < rd + cap
      BY <3>1, <2>4, <2>5, <2>6, <2>10, <1>1 DEF min, max
    <3>3. w = insert_node(r0, Piece(src, a, e)) /\ r0.cur_idx <= a /\ e < r0.outputStream.totoalRead + cap
      BY <3>1, <3>2, <2>9, <1>1, <1>3
    <3>4. /\ ReassemblerCore(src, cap, err, w, dl) /\ EndSeen(src, w) /\ Accepted(r0) \subseteq Accepted(w)
          /\ Advanced(r0, w, r0.input_end_idx)
      BY <3>2, <3>3, <1>3, InsertKeepsCore
    <3>5. QED
      BY <3>4, <1>1, <1>3 DEF w, Advanced
  <2>11. CASE cur = m + 1
    <3>1. a = cur /\ min(b, m) = cur - 1
      BY <2>4, <2>6, <2>11, <1>1 DEF min, max
    <3>2. w = insert_node(r0, Piece(src, r0.cur_idx, r0.cur_idx - 1))
      BY <3>1, <2>9, <1>3
    <3>3. /\ ReassemblerCore(src, cap, err, w, dl) /\ EndSeen(src, w) /\ Accepted(r0) \subseteq Accepted(w)
          /\ Advanced(r0, w, r0.input_end_idx)
      BY <3>2, <1>3, InsertNothing
    <3>4. QED
      BY <3>3, <1>1, <1>3 DEF w, Advanced
  <2>12. QED
    BY <2>6, <2>10, <2>11, <1>1
<1>8. QED
  BY <1>6, <1>7

\* The reassembler and what has been delivered, after len bytes have been read.
Popped(q, len) == [q EXCEPT !.outputStream = pop_output(@, len)]

Taken(q, dl, len) == dl \o peek_output(q.outputStream, len)

\* Reading moves bytes from the buffer to what has been delivered.
LEMMA ReadKeepsCore ==
  ASSUME NEW src, src \in Seq(Values(src)), NEW cap \in Nat, NEW err,
         NEW q, NEW dl, ReassemblerCore(src, cap, err, q, dl), EndSeen(src, q),
         NEW len \in Nat, len <= buffer_size(q.outputStream)
  PROVE  /\ ReassemblerCore(src, cap, err, Popped(q, len), Taken(q, dl, len))
         /\ EndSeen(src, Popped(q, len))
         /\ Accepted(Popped(q, len)) = Accepted(q)
<1> DEFINE w   == Popped(q, len)
           out == q.outputStream
           cur == q.cur_idx
           rd  == out.totoalRead
           rd2 == rd + len
           out2 == pop_output(out, len)
<1>1. /\ cur \in Nat /\ rd \in Nat /\ cap \in Nat /\ Len(src) \in Nat
      /\ rd <= cur /\ cur <= Len(src) /\ cur <= rd + cap
      /\ out \in OutputType(src, cap, err) /\ out.buffer = Slice(src, rd, cur) /\ dl = Slice(src, 0, rd)
      /\ out.totoalRead = rd /\ out.totoalWrite = cur
  <2>1. cur \in Nat /\ rd \in Nat /\ cap \in Nat /\ Len(src) \in Nat
    BY DEF ReassemblerCore, OutputCore, OutputType
  <2>2. QED
    BY <2>1 DEF ReassemblerCore, OutputCore
<1>2. w.outputStream = out2 /\ w.cur_idx = cur /\ w.seg_buffer = q.seg_buffer
      /\ w.input_end_idx = q.input_end_idx /\ DOMAIN w = Fields
  <2> HIDE DEF out2
  <2>1. QED
    BY DEF ReassemblerCore, Fields, out2, Popped
<1> HIDE DEF cur, rd, out, w
<1>3. Len(Slice(src, rd, cur)) = cur - rd
  BY <1>1, SliceType
<1>4. rd2 \in Nat /\ rd <= rd2 /\ rd2 <= cur /\ min(len, Len(out.buffer)) = len
  BY <1>1, <1>3 DEF min, buffer_size, out
<1>5. /\ cur \in Nat /\ rd \in Nat /\ rd <= cur /\ cur <= Len(src)
      /\ 0 <= len /\ len <= cur - rd
  BY <1>1, <1>4
<1>6. Cut(Slice(src, rd, cur), 1, len) = Slice(src, rd, rd2)
  <2>1. 1 \in 1 .. cur - rd + 1 /\ len \in 1 - 1 .. cur - rd
    BY <1>5
  <2>2. Cut(Slice(src, rd, cur), 1, len) = Slice(src, rd + 1 - 1, rd + len)
    BY <2>1, <1>5, CutSlice
  <2>3. QED
    BY <2>2, <1>5
<1>7. Cut(Slice(src, rd, cur), len + 1, cur - rd) = Slice(src, rd2, cur)
  <2> DEFINE i == len + 1
             j == cur - rd
  <2>1. /\ i \in 1 .. cur - rd + 1 /\ j \in i - 1 .. cur - rd
        /\ rd \in Nat /\ cur \in Nat /\ rd <= cur /\ cur <= Len(src)
    BY <1>5
  <2>2. rd + i - 1 = rd2 /\ rd + j = cur
    BY <1>1
  <2> HIDE DEF i, j
  <2>3. Cut(Slice(src, rd, cur), i, j) = Slice(src, rd + i - 1, rd + j)
    BY <2>1, CutSlice
  <2>4. Cut(Slice(src, rd, cur), i, j) = Slice(src, rd2, cur)
    BY <2>2, <2>3
  <2>5. QED
    BY <2>4 DEF i, j
<1>8. dl \o peek_output(out, len) = Slice(src, 0, rd2)
  <2>1. peek_output(out, len) = Slice(src, rd, rd2)
    BY <1>1, <1>4, <1>6 DEF peek_output, buffer_size, Cut
  <2>2. 0 \in Nat /\ 0 <= rd /\ rd \in Nat /\ rd2 \in Nat /\ rd <= rd2 /\ rd2 <= Len(src)
    BY <1>1, <1>4
  <2> HIDE DEF rd2
  <2>3. Slice(src, 0, rd) \o Slice(src, rd, rd2) = Slice(src, 0, rd2)
    <3>1. src \in Seq(Values(src))
      OBVIOUS
    <3>2. QED
      BY ONLY <3>1, <2>2, SliceConcat
  <2>4. QED
    BY <2>1, <2>3, <1>1
<1>9. /\ out2 \in OutputType(src, cap, err) /\ out2.totoalRead = rd2 /\ out2.totoalWrite = cur
      /\ out2.buffer = Slice(src, rd2, cur) /\ out2.inputEnd = out.inputEnd
  <2>1. out2 = [out EXCEPT !.buffer = Cut(Slice(src, rd, cur), len + 1, Len(Slice(src, rd, cur))),
                           !.totoalRead = out.totoalRead + len]
    BY <1>1, <1>4 DEF pop_output, buffer_size, Cut
  <2>2. out2 = [out EXCEPT !.buffer = Slice(src, rd2, cur), !.totoalRead = rd2]
    BY <2>1, <1>1, <1>3, <1>7
  <2>3. Slice(src, rd2, cur) \in Seq(Values(src))
    BY <1>1, <1>4, SliceType
  <2> HIDE DEF rd2, out2
  <2>4. QED
    BY <2>2, <2>3, <1>1, <1>4 DEF OutputType
<1>10. OutputCore(src, cap, err, out2, cur, Slice(src, 0, rd2))
  <2>1. cur <= rd2 + cap
    BY <1>1, <1>4
  <2>2. Len(src) <= UINT32_MAX => (out2.inputEnd => cur = Len(src))
    BY <1>9 DEF ReassemblerCore, OutputCore, out, cur
  <2> HIDE DEF rd2, out2
  <2>3. QED
    BY <2>1, <2>2, <1>1, <1>4, <1>9 DEF OutputCore
<1>11. StoreCore(src, q.seg_buffer, cur, rd2 + cap)
  <2>1. StoreCore(src, q.seg_buffer, cur, rd + cap)
    BY DEF ReassemblerCore, cur, rd, out
  <2>2. rd + cap <= rd2 + cap
    BY <1>1, <1>4
  <2> HIDE DEF rd2
  <2>3. QED
    BY <2>1, <2>2, <1>1, <1>4 DEF StoreCore, IsPiece
<1> HIDE DEF out2, rd2
<1>12. ReassemblerCore(src, cap, err, w, Slice(src, 0, rd2))
  <2>1. Len(src) <= UINT32_MAX => EndDue(w)
    BY <1>2, <1>9 DEF ReassemblerCore, EndDue, out, cur
  <2>2. QED
    BY <2>1, <1>2, <1>9, <1>10, <1>11 DEF ReassemblerCore
<1>13. EndSeen(src, w) /\ Accepted(w) = Accepted(q)
  BY <1>2, <1>9 DEF EndSeen, Accepted, out, cur
<1>14. QED
  BY <1>8, <1>12, <1>13 DEF out, Taken, w

\* A new reassembler.
LEMMA NewKeepsCore ==
  ASSUME NEW src, src \in Seq(Values(src)), NEW cap \in Nat
  PROVE  /\ ReassemblerCore(src, cap, FALSE, NewReassembler(cap), <<>>)
         /\ EndSeen(src, NewReassembler(cap))
<1> DEFINE out == NewByteStream(cap)
           q   == NewReassembler(cap)
<1>1. /\ DOMAIN q = Fields /\ q.outputStream = out /\ q.seg_buffer = {} /\ q.cur_idx = 0
      /\ q.input_end_idx = UINT32_MAX
  BY DEF NewReassembler, Fields
<1>2. Slice(src, 0, 0) = <<>> /\ Len(src) \in Nat /\ 0 <= Len(src) /\ <<>> \in Seq(Values(src))
  BY DEF Slice
<1>3. /\ out \in OutputType(src, cap, FALSE) /\ out.totoalWrite = 0 /\ out.totoalRead = 0
      /\ out.buffer = <<>> /\ out.inputEnd = FALSE
  BY <1>2 DEF NewByteStream, OutputType
<1>4. OutputCore(src, cap, FALSE, out, 0, <<>>)
  <2> HIDE DEF out
  <2>1. out.totoalRead <= 0 /\ 0 <= out.totoalRead + cap
    BY <1>3
  <2>2. out.buffer = Slice(src, out.totoalRead, 0) /\ <<>> = Slice(src, 0, out.totoalRead)
    BY <1>2, <1>3
  <2>3. QED
    BY <1>2, <1>3, <2>1, <2>2 DEF OutputCore
<1>5. StoreCore(src, {}, 0, out.totoalRead + cap)
  BY DEF StoreCore, Separated
<1> HIDE DEF q, out
<1>6. EndSeen(src, q)
  BY <1>1, MaxIntAssumption DEF EndSeen, UINT32_MAX
<1>7. QED
  BY <1>1, <1>3, <1>4, <1>5, <1>6 DEF ReassemblerCore, EndDue, q

-----------------------------------------------------------------------------
(* The stream whose k-th byte is the number k. *)

Numbers(n) == [k \in 1 .. n |-> k]

\* It is a sequence of n numbers.
LEMMA NumbersSeq ==
  ASSUME NEW n \in Nat
  PROVE  /\ Numbers(n) \in Seq(Values(Numbers(n))) /\ Len(Numbers(n)) = n
         /\ Values(Numbers(n)) = 1 .. n /\ DOMAIN Numbers(n) = 1 .. n
         /\ \A k \in 1 .. n : Numbers(n)[k] = k
<1>1. /\ DOMAIN Numbers(n) = 1 .. n /\ \A k \in 1 .. n : Numbers(n)[k] = k
  BY DEF Numbers
<1>2. Values(Numbers(n)) = 1 .. n
  BY <1>1 DEF Values
<1>3. Numbers(n) \in Seq(1 .. n) /\ Len(Numbers(n)) = n
  BY DEF Numbers
<1>4. QED
  BY <1>1, <1>2, <1>3

\* A slice of a stream is one of every longer stream.
LEMMA NumbersSlice ==
  ASSUME NEW n \in Nat, NEW m \in Nat, n <= m,
         NEW a \in Nat, NEW b \in Nat, a <= b, b <= n
  PROVE  Slice(Numbers(n), a, b) = Slice(Numbers(m), a, b)
<1>1. /\ Numbers(n) \in Seq(1 .. n) /\ Len(Numbers(n)) = n /\ \A k \in 1 .. n : Numbers(n)[k] = k
      /\ Numbers(m) \in Seq(1 .. m) /\ Len(Numbers(m)) = m /\ \A k \in 1 .. m : Numbers(m)[k] = k
  BY NumbersSeq
<1> DEFINE s == SubSeq(Numbers(n), a + 1, b)
           t == SubSeq(Numbers(m), a + 1, b)
<1>2. /\ s \in Seq(1 .. n) /\ Len(s) = b - a /\ \A i \in 1 .. b - a : s[i] = Numbers(n)[a + i]
  BY <1>1
<1>3. /\ t \in Seq(1 .. m) /\ Len(t) = b - a /\ \A i \in 1 .. b - a : t[i] = Numbers(m)[a + i]
  BY <1>1
<1>4. \A i \in 1 .. b - a : s[i] = t[i]
  BY <1>1, <1>2, <1>3
<1> HIDE DEF s, t
<1>5. s = t
  BY <1>2, <1>3, <1>4
<1>6. QED
  BY <1>5 DEF Slice, s, t

\* Consecutive numbers are a slice.
LEMMA SliceOfNumbers ==
  ASSUME NEW n \in Nat, NEW data \in Seq(Nat), NEW at \in Nat, at + Len(data) <= n,
         \A i \in DOMAIN data : data[i] = at + i
  PROVE  data = Slice(Numbers(n), at, at + Len(data))
<1>1. /\ Numbers(n) \in Seq(1 .. n) /\ Len(Numbers(n)) = n /\ \A k \in 1 .. n : Numbers(n)[k] = k
  BY NumbersSeq
<1>2. Len(data) \in Nat /\ DOMAIN data = 1 .. Len(data)
  OBVIOUS
<1> DEFINE b == at + Len(data)
           t == SubSeq(Numbers(n), at + 1, b)
<1>3. b \in Nat /\ b <= n /\ b - at = Len(data)
  BY <1>2
<1> HIDE DEF b
<1>4. /\ t \in Seq(1 .. n) /\ Len(t) = Len(data)
      /\ \A i \in 1 .. Len(data) : t[i] = Numbers(n)[at + i]
  BY <1>1, <1>3
<1> HIDE DEF t
<1>5. \A i \in 1 .. Len(data) : t[i] = data[i]
  <2> SUFFICES ASSUME NEW i \in 1 .. Len(data) PROVE t[i] = data[i]
    OBVIOUS
  <2>1. at + i \in 1 .. n
    BY <1>2, <1>3
  <2>2. t[i] = at + i
    BY <2>1, <1>1, <1>4
  <2>3. QED
    BY <2>2, <1>2
<1>6. t = data
  <2>1. t \in Seq(Nat) /\ data \in Seq(Nat)
    BY <1>4
  <2>2. QED
    <3>1. t = [i \in 1 .. Len(data) |-> t[i]]
      BY ONLY <2>1, <1>4
    <3>2. data = [i \in 1 .. Len(data) |-> data[i]]
      BY ONLY <2>1
    <3>3. QED
      BY ONLY <3>1, <3>2, <1>5
<1>7. QED
  BY <1>6 DEF Slice, t, b

\* More bytes are sent: what the reassembler holds is part of the longer
\* stream, as long as no end has been marked.
LEMMA GrowthKeepsCore ==
  ASSUME NEW n \in Nat, NEW m \in Nat, n <= m, m < UINT32_MAX, NEW cap \in Nat, NEW err,
         NEW q, NEW dl, ReassemblerCore(Numbers(n), cap, err, q, dl),
         q.input_end_idx = UINT32_MAX
  PROVE  ReassemblerCore(Numbers(m), cap, err, q, dl) /\ EndSeen(Numbers(m), q)
<1> DEFINE out == q.outputStream
           cur == q.cur_idx
           rd  == out.totoalRead
<1>1. /\ Len(Numbers(n)) = n /\ Values(Numbers(n)) = 1 .. n
      /\ Len(Numbers(m)) = m /\ Values(Numbers(m)) = 1 .. m
  BY NumbersSeq
<1>2. /\ out \in OutputType(Numbers(n), cap, err) /\ cur \in Nat /\ cur <= n
      /\ out.totoalWrite = cur /\ rd <= cur /\ cur <= rd + cap
      /\ out.buffer = Slice(Numbers(n), rd, cur) /\ dl = Slice(Numbers(n), 0, rd)
      /\ DOMAIN q = Fields /\ StoreCore(Numbers(n), q.seg_buffer, cur, rd + cap)
  BY <1>1 DEF ReassemblerCore, OutputCore
<1>3. rd \in Nat /\ UINT32_MAX \in Nat
  BY <1>2, MaxIntAssumption DEF OutputType, UINT32_MAX
<1>4. ~out.inputEnd
  <2>1. n <= UINT32_MAX => EndDue(q)
    BY <1>1 DEF ReassemblerCore
  <2>2. n <= UINT32_MAX /\ ~(UINT32_MAX <= cur)
    BY <1>2, <1>3
  <2>3. QED
    BY <2>1, <2>2 DEF EndDue
<1>5. out \in OutputType(Numbers(m), cap, err)
  <2>1. Seq(1 .. n) \subseteq Seq(1 .. m)
    OBVIOUS
  <2>2. QED
    BY <2>1, <1>1, <1>2 DEF OutputType
<1> HIDE DEF out, cur, rd
<1>6. out.buffer = Slice(Numbers(m), rd, cur) /\ dl = Slice(Numbers(m), 0, rd)
  BY <1>2, <1>3, NumbersSlice
<1>7. StoreCore(Numbers(m), q.seg_buffer, cur, rd + cap)
  <2>1. ASSUME NEW s \in q.seg_buffer PROVE IsPiece(Numbers(m), s)
    <3>1. /\ s = Piece(Numbers(n), s.start_idx, s.end_idx)
          /\ s.start_idx \in Nat /\ s.end_idx \in Nat
          /\ s.start_idx <= s.end_idx /\ s.end_idx < n
      BY <1>1, <1>2, <2>1 DEF StoreCore, IsPiece
    <3>2. Slice(Numbers(n), s.start_idx, s.end_idx + 1) = Slice(Numbers(m), s.start_idx, s.end_idx + 1)
      BY <3>1, NumbersSlice
    <3>3. QED
      BY <3>1, <3>2, <1>1 DEF IsPiece, Piece
  <2>2. QED
    BY <2>1, <1>2 DEF StoreCore
<1>8. OutputCore(Numbers(m), cap, err, out, cur, dl)
  BY <1>1, <1>2, <1>3, <1>4, <1>5, <1>6 DEF OutputCore, rd
<1>9. EndSeen(Numbers(m), q)
  BY <1>1, <1>2, <1>3, <1>4 DEF EndSeen, EndDue, out, cur
<1>10. QED
  BY <1>1, <1>2, <1>3, <1>4, <1>7, <1>8, <1>9 DEF ReassemblerCore, EndDue, out, cur, rd
=============================================================================
