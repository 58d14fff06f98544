----------------------------- MODULE RoutingProofs -----------------------------
(***************************************************************************)
(* Theorems about Routing, for every set of routes, every width of an      *)
(* address and every number of routes.                                     *)
(*                                                                         *)
(* TableInOrder is inductive with TypeOK.  SeparatedMatchLongest needs to  *)
(* know what became of the routes that were added: Known says that each is *)
(* in the table, or a route through a gateway of its length is, and        *)
(* LaterFirst that of two direct routes the later one stands first.  Kept  *)
(* is RoutesKept, inductive by itself.                                     *)
(***************************************************************************)
EXTENDS Routing, WellFoundedInduction, SequenceTheorems, TLAPS

\* A nonempty set of natural numbers has a least element.
LEMMA LeastNat ==
    ASSUME NEW S \in SUBSET Nat, S # {}
    PROVE  \E n \in S : \A m \in S : n <= m
<1>1. PICK n \in S : \A m \in S : ~(<<m, n>> \in OpToRel(<, Nat))
    BY WFMin, NatLessThanWellFounded, Zenon
<1>2. ASSUME NEW m \in S  PROVE n <= m
    <2>1. m \in Nat /\ n \in Nat
        OBVIOUS
    <2>2. ~(m < n)
        BY <1>1, <2>1, Zenon DEF OpToRel
    <2> QED  BY <2>1, <2>2
<1> QED  BY <1>2

\* The walk of std::set::insert ends at some place.
LEMMA PlaceExists ==
    ASSUME NEW R, NEW table \in Seq(R), NEW x
    PROVE  /\ place(table, x) \in 0..Len(table)
           /\ \A k \in 1..place(table, x) : ~less(x, table[k])
           /\ place(table, x) < Len(table) => less(x, table[place(table, x) + 1])
<1> DEFINE S == {n \in 0..Len(table) : n = Len(table) \/ less(x, table[n + 1])}
<1>1. Len(table) \in S /\ S \in SUBSET Nat
    OBVIOUS
<1> HIDE DEF S
<1>2. PICK n \in S : \A m \in S : n <= m
    BY <1>1, LeastNat
<1>3. /\ n \in 0..Len(table)
      /\ \A k \in 1..n : ~less(x, table[k])
      /\ n < Len(table) => less(x, table[n + 1])
    <2>1. n \in 0..Len(table) /\ (n < Len(table) => less(x, table[n + 1]))
        BY DEF S
    <2>2. ASSUME NEW k \in 1..n, less(x, table[k])  PROVE FALSE
        <3> DEFINE m == k - 1
        <3>1. m \in 0..Len(table) /\ m + 1 = k /\ m < n
            BY <2>1
        <3> HIDE DEF m
        <3>2. m \in S
            BY <3>1, <2>2 DEF S
        <3> QED  BY <3>1, <3>2, <1>2, <2>1
    <2> QED  BY <2>1, <2>2
<1> QED  BY <1>3 DEF place

\* What insert makes of a table: it leaves it as it is, or puts x at a place.
LEMMA InsertShape ==
    ASSUME NEW R, NEW table \in Seq(R), NEW x \in R
    PROVE  \E n \in 0..Len(table) :
             /\ \A k \in 1..n : ~less(x, table[k])
             /\ n < Len(table) => less(x, table[n + 1])
             /\ \/ /\ n = 0 \/ less(table[n], x)
                   /\ insert(table, x) \in Seq(R)
                   /\ Len(insert(table, x)) = Len(table) + 1
                   /\ \A k \in 1..n : insert(table, x)[k] = table[k]
                   /\ insert(table, x)[n + 1] = x
                   /\ \A k \in (n + 1)..Len(table) : insert(table, x)[k + 1] = table[k]
                \/ n # 0 /\ ~less(table[n], x) /\ insert(table, x) = table
<1>1. PICK n \in 0..Len(table) :
         /\ n = place(table, x)
         /\ \A k \in 1..n : ~less(x, table[k])
         /\ n < Len(table) => less(x, table[n + 1])
    BY PlaceExists
<1>2. CASE n = 0 \/ less(table[n], x)
    <2> DEFINE left == SubSeq(table, 1, n)
               right == SubSeq(table, n + 1, Len(table))
    <2>1. /\ left \in Seq(R) /\ Len(left) = n
          /\ \A k \in 1..n : left[k] = table[k]
        OBVIOUS
    <2>2. /\ right \in Seq(R) /\ Len(right) = Len(table) - n
          /\ \A k \in 1..(Len(table) - n) : right[k] = table[n + k]
        OBVIOUS
    <2>3. insert(table, x) = left \o <<x>> \o right
        BY <1>1, <1>2 DEF insert
    <2> HIDE DEF left, right
    <2> DEFINE whole == left \o <<x>> \o right
    <2>4. /\ whole \in Seq(R) /\ Len(whole) = Len(table) + 1
          /\ \A k \in 1..n : whole[k] = table[k]
          /\ whole[n + 1] = x
        <3> DEFINE start == left \o <<x>>
        <3>1. /\ start \in Seq(R) /\ Len(start) = n + 1
              /\ \A k \in 1..n : start[k] = table[k]
              /\ start[n + 1] = x
            BY <2>1
        <3> HIDE DEF start
        <3>2. /\ start \o right \in Seq(R)
              /\ Len(start \o right) = Len(table) + 1
              /\ \A k \in 1..(n + 1) : (start \o right)[k] = start[k]
            BY <3>1, <2>2
        <3>3. whole = start \o right
            BY DEF start
        <3> HIDE DEF whole
        <3> QED  BY <3>1, <3>2, <3>3
    <2>5. ASSUME NEW k \in (n + 1)..Len(table)  PROVE whole[k + 1] = table[k]
        <3>1. whole[k + 1] = right[k - n]
            BY <2>1, <2>2
        <3>2. k - n \in 1..(Len(table) - n) /\ n + (k - n) = k
            OBVIOUS
        <3> QED  BY <3>1, <3>2, <2>2
    <2> HIDE DEF whole
    <2>6. insert(table, x) = whole
        BY <2>3 DEF whole
    <2> QED  BY <1>1, <1>2, <2>4, <2>5, <2>6
<1>3. CASE ~(n = 0 \/ less(table[n], x))
    <2>1. insert(table, x) = table
        BY <1>1, <1>3 DEF insert
    <2> QED  BY <1>1, <1>3, <2>1
<1> QED  BY <1>2, <1>3

-----------------------------------------------------------------------------
InOrder(t) ==
    \A j, k \in 1..Len(t) :
        j < k => \/ IsDirect(t[j])
                 \/ ~IsDirect(t[k]) /\ t[j].prefix_length > t[k].prefix_length

\* Each route added is in the table, or one through a gateway of its length is.
Known(t, a) ==
    \A m \in 1..Len(a) : \E p \in 1..Len(t) :
        \/ t[p] = a[m]
        \/ ~IsDirect(t[p]) /\ ~IsDirect(a[m]) /\ t[p].prefix_length = a[m].prefix_length

\* The routes of the table were added, and the direct routes added after a
\* direct route stand before it.
LaterFirst(t, a) ==
    \A k \in 1..Len(t) : \E i \in 1..Len(a) :
        /\ a[i] = t[k]
        /\ IsDirect(t[k]) =>
              \A m \in (i + 1)..Len(a) :
                  IsDirect(a[m]) => \E p \in 1..(k - 1) : t[p] = a[m]

\* RoutesKept of any table and any routes.
Kept(t, a) ==
    /\ \A k \in 1..Len(t) : \E m \in 1..Len(a) : t[k] = a[m]
    /\ \A m \in 1..Len(a) : Distinct(a, m) => \E k \in 1..Len(t) : t[k] = a[m]

IInv ==
    /\ TypeOK
    /\ InOrder(rout_map)
    /\ Known(rout_map, added) /\ LaterFirst(rout_map, added) /\ Kept(rout_map, added)

Lengths(R) == \A r \in R : r.prefix_length \in Int

\* insert keeps a table in order.
LEMMA InsertKeepsOrder ==
    ASSUME NEW R, Lengths(R), NEW t \in Seq(R), NEW x \in R, InOrder(t)
    PROVE  InOrder(insert(t, x))
<1> DEFINE u == insert(t, x)
<1>1. PICK n \in 0..Len(t) :
         /\ \A k \in 1..n : ~less(x, t[k])
         /\ n < Len(t) => less(x, t[n + 1])
         /\ \/ /\ n = 0 \/ less(t[n], x)
               /\ u \in Seq(R) /\ Len(u) = Len(t) + 1
               /\ \A k \in 1..n : u[k] = t[k]
               /\ u[n + 1] = x
               /\ \A k \in (n + 1)..Len(t) : u[k + 1] = t[k]
            \/ n # 0 /\ ~less(t[n], x) /\ u = t
    BY InsertShape
<1> HIDE DEF u
<1>2. CASE u = t
    BY <1>2 DEF u
<1>3. CASE u # t
    <2> SUFFICES ASSUME NEW j \in 1..Len(u), NEW k \in 1..Len(u), j < k
                 PROVE  \/ IsDirect(u[j])
                        \/ ~IsDirect(u[k]) /\ u[j].prefix_length > u[k].prefix_length
        BY DEF InOrder, u
    <2>0. \A i \in 1..Len(t) : t[i].prefix_length \in Int
        BY DEF Lengths
    <2>00. x.prefix_length \in Int
        BY DEF Lengths
    <2>1. CASE j <= n /\ k <= n
        BY <1>1, <1>3, <2>1 DEF InOrder
    <2>2. CASE j <= n /\ k = n + 1
        <3>1. u[j] = t[j] /\ u[k] = x /\ ~less(x, t[j]) /\ less(t[n], x) /\ n \in 1..Len(t)
            BY <1>1, <1>3, <2>2
        <3>2. j = n \/ IsDirect(t[j])
              \/ (~IsDirect(t[n]) /\ t[j].prefix_length > t[n].prefix_length)
            BY <2>2, <3>1 DEF InOrder
        <3> QED  BY <3>1, <3>2, <2>0, <2>00, <2>2 DEF less, IsDirect
    <2>3. CASE j <= n /\ k > n + 1
        <3>1. PICK i \in (n + 1)..Len(t) : k = i + 1
            BY <1>1, <1>3, <2>3
        <3>2. u[j] = t[j] /\ u[k] = t[i] /\ j < i
            BY <1>1, <1>3, <2>3, <3>1
        <3> QED  BY <3>2, <2>3 DEF InOrder
    <2>4. CASE j = n + 1
        <3>1. PICK i \in (n + 1)..Len(t) : k = i + 1
            <4>1. k - 1 \in (n + 1)..Len(t) /\ k = (k - 1) + 1
                BY <1>1, <1>3, <2>4
            <4> QED  BY <4>1
        <3>2. u[j] = x /\ u[k] = t[i] /\ less(x, t[n + 1]) /\ n + 1 \in 1..Len(t)
            BY <1>1, <1>3, <2>4, <3>1
        <3>3. i = n + 1 \/ IsDirect(t[n + 1])
              \/ (~IsDirect(t[i]) /\ t[n + 1].prefix_length > t[i].prefix_length)
            BY <3>1, <3>2 DEF InOrder
        <3> QED  BY <3>2, <3>3, <2>0, <2>00 DEF less, IsDirect
    <2>5. CASE j > n + 1
        <3>1. PICK i \in (n + 1)..Len(t), h \in (n + 1)..Len(t) : k = i + 1 /\ j = h + 1
            <4> DEFINE i == k - 1
                       h == j - 1
            <4>1. i \in (n + 1)..Len(t) /\ h \in (n + 1)..Len(t) /\ k = i + 1 /\ j = h + 1
                BY <1>1, <1>3, <2>5
            <4> QED  BY <4>1
        <3>2. u[j] = t[h] /\ u[k] = t[i] /\ h < i
            BY <1>1, <1>3, <3>1
        <3> QED  BY <3>2 DEF InOrder
    <2> QED  BY <1>1, <1>3, <2>1, <2>2, <2>3, <2>4, <2>5
<1> QED  BY <1>2, <1>3

\* insert keeps the routes that were there, and x or one of its length.
LEMMA InsertKeepsKnown ==
    ASSUME NEW R, Lengths(R), NEW t \in Seq(R), NEW a \in Seq(R), NEW x \in R, Known(t, a)
    PROVE  Known(insert(t, x), Append(a, x))
<1> DEFINE u == insert(t, x)
           b == Append(a, x)
<1>1. PICK n \in 0..Len(t) :
         /\ \A k \in 1..n : ~less(x, t[k])
         /\ n < Len(t) => less(x, t[n + 1])
         /\ \/ /\ n = 0 \/ less(t[n], x)
               /\ u \in Seq(R) /\ Len(u) = Len(t) + 1
               /\ \A k \in 1..n : u[k] = t[k]
               /\ u[n + 1] = x
               /\ \A k \in (n + 1)..Len(t) : u[k + 1] = t[k]
            \/ n # 0 /\ ~less(t[n], x) /\ u = t
    BY InsertShape
<1>2. /\ Len(b) = Len(a) + 1 /\ b[Len(a) + 1] = x
      /\ \A m \in 1..Len(a) : b[m] = a[m]
    OBVIOUS
<1> HIDE DEF u, b
<1>3. \A p \in 1..Len(t) : \E q \in 1..Len(u) : u[q] = t[p]
    <2> TAKE p \in 1..Len(t)
    <2>1. CASE u = t
        BY <2>1
    <2>2. CASE u # t /\ p <= n
        BY <2>2, <1>1
    <2>3. CASE u # t /\ p > n
        <3>1. p + 1 \in 1..Len(u) /\ u[p + 1] = t[p]
            BY <2>3, <1>1
        <3> QED  BY <3>1
    <2> QED  BY <2>1, <2>2, <2>3
<1>4. \E q \in 1..Len(u) :
         \/ u[q] = x
         \/ ~IsDirect(u[q]) /\ ~IsDirect(x) /\ u[q].prefix_length = x.prefix_length
    <2>1. CASE n # 0 /\ ~less(t[n], x) /\ u = t
        <3>1. n \in 1..Len(u) /\ ~less(x, u[n]) /\ ~less(u[n], x)
            BY <2>1, <1>1
        <3>2. x.prefix_length \in Int /\ u[n].prefix_length \in Int
            BY <2>1, <3>1 DEF Lengths
        <3>3. ~IsDirect(u[n]) /\ ~IsDirect(x) /\ u[n].prefix_length = x.prefix_length
            BY <3>1, <3>2 DEF less, IsDirect
        <3> QED  BY <3>1, <3>3
    <2>2. CASE ~(n # 0 /\ ~less(t[n], x) /\ u = t)
        <3>1. n + 1 \in 1..Len(u) /\ u[n + 1] = x
            BY <2>2, <1>1
        <3> QED  BY <3>1
    <2> QED  BY <2>1, <2>2
<1>5. Known(u, b)
    <2> SUFFICES ASSUME NEW m \in 1..Len(b)
                 PROVE  \E q \in 1..Len(u) :
                          \/ u[q] = b[m]
                          \/ /\ ~IsDirect(u[q]) /\ ~IsDirect(b[m])
                             /\ u[q].prefix_length = b[m].prefix_length
        BY DEF Known
    <2>1. CASE m = Len(a) + 1
        BY <2>1, <1>2, <1>4
    <2>2. CASE m # Len(a) + 1
        <3>1. m \in 1..Len(a) /\ b[m] = a[m]
            BY <2>2, <1>2
        <3>2. PICK p \in 1..Len(t) :
                 \/ t[p] = a[m]
                 \/ /\ ~IsDirect(t[p]) /\ ~IsDirect(a[m])
                    /\ t[p].prefix_length = a[m].prefix_length
            BY <3>1 DEF Known
        <3>3. PICK q \in 1..Len(u) : u[q] = t[p]
            BY <1>3
        <3> QED  BY <3>1, <3>2, <3>3
    <2> QED  BY <2>1, <2>2
<1> QED  BY <1>5 DEF u, b

\* insert puts a direct route before those that were there.
LEMMA InsertKeepsLaterFirst ==
    ASSUME NEW R, Lengths(R), NEW t \in Seq(R), NEW a \in Seq(R), NEW x \in R,
           InOrder(t), LaterFirst(t, a)
    PROVE  LaterFirst(insert(t, x), Append(a, x))
<1> DEFINE u == insert(t, x)
           b == Append(a, x)
<1>1. PICK n \in 0..Len(t) :
         /\ \A k \in 1..n : ~less(x, t[k])
         /\ n < Len(t) => less(x, t[n + 1])
         /\ \/ /\ n = 0 \/ less(t[n], x)
               /\ u \in Seq(R) /\ Len(u) = Len(t) + 1
               /\ \A k \in 1..n : u[k] = t[k]
               /\ u[n + 1] = x
               /\ \A k \in (n + 1)..Len(t) : u[k + 1] = t[k]
            \/ n # 0 /\ ~less(t[n], x) /\ u = t
    BY InsertShape
<1>2. /\ Len(b) = Len(a) + 1 /\ b[Len(a) + 1] = x /\ Len(a) \in Nat
      /\ \A m \in 1..Len(a) : b[m] = a[m]
    OBVIOUS
<1> HIDE DEF u, b
<1>3. IsDirect(x) => n = 0
    <2> SUFFICES ASSUME IsDirect(x), n # 0  PROVE FALSE
        OBVIOUS
    <2>1. ~less(x, t[1])
        BY <1>1
    <2> QED  BY <2>1 DEF less, IsDirect
<1>4. ASSUME ~IsDirect(x), NEW k \in (n + 1)..Len(t)  PROVE ~IsDirect(t[k])
    <2>1. less(x, t[n + 1]) /\ n + 1 \in 1..Len(t)
        BY <1>1
    <2>2. ~IsDirect(t[n + 1])
        BY <2>1, <1>4 DEF less, IsDirect
    <2> QED  BY <2>1, <2>2 DEF InOrder
\* An old route at place k of t, at place q of u, with the direct routes of t
\* before it still before it, and x, if direct, too.
<1>5. ASSUME NEW k \in 1..Len(t), NEW q \in 1..Len(u), u[q] = t[k],
             IsDirect(t[k]) => \A p \in 1..(k - 1) : \E r \in 1..(q - 1) : u[r] = t[p],
             IsDirect(x) => \E r \in 1..(q - 1) : u[r] = x
      PROVE  \E i \in 1..Len(b) :
               /\ b[i] = u[q]
               /\ IsDirect(u[q]) => \A m \in (i + 1)..Len(b) :
                     IsDirect(b[m]) => \E p \in 1..(q - 1) : u[p] = b[m]
    <2>1. PICK i \in 1..Len(a) :
             /\ a[i] = t[k]
             /\ IsDirect(t[k]) => \A m \in (i + 1)..Len(a) :
                   IsDirect(a[m]) => \E p \in 1..(k - 1) : t[p] = a[m]
        BY DEF LaterFirst
    <2>2. i \in 1..Len(b) /\ b[i] = u[q]
        BY <2>1, <1>2, <1>5
    <2>3. ASSUME IsDirect(u[q]), NEW m \in (i + 1)..Len(b), IsDirect(b[m])
          PROVE  \E p \in 1..(q - 1) : u[p] = b[m]
        <3>1. CASE m = Len(a) + 1
            BY <3>1, <1>2, <1>5, <2>3
        <3>2. CASE m # Len(a) + 1
            <4>1. m \in (i + 1)..Len(a) /\ b[m] = a[m]
                BY <3>2, <1>2
            <4>2. PICK p \in 1..(k - 1) : t[p] = a[m]
                BY <4>1, <2>1, <2>3, <1>5
            <4> QED  BY <4>1, <4>2, <1>5, <2>3
        <3> QED  BY <3>1, <3>2
    <2> QED  BY <2>2, <2>3
<1>6. ASSUME NEW q \in 1..Len(u)
      PROVE  \E i \in 1..Len(b) :
               /\ b[i] = u[q]
               /\ IsDirect(u[q]) => \A m \in (i + 1)..Len(b) :
                     IsDirect(b[m]) => \E p \in 1..(q - 1) : u[p] = b[m]
    <2>1. CASE n # 0 /\ ~less(t[n], x) /\ u = t
        <3>1. q \in 1..Len(t) /\ ~IsDirect(x) /\ \A p \in 1..(q - 1) : u[p] = t[p]
            BY <2>1, <1>3
        <3> QED  BY <3>1, <2>1, <1>5
    <2>2. CASE ~(n # 0 /\ ~less(t[n], x) /\ u = t) /\ q = n + 1
        <3>1. Len(a) + 1 \in 1..Len(b) /\ b[Len(a) + 1] = u[q]
            BY <2>2, <1>1, <1>2
        <3>2. (Len(a) + 1 + 1)..Len(b) = {}
            BY <1>2
        <3> QED  BY <3>1, <3>2
    <2>3. CASE ~(n # 0 /\ ~less(t[n], x) /\ u = t) /\ q <= n
        <3>1. /\ q \in 1..Len(t) /\ u[q] = t[q] /\ ~IsDirect(x)
              /\ \A p \in 1..(q - 1) : u[p] = t[p]
            BY <2>3, <1>1, <1>3
        <3> QED  BY <3>1, <1>5
    <2>4. CASE ~(n # 0 /\ ~less(t[n], x) /\ u = t) /\ q > n + 1
        <3>1. PICK k \in (n + 1)..Len(t) : q = k + 1
            <4>1. q - 1 \in (n + 1)..Len(t) /\ q = (q - 1) + 1
                BY <2>4, <1>1
            <4> QED  BY <4>1
        <3>2. k \in 1..Len(t) /\ u[q] = t[k]
            BY <2>4, <3>1, <1>1
        <3>3. IsDirect(x) => \E r \in 1..(q - 1) : u[r] = x
            BY <2>4, <1>1
        <3>4. CASE IsDirect(x)
            <4>1. ASSUME NEW p \in 1..(k - 1)  PROVE \E r \in 1..(q - 1) : u[r] = t[p]
                <5>1. p \in (n + 1)..Len(t) /\ p + 1 \in 1..(q - 1)
                    BY <3>1, <3>4, <1>3
                <5>2. u[p + 1] = t[p]
                    BY <5>1, <2>4, <1>1
                <5> QED  BY <5>1, <5>2
            <4> QED  BY <4>1, <3>2, <3>3, <1>5
        <3>5. CASE ~IsDirect(x)
            <4>1. ~IsDirect(t[k])
                BY <3>1, <3>5, <1>4
            <4> QED  BY <4>1, <3>2, <3>5, <1>5
        <3> QED  BY <3>4, <3>5
    <2> QED  BY <2>1, <2>2, <2>3, <2>4
<1>7. LaterFirst(u, b)
    BY <1>6 DEF LaterFirst
<1> QED  BY <1>7 DEF u, b

\* insert keeps the routes that were there, adds none but x, and adds x if it
\* is direct or the first of its length through a gateway.
LEMMA InsertKeepsRoutes ==
    ASSUME NEW R, Lengths(R), NEW t \in Seq(R), NEW a \in Seq(R), NEW x \in R, Kept(t, a)
    PROVE  Kept(insert(t, x), Append(a, x))
<1> DEFINE u == insert(t, x)
           b == Append(a, x)
<1>1. PICK n \in 0..Len(t) :
         /\ \A k \in 1..n : ~less(x, t[k])
         /\ n < Len(t) => less(x, t[n + 1])
         /\ \/ /\ n = 0 \/ less(t[n], x)
               /\ u \in Seq(R) /\ Len(u) = Len(t) + 1
               /\ \A k \in 1..n : u[k] = t[k]
               /\ u[n + 1] = x
               /\ \A k \in (n + 1)..Len(t) : u[k + 1] = t[k]
            \/ n # 0 /\ ~less(t[n], x) /\ u = t
    BY InsertShape
<1>2. /\ Len(b) = Len(a) + 1 /\ b[Len(a) + 1] = x /\ Len(a) \in Nat
      /\ \A m \in 1..Len(a) : b[m] = a[m]
    OBVIOUS
<1> HIDE DEF u, b
<1>3. \A k \in 1..Len(u) : \E m \in 1..Len(b) : u[k] = b[m]
    <2> TAKE k \in 1..Len(u)
    <2>1. ASSUME NEW p \in 1..Len(t)  PROVE \E m \in 1..Len(b) : t[p] = b[m]
        <3>1. PICK m \in 1..Len(a) : t[p] = a[m]
            BY DEF Kept
        <3> QED  BY <3>1, <1>2
    <2>2. CASE u = t
        BY <2>1, <2>2
    <2>3. CASE u # t /\ k <= n
        BY <2>1, <2>3, <1>1
    <2>4. CASE u # t /\ k = n + 1
        BY <2>4, <1>1, <1>2
    <2>5. CASE u # t /\ k > n + 1
        <3>1. k - 1 \in (n + 1)..Len(t) /\ u[(k - 1) + 1] = t[k - 1]
            BY <2>5, <1>1
        <3>2. k - 1 \in 1..Len(t) /\ u[k] = t[k - 1]
            BY <3>1
        <3> QED  BY <3>2, <2>1
    <2> QED  BY <2>2, <2>3, <2>4, <2>5
<1>4. \A p \in 1..Len(t) : \E q \in 1..Len(u) : u[q] = t[p]
    <2> TAKE p \in 1..Len(t)
    <2>1. CASE u = t
        BY <2>1
    <2>2. CASE u # t /\ p <= n
        BY <2>2, <1>1
    <2>3. CASE u # t /\ p > n
        <3>1. p + 1 \in 1..Len(u) /\ u[p + 1] = t[p]
            BY <2>3, <1>1
        <3> QED  BY <3>1
    <2> QED  BY <2>1, <2>2, <2>3
<1>5. ASSUME NEW m \in 1..Len(b), Distinct(b, m)
      PROVE  \E q \in 1..Len(u) : u[q] = b[m]
    <2>1. CASE m \in 1..Len(a)
        <3>1. Distinct(a, m)
            BY <2>1, <1>2, <1>5 DEF Distinct
        <3>2. PICK p \in 1..Len(t) : t[p] = a[m]
            BY <2>1, <3>1 DEF Kept
        <3> QED  BY <2>1, <3>2, <1>2, <1>4
    <2>2. CASE m = Len(a) + 1 /\ n # 0 /\ ~less(t[n], x) /\ u = t
        <3>1. n \in 1..Len(t) /\ ~less(x, t[n])
            BY <2>2, <1>1
        <3>2. x.prefix_length \in Int /\ t[n].prefix_length \in Int
            BY <3>1 DEF Lengths
        <3>3. ~IsDirect(t[n]) /\ ~IsDirect(x) /\ t[n].prefix_length = x.prefix_length
            BY <2>2, <3>1, <3>2 DEF less, IsDirect
        <3>4. PICK j \in 1..Len(a) : t[n] = a[j]
            BY <3>1 DEF Kept
        <3>5. j \in 1..(m - 1) /\ b[j] = t[n] /\ b[m] = x
            BY <2>2, <3>4, <1>2
        <3> QED  BY <3>3, <3>5, <1>5 DEF Distinct
    <2>3. CASE m = Len(a) + 1 /\ ~(n # 0 /\ ~less(t[n], x) /\ u = t)
        <3>1. n + 1 \in 1..Len(u) /\ u[n + 1] = x
            BY <2>3, <1>1
        <3> QED  BY <2>3, <3>1, <1>2
    <2> QED  BY <2>1, <2>2, <2>3, <1>2
<1>6. Kept(u, b)
    BY <1>3, <1>5 DEF Kept
<1> QED  BY <1>6 DEF u, b

\* Prefix lengths are integers.
LEMMA RouteLengths == Lengths(Routes)
BY RoutesAssumption, WidthAssumption DEF Lengths

\* The invariant holds of the empty table and AddRoute keeps it.
LEMMA Invariance == Spec => []IInv
<1>1. Init => IInv
    BY DEF Init, IInv, TypeOK, InOrder, Known, LaterFirst, Kept
<1>2. IInv /\ [Next]_vars => IInv'
    <2> SUFFICES ASSUME IInv, [Next]_vars  PROVE IInv'
        OBVIOUS
    <2>1. CASE UNCHANGED vars
        BY <2>1 DEF vars, IInv, TypeOK, InOrder, Known, LaterFirst, Kept
    <2>2. ASSUME NEW x \in Routes, AddRoute(x)  PROVE IInv'
        <3>1. rout_map \in Seq(Routes) /\ added \in Seq(Routes)
            BY DEF IInv, TypeOK
        <3>2. rout_map' = insert(rout_map, x) /\ added' = Append(added, x)
            BY <2>2, RoutesAssumption DEF AddRoute, add_route
        <3>3. rout_map' \in Seq(Routes)
            BY <3>1, <3>2, InsertShape
        <3>4. TypeOK'
            BY <3>1, <3>2, <3>3 DEF TypeOK
        <3>5. InOrder(rout_map')
            BY <3>1, <3>2, RouteLengths, InsertKeepsOrder DEF IInv
        <3>6. Known(rout_map', added')
            BY <3>1, <3>2, RouteLengths, InsertKeepsKnown DEF IInv
        <3>7. LaterFirst(rout_map', added')
            BY <3>1, <3>2, RouteLengths, InsertKeepsLaterFirst DEF IInv
        <3>8. Kept(rout_map', added')
            BY <3>1, <3>2, RouteLengths, InsertKeepsRoutes DEF IInv
        <3> QED  BY <3>4, <3>5, <3>6, <3>7, <3>8 DEF IInv
    <2> QED  BY <2>1, <2>2 DEF Next
<1> QED  BY <1>1, <1>2, PTL DEF Spec

\* Whatever add_route is called with, the table holds every direct route, the
\* first route through a gateway of each length, and no route that was not added.
THEOREM RoutesAreKept == Spec => []RoutesKept
<1>1. IInv => RoutesKept
    BY DEF IInv, Kept, RoutesKept
<1> QED  BY <1>1, Invariance, PTL

\* operator< of RoutNode, which is no strict weak order, still keeps every
\* table in the order on which std::set::insert relies.
THEOREM TableStaysInOrder == Spec => []TableInOrder
<1>1. IInv => TableInOrder
    BY DEF IInv, InOrder, TableInOrder
<1> QED  BY <1>1, Invariance, PTL

\* Of separated routes, the first match in the table is a longest one.
LEMMA FirstIsLongest ==
    ASSUME IInv, Separated, NEW ip \in Address,
           NEW m \in 1..Len(added), Matches(added[m], ip)
    PROVE  \E k \in 1..Len(added) : Chooses(ip, added[k]) /\ IsLongest(ip, added[k])
<1>0. rout_map \in Seq(Routes) /\ added \in Seq(Routes)
    BY DEF IInv, TypeOK
<1>00. /\ \A j \in 1..Len(rout_map) : rout_map[j].prefix_length \in Int
       /\ \A j \in 1..Len(added) : added[j].prefix_length \in Int
    BY <1>0, RouteLengths DEF Lengths
\* Every route added is in the table.
<1>1. ASSUME NEW j \in 1..Len(added)  PROVE \E p \in 1..Len(rout_map) : rout_map[p] = added[j]
    <2>1. PICK p \in 1..Len(rout_map) :
             \/ rout_map[p] = added[j]
             \/ /\ ~IsDirect(rout_map[p]) /\ ~IsDirect(added[j])
                /\ rout_map[p].prefix_length = added[j].prefix_length
        BY DEF IInv, Known
    <2>2. PICK i \in 1..Len(added) : added[i] = rout_map[p]
        BY DEF IInv, LaterFirst
    <2>3. CASE rout_map[p] # added[j]
        <3>1. i = j
            BY <2>1, <2>2, <2>3, <1>0 DEF Separated
        <3> QED  BY <3>1, <2>2, <2>3
    <2> QED  BY <2>1, <2>3
<1> DEFINE S == {p \in 1..Len(rout_map) : Matches(rout_map[p], ip)}
<1>2. S # {} /\ S \in SUBSET Nat
    <2>1. PICK p \in 1..Len(rout_map) : rout_map[p] = added[m]
        BY <1>1
    <2>2. p \in S
        BY <2>1
    <2> QED  BY <2>2
<1> HIDE DEF S
<1>3. PICK k \in S : \A p \in S : k <= p
    BY <1>2, LeastNat
<1>4. k \in 1..Len(rout_map) /\ IsFirstMatch(rout_map, k, ip)
    <2>1. k \in 1..Len(rout_map) /\ Matches(rout_map[k], ip)
        BY <1>3 DEF S
    <2>2. ASSUME NEW j \in 1..(k - 1), Matches(rout_map[j], ip)  PROVE FALSE
        <3>1. j \in S /\ j < k
            BY <2>1, <2>2, <1>0 DEF S
        <3> QED  BY <3>1, <1>3, <2>1, <2>2
    <2> QED  BY <2>1, <2>2 DEF IsFirstMatch
<1>5. PICK i \in 1..Len(added) :
         /\ added[i] = rout_map[k]
         /\ IsDirect(rout_map[k]) => \A n \in (i + 1)..Len(added) :
               IsDirect(added[n]) => \E p \in 1..(k - 1) : rout_map[p] = added[n]
    BY <1>4 DEF IInv, LaterFirst
<1>6. ASSUME NEW j \in 1..Len(added), Matches(added[j], ip),
             added[j].prefix_length > added[i].prefix_length
      PROVE  FALSE
    <2>1. PICK p \in 1..Len(rout_map) : rout_map[p] = added[j]
        BY <1>1
    <2>2. p >= k
        BY <2>1, <1>4, <1>6 DEF IsFirstMatch
    <2>3. p # k
        BY <2>1, <1>5, <1>6, <1>00
    <2>4. CASE IsDirect(rout_map[k])
        <3>1. IsDirect(added[j]) /\ i < j
            BY <2>4, <1>4, <1>5, <1>6, <1>00 DEF Separated, IsFirstMatch
        <3>2. PICK q \in 1..(k - 1) : rout_map[q] = added[j]
            BY <3>1, <2>4, <1>5, <1>0
        <3> QED  BY <3>2, <1>4, <1>6 DEF IsFirstMatch
    <2>5. CASE ~IsDirect(rout_map[k])
        <3>1. rout_map[k].prefix_length > rout_map[p].prefix_length
            BY <2>2, <2>3, <2>5, <1>4, <2>1 DEF IInv, InOrder
        <3> QED  BY <3>1, <2>1, <1>5, <1>6, <1>00, <1>4
    <2> QED  BY <2>4, <2>5
<1>7. IsLongest(ip, added[i])
    <2>1. Matches(added[i], ip)
        BY <1>4, <1>5 DEF IsFirstMatch
    <2>2. ASSUME NEW j \in 1..Len(added), Matches(added[j], ip)
          PROVE  added[j].prefix_length <= added[i].prefix_length
        BY <2>2, <1>6, <1>00
    <2> QED  BY <2>1, <2>2 DEF IsLongest
<1>8. Chooses(ip, added[i])
    BY <1>4, <1>5 DEF Chooses
<1> QED  BY <1>7, <1>8

\* add_route and the lookup of route_one_datagram match the longest prefix
\* wherever routes are separated, in whatever order they were added.
THEOREM LongestWhereSeparated == Spec => []SeparatedMatchLongest
<1>1. IInv => SeparatedMatchLongest
    BY FirstIsLongest DEF SeparatedMatchLongest, LongestPrefixMatch
<1> QED  BY <1>1, Invariance, PTL
=============================================================================
