----------------------------- MODULE PacketsProofs -----------------------------
(***************************************************************************)
(* What Channels and Packets guarantee for every list of a server, every   *)
(* argument of -C, every series of samples and every window of a request.  *)
(***************************************************************************)
EXTENDS Packets, FiniteSetTheorems, SequenceTheorems, TLAPS

-----------------------------------------------------------------------------
(* Induction.  The provers cannot instantiate a theorem about a predicate; *)
(* these are about a set.                                                  *)

\* A set with 0 and the successor of each of its elements has every natural.  If it
\* lacked x, the predecessor would map what it lacks up to x into the same without
\* x, which is too small.
LEMMA SetInduction ==
  ASSUME NEW T, T \subseteq Nat, 0 \in T, \A n \in T : n + 1 \in T
  PROVE  T = Nat
<1>1. SUFFICES ASSUME NEW x \in Nat, x \notin T PROVE FALSE
  OBVIOUS
<1> DEFINE D == {y \in 0 .. x : y \notin T}
           before == [y \in D |-> y - 1]
<1>2. IsFiniteSet(D)
  <2>1. IsFiniteSet(0 .. x)
    BY FS_Interval
  <2> QED
    BY ONLY <2>1, D \subseteq 0 .. x, FS_Subset
<1>3. before \in [D -> D \ {x}]
  <2>1. ASSUME NEW y \in D PROVE y - 1 \in D \ {x}
    <3>1. y \in Nat /\ y # 0 /\ y <= x /\ y - 1 \in Nat /\ (y - 1) + 1 = y
      OBVIOUS
    <3> QED
      BY <3>1
  <2> QED
    BY <2>1
<1>4. x \in D
  BY <1>1
<1> HIDE DEF D, before
<1>5. IsFiniteSet(D \ {x}) /\ Cardinality(D \ {x}) < Cardinality(D)
  <2>1. IsFiniteSet(D \ {x}) /\ Cardinality(D \ {x}) = Cardinality(D) - 1
    BY ONLY <1>2, <1>4, FS_RemoveElement
  <2> QED
    BY ONLY <1>2, <2>1, FS_CardinalityType
<1>6. \E y, z \in D : y # z /\ before[y] = before[z]
  <2> DEFINE E == D \ {x}
  <2> HIDE DEF E
  <2>1. IsFiniteSet(E) /\ Cardinality(E) < Cardinality(D) /\ before \in [D -> E]
    BY <1>3, <1>5 DEF E
  <2> QED
    BY ONLY <1>2, <2>1, FS_PigeonHole
<1> QED
  BY <1>6 DEF D, before

\* The same up to a number.
LEMMA IntervalInduction ==
  ASSUME NEW m \in Nat, NEW T, 0 \in T, \A n \in 0 .. (m - 1) : n \in T => n + 1 \in T
  PROVE  0 .. m \subseteq T
<1> DEFINE U == {n \in Nat : n <= m => n \in T}
<1>1. 0 \in U
  OBVIOUS
<1>2. ASSUME NEW n \in U PROVE n + 1 \in U
  <2>1. CASE n + 1 <= m
    <3>1. n \in 0 .. (m - 1) /\ n <= m
      BY <2>1
    <3> QED
      BY <3>1
  <2>2. CASE ~(n + 1 <= m)
    BY <2>2
  <2> QED
    BY <2>1, <2>2
<1>3. U = Nat
  <2>1. U \subseteq Nat
    OBVIOUS
  <2> HIDE DEF U
  <2> QED
    BY ONLY <1>1, <1>2, <2>1, SetInduction
<1> QED
  BY <1>3

\* A set of naturals that is not empty has a least element.
LEMMA LeastElement ==
  ASSUME NEW S, S \subseteq Nat, S # {}
  PROVE  \E x \in S : \A y \in S : x <= y
<1> SUFFICES ASSUME \A x \in S : \E y \in S : ~(x <= y) PROVE FALSE
  OBVIOUS
<1> DEFINE U == {n \in Nat : \A x \in S : n < x}
<1>1. 0 \in U
  OBVIOUS
<1>2. ASSUME NEW n \in U PROVE n + 1 \in U
  <2> SUFFICES ASSUME NEW x \in S, ~(n + 1 < x) PROVE FALSE
    OBVIOUS
  <2>1. x = n + 1
    OBVIOUS
  <2>2. PICK y \in S : ~(x <= y)
    OBVIOUS
  <2>3. n < y /\ y \in Nat /\ x \in Nat
    OBVIOUS
  <2> QED
    BY <2>1, <2>2, <2>3
<1>3. U = Nat
  <2>1. U \subseteq Nat
    OBVIOUS
  <2> HIDE DEF U
  <2> QED
    BY ONLY <1>1, <1>2, <2>1, SetInduction
<1>4. PICK x \in S : TRUE
  OBVIOUS
<1>5. x \in U
  BY <1>3
<1> QED
  BY <1>5

\* A set of numbers from 1 on without a gap has its cardinality as the last.
LEMMA InitialSegment ==
  ASSUME NEW n \in Nat, NEW S, S \subseteq 1 .. n, \A i \in S : \A j \in 1 .. i : j \in S
  PROVE  /\ S = 1 .. Cardinality(S)
         /\ Cardinality(S) \in 0 .. n
<1> DEFINE Out == {i \in 1 .. (n + 1) : i \notin S}
<1>1. Out \subseteq Nat /\ n + 1 \in Out
  OBVIOUS
<1>2. PICK k \in Out : \A i \in Out : k <= i
  <2> HIDE DEF Out
  <2> QED
    BY ONLY <1>1, LeastElement
<1>3. k \in 1 .. (n + 1) /\ k - 1 \in 0 .. n
  OBVIOUS
<1>4. ASSUME NEW i \in 1 .. n PROVE i \in S <=> i <= k - 1
  <2>1. CASE i <= k - 1
    <3>1. ~(k <= i) /\ i \in 1 .. (n + 1)
      BY <1>3, <2>1
    <3> QED
      BY <1>2, <2>1, <3>1
  <2>2. CASE ~(i <= k - 1)
    <3>1. k \in 1 .. i
      BY <1>3, <2>2
    <3> QED
      BY <1>2, <2>2, <3>1
  <2> QED
    BY <2>1, <2>2
<1>5. S = 1 .. (k - 1)
  <2>1. ASSUME NEW i \in S PROVE i \in 1 .. (k - 1)
    BY <1>3, <1>4
  <2>2. ASSUME NEW i \in 1 .. (k - 1) PROVE i \in S
    BY <1>3, <1>4
  <2> QED
    BY <2>1, <2>2
<1>6. Cardinality(1 .. (k - 1)) = k - 1
  <2>1. 1 \in Int /\ k - 1 \in Int
    BY <1>3
  <2>2. Cardinality(1 .. (k - 1)) = IF 1 > k - 1 THEN 0 ELSE (k - 1) - 1 + 1
    BY ONLY <2>1, FS_Interval
  <2> QED
    BY <1>3, <2>2
<1> QED
  BY <1>3, <1>5, <1>6

-----------------------------------------------------------------------------
(* The order of names                                                      *)

Text(n) == n.sta \o <<Period>> \o n.cha

Less(x, y) ==
  \E i \in 1 .. Len(y) :
    /\ i <= Len(x) + 1
    /\ \A j \in 1 .. (i - 1) : x[j] = y[j]
    /\ i > Len(x) \/ x[i] < y[i]

LEMMA BeforeIsLess ==
  ASSUME NEW a \in Name, NEW b \in Name
  PROVE  /\ Text(a) \in Seq(Int) /\ Text(b) \in Seq(Int)
         /\ Before(a, b) <=> Less(Text(a), Text(b))
<1>1. ASSUME NEW n \in Name PROVE Text(n) \in Seq(Int)
  <2>1. n.sta \in Seq(Int) /\ n.cha \in Seq(Int)
    BY DEF Name, Code
  <2>2. <<Period>> \in Seq(Int)
    BY DEF Period
  <2> QED
    BY <2>1, <2>2, ConcatProperties DEF Text
<1> QED
  BY <1>1 DEF Before, Less, Text

LEMMA LessTransitive ==
  ASSUME NEW x \in Seq(Int), NEW y \in Seq(Int), NEW z \in Seq(Int), Less(x, y), Less(y, z)
  PROVE  Less(x, z)
<1>1. PICK i \in 1 .. Len(y) : /\ i <= Len(x) + 1
                               /\ \A k \in 1 .. (i - 1) : x[k] = y[k]
                               /\ i > Len(x) \/ x[i] < y[i]
  BY DEF Less
<1>2. PICK j \in 1 .. Len(z) : /\ j <= Len(y) + 1
                               /\ \A k \in 1 .. (j - 1) : y[k] = z[k]
                               /\ j > Len(y) \/ y[j] < z[j]
  BY DEF Less
<1>3. Len(x) \in Nat /\ Len(y) \in Nat /\ Len(z) \in Nat
  OBVIOUS
<1>4. /\ \A k \in 1 .. Len(x) : x[k] \in Int
      /\ \A k \in 1 .. Len(y) : y[k] \in Int
      /\ \A k \in 1 .. Len(z) : z[k] \in Int
  OBVIOUS
<1>5. CASE i < j
  <2>1. i \in 1 .. Len(z) /\ i \in 1 .. (j - 1)
    BY <1>3, <1>5
  <2>2. \A k \in 1 .. (i - 1) : k \in 1 .. (j - 1)
    BY <1>3, <1>5
  <2>3. \A k \in 1 .. (i - 1) : x[k] = z[k]
    BY <1>1, <1>2, <2>2
  <2>4. i > Len(x) \/ x[i] < z[i]
    BY <1>1, <1>2, <2>1
  <2> QED
    BY <1>1, <2>1, <2>3, <2>4 DEF Less
<1>6. CASE i >= j
  <2>1. j <= Len(x) + 1 /\ j \in 1 .. Len(y)
    BY <1>1, <1>3, <1>6
  <2>2. \A k \in 1 .. (j - 1) : k \in 1 .. (i - 1)
    BY <1>3, <1>6
  <2>3. \A k \in 1 .. (j - 1) : x[k] = z[k]
    BY <1>1, <1>2, <2>2
  <2>4. j > Len(x) \/ x[j] < z[j]
    <3>1. CASE j <= Len(x)
      <4>1. y[j] < z[j]
        BY <1>2, <1>3, <2>1
      <4>2. x[j] <= y[j]
        <5>1. CASE j < i
          <6>1. j \in 1 .. (i - 1)
            BY <5>1, <1>3
          <6>2. x[j] = y[j] /\ x[j] \in Int
            BY <1>1, <1>4, <3>1, <6>1
          <6> QED
            BY <6>2
        <5>2. CASE j = i
          <6>1. x[i] < y[i] /\ x[i] \in Int /\ y[i] \in Int
            BY <1>1, <1>3, <1>4, <3>1, <5>2
          <6> QED
            BY <5>2, <6>1
        <5> QED
          BY <1>6, <5>1, <5>2
      <4>3. x[j] \in Int /\ y[j] \in Int /\ z[j] \in Int
        BY <1>3, <1>4, <2>1, <3>1
      <4> QED
        BY <4>1, <4>2, <4>3
    <3> QED
      BY <1>3, <3>1
  <2> QED
    BY <2>1, <2>3, <2>4 DEF Less
<1> QED
  BY <1>3, <1>5, <1>6

LEMMA LessIrreflexive ==
  ASSUME NEW x \in Seq(Int)
  PROVE  ~Less(x, x)
BY DEF Less

\* Two texts differ first somewhere, or one is the beginning of the other.
LEMMA LessTotal ==
  ASSUME NEW x \in Seq(Int), NEW y \in Seq(Int)
  PROVE  Less(x, y) \/ Less(y, x) \/ x = y
<1> DEFINE D == {i \in 1 .. Len(y) : i <= Len(x) /\ x[i] # y[i]}
<1>1. Len(x) \in Nat /\ Len(y) \in Nat /\ D \subseteq Nat
  OBVIOUS
<1>2. /\ \A k \in 1 .. Len(x) : x[k] \in Int
      /\ \A k \in 1 .. Len(y) : y[k] \in Int
  OBVIOUS
<1>3. CASE D = {}
  <2>1. \A k \in 1 .. Len(y) : k <= Len(x) => x[k] = y[k]
    BY <1>3
  <2>2. CASE Len(x) < Len(y)
    <3>1. PICK i \in 1 .. Len(y) : i = Len(x) + 1
      BY <1>1, <2>2
    <3>2. i <= Len(x) + 1 /\ i > Len(x) /\ \A k \in 1 .. (i - 1) : x[k] = y[k]
      BY <1>1, <2>1, <2>2, <3>1
    <3> QED
      BY ONLY <3>2 DEF Less
  <2>3. CASE Len(y) < Len(x)
    <3>1. PICK i \in 1 .. Len(x) : i = Len(y) + 1
      BY <1>1, <2>3
    <3>2. i <= Len(y) + 1 /\ i > Len(y) /\ \A k \in 1 .. (i - 1) : y[k] = x[k]
      BY <1>1, <2>1, <2>3, <3>1
    <3> QED
      BY ONLY <3>2 DEF Less
  <2>4. CASE Len(x) = Len(y)
    <3>1. \A k \in 1 .. Len(x) : x[k] = y[k]
      BY <1>1, <2>1, <2>4
    <3> QED
      BY ONLY <2>4, <3>1, x \in Seq(Int), y \in Seq(Int), SeqEqual
  <2> QED
    BY <1>1, <2>2, <2>3, <2>4
<1>4. CASE D # {}
  <2>1. PICK i \in D : \A k \in D : i <= k
    <3> HIDE DEF D
    <3> QED
      BY ONLY <1>1, <1>4, LeastElement
  <2>2. i \in 1 .. Len(y) /\ i \in 1 .. Len(x) /\ x[i] # y[i]
    BY <1>1
  <2>3. \A k \in 1 .. (i - 1) : x[k] = y[k]
    <3> SUFFICES ASSUME NEW k \in 1 .. (i - 1), x[k] # y[k] PROVE FALSE
      OBVIOUS
    <3>1. k \in 1 .. Len(y) /\ k <= Len(x) /\ ~(i <= k)
      BY <1>1, <2>2
    <3>2. k \in D
      BY <3>1
    <3> QED
      BY <2>1, <3>1, <3>2
  <2>4. x[i] \in Int /\ y[i] \in Int
    BY <1>2, <2>2
  <2>5. i <= Len(x) + 1 /\ i <= Len(y) + 1
    BY <1>1, <2>2
  <2>6. CASE x[i] < y[i]
    BY <2>2, <2>3, <2>5, <2>6 DEF Less
  <2>7. CASE y[i] < x[i]
    <3>1. \A k \in 1 .. (i - 1) : y[k] = x[k]
      BY <2>3
    <3> QED
      BY <2>2, <2>5, <2>7, <3>1 DEF Less
  <2> QED
    BY <2>2, <2>4, <2>6, <2>7
<1> QED
  BY <1>3, <1>4

\* chan_name_compare() and nmxp_meta_chan_compare() are a strict weak order.
LEMMA BeforeIsOrder ==
  ASSUME NEW a \in Name, NEW b \in Name, NEW c \in Name
  PROVE  /\ ~Before(a, a)
         /\ Before(a, b) => ~Before(b, a)
         /\ Before(a, b) /\ Before(b, c) => Before(a, c)
         /\ ~Before(a, b) /\ ~Before(b, c) => ~Before(a, c)
<1>1. Text(a) \in Seq(Int) /\ Text(b) \in Seq(Int) /\ Text(c) \in Seq(Int)
  BY BeforeIsLess
<1>2. \A n, m \in Name : Before(n, m) <=> Less(Text(n), Text(m))
  BY BeforeIsLess
<1>3. \A x, y, z \in Seq(Int) : /\ Less(x, y) /\ Less(y, z) => Less(x, z)
                                /\ ~Less(x, x)
                                /\ Less(x, y) \/ Less(y, x) \/ x = y
  BY LessTransitive, LessIrreflexive, LessTotal
<1> DEFINE x == Text(a)
           y == Text(b)
           z == Text(c)
<1> HIDE DEF x, y, z
<1>4. x \in Seq(Int) /\ y \in Seq(Int) /\ z \in Seq(Int)
  BY <1>1 DEF x, y, z
<1>5. /\ ~Less(x, x)
      /\ Less(x, y) => ~Less(y, x)
      /\ Less(x, y) /\ Less(y, z) => Less(x, z)
      /\ ~Less(x, y) /\ ~Less(y, z) => ~Less(x, z)
  BY ONLY <1>3, <1>4
<1> QED
  BY <1>2, <1>5 DEF x, y, z

-----------------------------------------------------------------------------
(* The list of a DataServer                                                *)

MetaItem == [key : Nat, name : Name, times : Nat, network : Nat]

LEMMA InsertAtEffect ==
  ASSUME NEW S, NEW s \in Seq(S), NEW e \in S, NEW p \in 0 .. Len(s)
  PROVE  /\ InsertAt(s, p + 1, e) \in Seq(S)
         /\ Len(InsertAt(s, p + 1, e)) = Len(s) + 1
         /\ \A i \in 1 .. (Len(s) + 1) :
              InsertAt(s, p + 1, e)[i] = IF i <= p THEN s[i] ELSE IF i = p + 1 THEN e ELSE s[i - 1]
<1> DEFINE n == Len(s)
           front == SubSeq(s, 1, (p + 1) - 1)
           back == SubSeq(s, p + 1, n)
           mid == front \o <<e>>
<1>1. n \in Nat /\ p \in Nat /\ p <= n /\ \A i \in 1 .. n : s[i] \in S
  OBVIOUS
<1>2. front \in Seq(S) /\ Len(front) = p /\ \A i \in 1 .. p : front[i] = s[i]
  <2>1. 1 \in Int /\ (p + 1) - 1 \in Int /\ \A i \in 1 .. ((p + 1) - 1) : s[i] \in S
    BY <1>1
  <2>2. /\ front \in Seq(S)
        /\ Len(front) = IF 1 <= (p + 1) - 1 THEN (p + 1) - 1 - 1 + 1 ELSE 0
        /\ \A i \in 1 .. ((p + 1) - 1 - 1 + 1) : front[i] = s[1 + i - 1]
    BY ONLY <2>1, SubSeqProperties
  <2> QED
    BY ONLY <1>1, <2>2
<1>3. back \in Seq(S) /\ Len(back) = n - p /\ \A i \in 1 .. (n - p) : back[i] = s[p + i]
  <2>1. p + 1 \in Int /\ n \in Int /\ \A i \in (p + 1) .. n : s[i] \in S
    BY <1>1
  <2>2. /\ back \in Seq(S)
        /\ Len(back) = IF p + 1 <= n THEN n - (p + 1) + 1 ELSE 0
        /\ \A i \in 1 .. (n - (p + 1) + 1) : back[i] = s[(p + 1) + i - 1]
    <3> DEFINE m == p + 1
    <3> HIDE DEF m
    <3>1. m \in Int /\ \A i \in m .. n : s[i] \in S
      BY <2>1 DEF m
    <3>2. /\ SubSeq(s, m, n) \in Seq(S)
          /\ Len(SubSeq(s, m, n)) = IF m <= n THEN n - m + 1 ELSE 0
          /\ \A i \in 1 .. (n - m + 1) : SubSeq(s, m, n)[i] = s[m + i - 1]
      BY ONLY <2>1, <3>1, SubSeqProperties
    <3> QED
      BY <3>2 DEF m
  <2>3. /\ IF p + 1 <= n THEN n - (p + 1) + 1 = n - p ELSE 0 = n - p
        /\ n - (p + 1) + 1 = n - p
        /\ \A i \in 1 .. (n - p) : (p + 1) + i - 1 = p + i
    BY ONLY <1>1
  <2> QED
    BY ONLY <2>2, <2>3
<1> HIDE DEF front, back
<1>4. mid \in Seq(S) /\ Len(mid) = p + 1 /\ \A i \in 1 .. (p + 1) : mid[i] = IF i <= p THEN s[i] ELSE e
  <2>1. <<e>> \in Seq(S) /\ Len(<<e>>) = 1 /\ <<e>>[1] = e
    OBVIOUS
  <2>2. /\ mid \in Seq(S)
        /\ Len(mid) = p + 1
        /\ \A i \in 1 .. (p + 1) : mid[i] = IF i <= p THEN front[i] ELSE <<e>>[i - p]
    BY ONLY <1>2, <2>1, ConcatProperties
  <2>3. \A i \in 1 .. (p + 1) : (i <= p => i \in 1 .. p) /\ (~(i <= p) => i - p = 1)
    BY ONLY <1>1
  <2> QED
    BY ONLY <1>2, <2>1, <2>2, <2>3
<1> HIDE DEF mid
<1>5. /\ mid \o back \in Seq(S)
      /\ Len(mid \o back) = (p + 1) + (n - p)
      /\ \A i \in 1 .. ((p + 1) + (n - p)) : (mid \o back)[i] = IF i <= p + 1 THEN mid[i] ELSE back[i - (p + 1)]
  <2>1. mid \in Seq(S) /\ back \in Seq(S) /\ Len(mid) = p + 1 /\ Len(back) = n - p
    BY ONLY <1>3, <1>4
  <2>2. /\ mid \o back \in Seq(S)
        /\ Len(mid \o back) = Len(mid) + Len(back)
        /\ \A i \in 1 .. (Len(mid) + Len(back)) :
             (mid \o back)[i] = IF i <= Len(mid) THEN mid[i] ELSE back[i - Len(mid)]
    BY ONLY <2>1, ConcatProperties
  <2> QED
    BY ONLY <2>1, <2>2
<1>6. (p + 1) + (n - p) = n + 1
  BY <1>1
<1>7. InsertAt(s, p + 1, e) = mid \o back
  <2>1. \A k : InsertAt(s, k, e) = SubSeq(s, 1, k - 1) \o <<e>> \o SubSeq(s, k, Len(s))
    BY ONLY TRUE DEF InsertAt
  <2>2. InsertAt(s, p + 1, e) = SubSeq(s, 1, (p + 1) - 1) \o <<e>> \o SubSeq(s, p + 1, Len(s))
    BY ONLY <2>1
  <2> QED
    BY <2>2 DEF front, mid, back
<1>8. ASSUME NEW i \in 1 .. (n + 1)
      PROVE  (mid \o back)[i] = IF i <= p THEN s[i] ELSE IF i = p + 1 THEN e ELSE s[i - 1]
  <2>1. CASE i <= p + 1
    <3>1. i \in 1 .. (p + 1) /\ (i <= p \/ i = p + 1)
      BY <1>1, <2>1
    <3> QED
      BY <1>1, <1>4, <1>5, <1>6, <2>1, <3>1
  <2>2. CASE ~(i <= p + 1)
    <3>1. i - (p + 1) \in 1 .. (n - p) /\ p + (i - (p + 1)) = i - 1 /\ ~(i <= p) /\ i # p + 1
      BY <1>1, <2>2
    <3> QED
      BY <1>3, <1>5, <1>6, <2>2, <3>1
  <2> QED
    BY <2>1, <2>2
<1> QED
  BY <1>5, <1>6, <1>7, <1>8

InOrder(list) == \A i, j \in 1 .. Len(list) : i < j => ~Before(list[j].name, list[i].name)

\* nmxp_meta_chan_add() puts the item somewhere, and keeps the order.
LEMMA AddEffect ==
  ASSUME NEW list \in Seq(MetaItem), NEW item \in MetaItem, InOrder(list)
  PROVE  /\ Add(list, item) \in Seq(MetaItem)
         /\ Len(Add(list, item)) = Len(list) + 1
         /\ \E p \in 0 .. Len(list) : \A i \in 1 .. (Len(list) + 1) :
              Add(list, item)[i] = IF i <= p THEN list[i] ELSE IF i = p + 1 THEN item ELSE list[i - 1]
         /\ InOrder(Add(list, item))
<1> DEFINE n == Len(list)
           Passed == {i \in 1 .. n : /\ ~NewHead(item, list[1])
                                     /\ \A j \in 2 .. i : Before(list[j].name, item.name)}
           p == Cardinality(Passed)
           r == Add(list, item)
<1>1. n \in Nat /\ item.name \in Name /\ \A i \in 1 .. n : list[i] \in MetaItem /\ list[i].name \in Name
  <2>1. \A x \in MetaItem : x.name \in Name
    BY DEF MetaItem
  <2>2. n \in Nat /\ \A i \in 1 .. n : list[i] \in MetaItem
    OBVIOUS
  <2> QED
    BY ONLY <2>1, <2>2, item \in MetaItem
<1>2. Passed = 1 .. p /\ p \in 0 .. n
  <2>1. Passed \subseteq 1 .. n
    OBVIOUS
  <2>2. \A i \in Passed : \A j \in 1 .. i : j \in Passed
    <3> SUFFICES ASSUME NEW i \in Passed, NEW j \in 1 .. i PROVE j \in Passed
      OBVIOUS
    <3>1. j \in 1 .. n /\ \A k \in 2 .. j : k \in 2 .. i
      BY <1>1
    <3> QED
      BY <3>1
  <2> HIDE DEF Passed
  <2> QED
    BY ONLY <1>1, <2>1, <2>2, InitialSegment
<1>3. r = InsertAt(list, p + 1, item)
  BY DEF Add
<1> HIDE DEF p
<1>4. NewHead(item, list[1]) => p = 0
  <2> SUFFICES ASSUME NewHead(item, list[1]) PROVE p = 0
    OBVIOUS
  <2>1. 1 .. p = {}
    BY <1>2
  <2> HIDE DEF Passed
  <2> QED
    BY <1>2, <2>1
<1>5. \A i \in 2 .. p : Before(list[i].name, item.name)
  <2> SUFFICES ASSUME NEW i \in 2 .. p PROVE Before(list[i].name, item.name)
    OBVIOUS
  <2>1. i \in 1 .. p /\ i \in 2 .. i
    BY <1>2
  <2>2. i \in Passed
    BY ONLY <1>2, <2>1
  <2> QED
    BY <2>1, <2>2
<1>6. ~NewHead(item, list[1]) /\ n > 0 => p > 0
  <2> SUFFICES ASSUME ~NewHead(item, list[1]), n > 0 PROVE p > 0
    OBVIOUS
  <2>1. 1 \in Passed
    BY <1>1
  <2>2. 1 \in 1 .. p
    BY ONLY <1>2, <2>1
  <2> QED
    BY <1>2, <2>2
<1>7. p > 0 /\ p < n => ~Before(list[p + 1].name, item.name)
  <2> SUFFICES ASSUME p > 0, p < n, Before(list[p + 1].name, item.name) PROVE FALSE
    OBVIOUS
  <2>1. p + 1 \in 1 .. n /\ p + 1 \notin 1 .. p /\ \A j \in 2 .. (p + 1) : j \in 2 .. p \/ j = p + 1
    BY <1>1, <1>2
  <2>2. ~NewHead(item, list[1])
    BY <1>2, <1>4
  <2>3. \A j \in 2 .. (p + 1) : Before(list[j].name, item.name)
    BY <1>5, <2>1
  <2>4. p + 1 \in Passed
    BY ONLY <2>1, <2>2, <2>3
  <2> QED
    BY ONLY <1>2, <2>1, <2>4
<1> HIDE DEF Passed, r
<1>8. /\ r \in Seq(MetaItem)
      /\ Len(r) = n + 1
      /\ \A i \in 1 .. (n + 1) : r[i] = IF i <= p THEN list[i] ELSE IF i = p + 1 THEN item ELSE list[i - 1]
  <2>1. p \in 0 .. Len(list)
    BY <1>2
  <2> DEFINE S == MetaItem
  <2> HIDE DEF S
  <2>2. list \in Seq(S) /\ item \in S
    BY DEF S
  <2>3. /\ InsertAt(list, p + 1, item) \in Seq(S)
        /\ Len(InsertAt(list, p + 1, item)) = Len(list) + 1
        /\ \A i \in 1 .. (Len(list) + 1) :
             InsertAt(list, p + 1, item)[i] = IF i <= p THEN list[i] ELSE IF i = p + 1 THEN item ELSE list[i - 1]
    BY ONLY <2>1, <2>2, InsertAtEffect
  <2> QED
    BY ONLY <1>3, <2>3 DEF S
\* None of the items before is greater, none of those behind is smaller.
<1>9. \A i \in 1 .. p : ~Before(item.name, list[i].name)
  <2> SUFFICES ASSUME NEW i \in 1 .. p PROVE ~Before(item.name, list[i].name)
    OBVIOUS
  <2>1. CASE i = 1
    BY <1>2, <1>4, <2>1 DEF NewHead
  <2>2. CASE i # 1
    <3>1. i \in 2 .. p /\ i \in 1 .. n
      BY <1>1, <1>2, <2>2
    <3> QED
      BY <1>1, <1>5, <3>1, BeforeIsOrder
  <2> QED
    BY <2>1, <2>2
<1>10. \A i \in 1 .. n : i > p => ~Before(list[i].name, item.name)
  <2> SUFFICES ASSUME NEW i \in 1 .. n, i > p PROVE ~Before(list[i].name, item.name)
    OBVIOUS
  <2>1. CASE p = 0
    <3>1. Before(item.name, list[1].name)
      BY <1>1, <1>6, <2>1 DEF NewHead
    <3>2. i = 1 \/ ~Before(list[i].name, list[1].name)
      <4>1. 1 \in 1 .. Len(list) /\ i \in 1 .. Len(list) /\ (i = 1 \/ 1 < i)
        BY <1>1
      <4> QED
        BY <4>1 DEF InOrder
    <3>3. list[i].name \in Name /\ list[1].name \in Name /\ item.name \in Name
      BY <1>1
    <3> QED
      BY <3>1, <3>2, <3>3, BeforeIsOrder
  <2>2. CASE p > 0
    <3>1. p < n /\ p + 1 \in 1 .. n /\ (i = p + 1 \/ p + 1 < i)
      BY <1>1, <1>2, <2>2
    <3>2. ~Before(list[p + 1].name, item.name)
      BY <1>7, <2>2, <3>1
    <3>3. i = p + 1 \/ ~Before(list[i].name, list[p + 1].name)
      BY <3>1 DEF InOrder
    <3>4. list[i].name \in Name /\ list[p + 1].name \in Name /\ item.name \in Name
      BY <1>1, <3>1
    <3> QED
      BY <3>2, <3>3, <3>4, BeforeIsOrder
  <2> QED
    BY <1>2, <2>1, <2>2
<1>11. InOrder(r)
  <2> SUFFICES ASSUME NEW i \in 1 .. (n + 1), NEW j \in 1 .. (n + 1), i < j
               PROVE  ~Before(r[j].name, r[i].name)
    BY <1>8 DEF InOrder
  <2>1. CASE j <= p
    <3>1. r[i] = list[i] /\ r[j] = list[j] /\ i \in 1 .. n /\ j \in 1 .. n
      BY <1>1, <1>2, <1>8, <2>1
    <3> QED
      BY <3>1 DEF InOrder
  <2>2. CASE j = p + 1
    <3>1. r[i] = list[i] /\ r[j] = item /\ i \in 1 .. p
      BY <1>1, <1>2, <1>8, <2>2
    <3> QED
      BY <1>9, <3>1
  <2>3. CASE j > p + 1
    <3>1. r[j] = list[j - 1] /\ j - 1 \in 1 .. n /\ j - 1 > p
      BY <1>1, <1>2, <1>8, <2>3
    <3>2. CASE i <= p
      <4>1. r[i] = list[i] /\ i \in 1 .. n /\ i < j - 1
        BY <1>1, <1>2, <1>8, <2>3, <3>2
      <4> QED
        BY <3>1, <4>1 DEF InOrder
    <3>3. CASE i = p + 1
      <4>1. r[i] = item
        BY <1>2, <1>8, <3>3
      <4> QED
        BY <1>10, <3>1, <4>1
    <3>4. CASE i > p + 1
      <4>1. r[i] = list[i - 1] /\ i - 1 \in 1 .. n /\ i - 1 < j - 1
        BY <1>1, <1>2, <1>8, <3>4
      <4> QED
        BY <3>1, <4>1 DEF InOrder
    <3> QED
      BY <1>2, <3>2, <3>3, <3>4
  <2> QED
    BY <1>2, <2>1, <2>2, <2>3
<1> QED
  BY <1>2, <1>8, <1>11 DEF r

-----------------------------------------------------------------------------
(* Types                                                                   *)

Selections == {Named(c, parts) : c \in ServerChannel, parts \in Seq(Code)}

ServerIs ==
  /\ server \in Seq(ServerChannel)
  /\ \A i, j \in 1 .. Len(server) : server[i].key = server[j].key => i = j
  /\ patterns \in Seq(Seq(Code))

ChanTypes ==
  /\ ServerIs
  /\ mode \in {"pds", "dap", "naqslist", "list"}
  /\ pc \in {"start", "precis", "info", "subset", "print", "receive", "handled", "exit"}
  /\ pc \in {"precis", "info"} => mode \in {"dap", "list"}
  /\ idx \in Nat \ {0} /\ pat \in Nat \ {0}
  /\ channels \in Seq(ServerChannel)
  /\ meta \in Seq(MetaItem)
  /\ subset \in Seq(Selections)
  /\ printed \in Seq(Nat)

\* What the steps of Packets do to Channels.
Handling ==
  /\ UNCHANGED <<mode, server, patterns, idx, lists, matching, printed>>
  /\ \/ UNCHANGED pc
     \/ pc \in {"receive", "handled"} /\ pc' \in {"receive", "handled", "exit"}

LEMMA HandlingOrChannels ==
  ASSUME [Next]_vars
  PROVE  ChanNext \/ Handling
<1>1. CASE ChanNext /\ UNCHANGED <<window, req, sent, pd>>
  BY <1>1
<1>2. CASE Receive
  BY <1>2 DEF Receive, Handling
<1>3. CASE ReceiveDecompressed
  BY <1>3 DEF ReceiveDecompressed, Handling
<1>4. CASE ReceiveFiller
  BY <1>4 DEF ReceiveFiller, Handling
<1>5. CASE Release
  BY <1>5 DEF Release, Handling
<1>6. CASE UNCHANGED vars
  BY <1>6 DEF vars, chanVars, Handling
<1> QED
  BY <1>1, <1>2, <1>3, <1>4, <1>5, <1>6 DEF Next

LEMMA SetEffect ==
  ASSUME meta \in Seq(MetaItem), NEW key \in Nat,
         \A m, n \in 1 .. Len(meta) : meta[m].key = meta[n].key => m = n
  PROVE  /\ SetTimes(meta, key, key) \in Seq(MetaItem)
         /\ Len(SetTimes(meta, key, key)) = Len(meta)
         /\ \A m \in 1 .. Len(meta) :
              SetTimes(meta, key, key)[m] =
                IF meta[m].key = key THEN [meta[m] EXCEPT !.times = key] ELSE meta[m]
         /\ SetNetwork(meta, key, key) \in Seq(MetaItem)
         /\ Len(SetNetwork(meta, key, key)) = Len(meta)
         /\ \A m \in 1 .. Len(meta) :
              SetNetwork(meta, key, key)[m] =
                IF meta[m].key = key THEN [meta[m] EXCEPT !.network = key] ELSE meta[m]
<1>1. Len(meta) \in Nat /\ DOMAIN meta = 1 .. Len(meta) /\ \A m \in 1 .. Len(meta) : meta[m] \in MetaItem
  OBVIOUS
<1>2. \A m \in 1 .. Len(meta) : m \in SearchKey(meta, key) <=> meta[m].key = key
  <2> SUFFICES ASSUME NEW m \in 1 .. Len(meta), meta[m].key = key
               PROVE  \A j \in 1 .. (m - 1) : meta[j].key # key
    BY <1>1 DEF SearchKey
  <2>1. \A j \in 1 .. (m - 1) : j \in 1 .. Len(meta) /\ j # m
    BY <1>1
  <2> QED
    BY <2>1
<1>3. \A m \in 1 .. Len(meta) : /\ [meta[m] EXCEPT !.times = key] \in MetaItem
                                /\ [meta[m] EXCEPT !.network = key] \in MetaItem
  BY <1>1 DEF MetaItem
<1> DEFINE S == MetaItem
           f == SetTimes(meta, key, key)
           g == SetNetwork(meta, key, key)
<1>4. /\ f = [m \in 1 .. Len(meta) |-> IF meta[m].key = key THEN [meta[m] EXCEPT !.times = key] ELSE meta[m]]
      /\ g = [m \in 1 .. Len(meta) |-> IF meta[m].key = key THEN [meta[m] EXCEPT !.network = key] ELSE meta[m]]
  BY ONLY <1>1, <1>2 DEF SetTimes, SetNetwork
<1>5. \A m \in 1 .. Len(meta) : meta[m] \in S /\ [meta[m] EXCEPT !.times = key] \in S /\ [meta[m] EXCEPT !.network = key] \in S
  BY ONLY <1>1, <1>3
<1> HIDE DEF S, f, g
<1>6. f \in [1 .. Len(meta) -> S] /\ g \in [1 .. Len(meta) -> S]
  BY ONLY <1>4, <1>5
<1>7. f \in Seq(S) /\ Len(f) = Len(meta) /\ g \in Seq(S) /\ Len(g) = Len(meta)
  BY ONLY <1>1, <1>6
<1> QED
  BY ONLY <1>4, <1>7 DEF f, g, S

LEMMA SortEffect ==
  ASSUME NEW S, NEW list \in Seq(S), NEW q \in SortByName(list)
  PROVE  /\ q \in Seq(S)
         /\ Len(q) = Len(list)
         /\ \A i \in 1 .. Len(list) : \E j \in 1 .. Len(list) : q[i] = list[j]
         /\ \A j \in 1 .. Len(list) : \E i \in 1 .. Len(list) : q[i] = list[j]
<1>1. PICK p \in Bijection(DOMAIN list, DOMAIN list) : q = [i \in DOMAIN list |-> list[p[i]]]
  BY DEF SortByName
<1>2. DOMAIN list = 1 .. Len(list) /\ Len(list) \in Nat
  OBVIOUS
<1>3. /\ p \in [1 .. Len(list) -> 1 .. Len(list)]
      /\ \A j \in 1 .. Len(list) : \E i \in 1 .. Len(list) : p[i] = j
  BY <1>1, <1>2 DEF Bijection, Injection, Surjection
<1>4. q \in [1 .. Len(list) -> S] /\ \A i \in 1 .. Len(list) : q[i] = list[p[i]]
  BY <1>1, <1>2, <1>3
<1>5. q \in Seq(S) /\ Len(q) = Len(list)
  BY <1>2, <1>4
<1>6. \A i \in 1 .. Len(list) : p[i] \in 1 .. Len(list)
  BY <1>3
<1>7. ASSUME NEW j \in 1 .. Len(list) PROVE \E i \in 1 .. Len(list) : q[i] = list[j]
  <2>1. PICK i \in 1 .. Len(list) : p[i] = j
    BY <1>3
  <2>2. q[i] = list[j]
    BY ONLY <1>4, <2>1
  <2> QED
    BY ONLY <2>2
<1> QED
  BY ONLY <1>4, <1>5, <1>6, <1>7

LEMMA ChanTypesInit == Init => ChanTypes
<1>1. ASSUME NEW list \in ServerLists
      PROVE  list \in Seq(ServerChannel) /\ \A i, j \in 1 .. Len(list) : list[i].key = list[j].key => i = j
  BY ServersAssumption
<1> QED
  BY <1>1, PatternsAssumption DEF Init, ChanInit, ChanTypes, ServerIs

\* What an item of the list is made of.
From(m, k) == meta[m].key = server[k].key /\ meta[m].name = server[k].name
\* The channels of the server that have been read.
Read(k) == pc # "start" \/ k < idx

FieldsOK(item) ==
  /\ item.times \in {0, item.key}
  /\ item.network \in {0, item.key}
  /\ item.network # 0 => FirstOfInstrument(item.key)

MetaOK ==
  mode \in {"dap", "list"} =>
    /\ \A k \in 1 .. Len(server) :
         Read(k) /\ IsSeries(server[k]) => \E m \in 1 .. Len(meta) : From(m, k)
    /\ \A m \in 1 .. Len(meta) : \E k \in 1 .. Len(server) : Read(k) /\ IsSeries(server[k]) /\ From(m, k)
    /\ \A m, n \in 1 .. Len(meta) : meta[m].key = meta[n].key => m = n
    /\ InOrder(meta)
    /\ \A m \in 1 .. Len(meta) : FieldsOK(meta[m])
    /\ pc = "precis" => \A m \in 1 .. Len(meta), k \in 1 .. Len(server) :
                          k < idx /\ IsSeries(server[k]) /\ From(m, k) => meta[m].times = meta[m].key
    /\ pc \notin {"start", "precis"} => \A m \in 1 .. Len(meta) : meta[m].times = meta[m].key

LEMMA ServerItem ==
  ASSUME ChanTypes, NEW k \in 1 .. Len(server)
  PROVE  /\ server[k] \in ServerChannel
         /\ server[k].key \in Nat /\ server[k].name \in Name
         /\ Item(server[k]) \in MetaItem
<1>1. server[k] \in ServerChannel
  BY DEF ChanTypes, ServerIs
<1>2. server[k].key \in Nat /\ server[k].name \in Name
  BY <1>1 DEF ServerChannel
<1> QED
  BY <1>1, <1>2 DEF Item, MetaItem

LEMMA ElementTypes ==
  ASSUME ChanTypes
  PROVE  /\ \A m \in 1 .. Len(meta) : meta[m] \in MetaItem /\ meta[m].key \in Nat /\ meta[m].name \in Name
         /\ \A m \in 1 .. Len(channels) :
              channels[m] \in ServerChannel /\ channels[m].key \in Nat /\ channels[m].name \in Name
<1>1. \A x \in MetaItem : x.key \in Nat /\ x.name \in Name
  BY DEF MetaItem
<1>2. \A x \in ServerChannel : x.key \in Nat /\ x.name \in Name
  BY DEF ServerChannel
<1>3. /\ \A m \in 1 .. Len(meta) : meta[m] \in MetaItem
      /\ \A m \in 1 .. Len(channels) : channels[m] \in ServerChannel
  BY DEF ChanTypes
<1> QED
  BY ONLY <1>1, <1>2, <1>3

LEMMA ChanTypesNext == ChanTypes /\ MetaOK /\ [Next]_vars => ChanTypes'
<1> SUFFICES ASSUME ChanTypes, MetaOK, [Next]_vars PROVE ChanTypes'
  OBVIOUS
<1>1. CASE GetType
  <2>1. ServerIs'
    BY <1>1 DEF GetType, ChanTypes, ServerIs
  <2>2. server[idx] \in ServerChannel
    BY <1>1, ServerItem DEF GetType, ChanTypes
  <2>3. channels' \in Seq(ServerChannel)
    BY <1>1, <2>2 DEF GetType, ChanTypes
  <2> QED
    BY <1>1, <2>1, <2>3 DEF GetType, ChanTypes, lists, matching
<1>2. CASE FromNaqs
  <2>1. ServerIs'
    BY <1>2 DEF FromNaqs, ChanTypes, ServerIs
  <2>2. channels' \in Seq(ServerChannel)
    BY <1>2, SortEffect DEF FromNaqs, ChanTypes
  <2> QED
    BY <1>2, <2>1, <2>2 DEF FromNaqs, ChanTypes, matching
<1>3. CASE AddItem
  <2>1. ServerIs'
    BY <1>3 DEF AddItem, ChanTypes, ServerIs
  <2>2. Item(server[idx]) \in MetaItem
    BY <1>3, ServerItem DEF AddItem, ChanTypes
  <2>3. InOrder(meta)
    BY <1>3 DEF AddItem, MetaOK
  <2>4. meta \in Seq(MetaItem)
    BY DEF ChanTypes
  <2>5. Add(meta, Item(server[idx])) \in Seq(MetaItem)
    BY ONLY <2>2, <2>3, <2>4, AddEffect
  <2> QED
    BY <1>3, <2>1, <2>5 DEF AddItem, ChanTypes, matching
<1>4. CASE FromDataServer
  BY <1>4 DEF FromDataServer, ChanTypes, ServerIs, matching
<1>5. CASE Precis
  <2>1. ServerIs'
    BY <1>5 DEF Precis, ChanTypes, ServerIs
  <2>2. server[idx].key \in Nat
    BY <1>5, ServerItem DEF Precis, ChanTypes
  <2>3. \A m, n \in 1 .. Len(meta) : meta[m].key = meta[n].key => m = n
    BY <1>5 DEF Precis, MetaOK, ChanTypes
  <2>4. meta \in Seq(MetaItem)
    BY DEF ChanTypes
  <2>5. SetTimes(meta, server[idx].key, server[idx].key) \in Seq(MetaItem)
    BY ONLY <2>2, <2>3, <2>4, SetEffect
  <2> QED
    BY <1>5, <2>1, <2>5 DEF Precis, ChanTypes, matching
<1>6. CASE PrecisEnd
  BY <1>6 DEF PrecisEnd, ChanTypes, ServerIs, lists, matching
<1>7. CASE Info
  <2>1. ServerIs'
    BY <1>7 DEF Info, ChanTypes, ServerIs
  <2>2. meta[idx].key \in Nat
    BY <1>7, ElementTypes DEF Info, ChanTypes
  <2>3. \A m, n \in 1 .. Len(meta) : meta[m].key = meta[n].key => m = n
    BY <1>7 DEF Info, MetaOK, ChanTypes
  <2>4. meta \in Seq(MetaItem)
    BY DEF ChanTypes
  <2>5. SetNetwork(meta, meta[idx].key, meta[idx].key) \in Seq(MetaItem)
    BY ONLY <2>2, <2>3, <2>4, SetEffect
  <2> QED
    BY <1>7, <2>1, <2>5 DEF Info, ChanTypes, matching
<1>8. CASE InfoEnd
  BY <1>8 DEF InfoEnd, ChanTypes, ServerIs, lists, matching
<1>9. CASE MatchOne
  <2>1. ServerIs'
    BY <1>9 DEF MatchOne, ChanTypes, ServerIs
  <2>2. channels[idx] \in ServerChannel /\ patterns[pat] \in Seq(Code)
    BY <1>9 DEF MatchOne, ChanTypes, ServerIs, Used
  <2>3. Named(channels[idx], patterns[pat]) \in Selections
    BY <2>2 DEF Selections
  <2>4. subset' \in Seq(Selections)
    BY <1>9, <2>3 DEF MatchOne, ChanTypes
  <2> QED
    BY <1>9, <2>1, <2>4 DEF MatchOne, ChanTypes, lists
<1>10. CASE NextPattern
  BY <1>10 DEF NextPattern, ChanTypes, ServerIs, lists
<1>11. CASE Selected
  BY <1>11 DEF Selected, ChanTypes, ServerIs, lists, matching
<1>12. CASE PrintOne
  <2>1. ServerIs'
    BY <1>12 DEF PrintOne, ChanTypes, ServerIs
  <2>2. ListToPrint[idx].key \in Nat
    <3>1. idx \in 1 .. Len(ListToPrint)
      BY <1>12 DEF PrintOne, ChanTypes, ListToPrint
    <3> QED
      BY <3>1, ElementTypes DEF ListToPrint
  <2>3. printed' \in Seq(Nat)
    BY <1>12, <2>2 DEF PrintOne, ChanTypes
  <2> QED
    BY <1>12, <2>1, <2>3 DEF PrintOne, ChanTypes, lists, matching
<1>13. CASE PrintEnd
  BY <1>13 DEF PrintEnd, ChanTypes, ServerIs, lists, matching
<1>14. CASE Handling
  BY <1>14 DEF Handling, ChanTypes, ServerIs, lists, matching
<1> QED
  BY <1>1, <1>2, <1>3, <1>4, <1>5, <1>6, <1>7, <1>8, <1>9, <1>10, <1>11, <1>12, <1>13, <1>14,
     HandlingOrChannels DEF ChanNext

LEMMA MetaInit == Init => MetaOK
BY DEF Init, ChanInit, MetaOK, Read, InOrder

\* A series that is read is added, with its name, once.
LEMMA AddItemMeta ==
  ASSUME ChanTypes, MetaOK, AddItem
  PROVE  MetaOK'
<1> DEFINE n == Len(meta)
           item == Item(server[idx])
<1>1. /\ pc = "start" /\ pc' = "start" /\ mode \in {"dap", "list"} /\ mode' = mode
      /\ idx \in 1 .. Len(server) /\ idx' = idx + 1 /\ server' = server
      /\ meta' = IF IsSeries(server[idx]) THEN Add(meta, item) ELSE meta
  BY DEF AddItem, ChanTypes
<1>2. /\ Len(server) \in Nat /\ n \in Nat
      /\ \A i, j \in 1 .. Len(server) : server[i].key = server[j].key => i = j
  BY DEF ChanTypes, ServerIs
<1>3. \A k \in 1 .. Len(server) : Read(k)' <=> k <= idx
  BY <1>1, <1>2 DEF Read
<1>4. /\ \A k \in 1 .. Len(server) :
           k < idx /\ IsSeries(server[k]) => \E m \in 1 .. n : From(m, k)
      /\ \A m \in 1 .. n : \E k \in 1 .. Len(server) : k < idx /\ IsSeries(server[k]) /\ From(m, k)
      /\ \A m, l \in 1 .. n : meta[m].key = meta[l].key => m = l
      /\ InOrder(meta)
      /\ \A m \in 1 .. n : FieldsOK(meta[m])
  BY <1>1 DEF MetaOK, Read
<1>5. CASE ~IsSeries(server[idx])
  <2>1. meta' = meta
    BY <1>1, <1>5
  <2>2. \A k \in 1 .. Len(server) : (k <= idx /\ IsSeries(server[k])) <=> (k < idx /\ IsSeries(server[k]))
    BY <1>1, <1>5
  <2>3. \A m, k : From(m, k)' <=> From(m, k)
    BY <1>1, <2>1 DEF From
  <2>4. InOrder(meta')
    BY <1>4, <2>1
  <2>5. /\ \A k \in 1 .. Len(server) : Read(k)' /\ IsSeries(server[k]) => \E m \in 1 .. n : From(m, k)'
        /\ \A m \in 1 .. n : \E k \in 1 .. Len(server) : Read(k)' /\ IsSeries(server[k]) /\ From(m, k)'
    BY ONLY <1>3, <1>4, <2>2, <2>3
  <2> QED
    BY <1>1, <1>4, <2>1, <2>4, <2>5 DEF MetaOK
<1>6. CASE IsSeries(server[idx])
  <2> DEFINE r == Add(meta, item)
  <2>1. meta \in Seq(MetaItem) /\ item \in MetaItem
    BY <1>1, ServerItem DEF ChanTypes
  <2>2. r \in Seq(MetaItem) /\ Len(r) = n + 1 /\ InOrder(r)
    BY ONLY <1>4, <2>1, AddEffect
  <2>3. PICK p \in 0 .. n : \A i \in 1 .. (n + 1) :
                              r[i] = IF i <= p THEN meta[i] ELSE IF i = p + 1 THEN item ELSE meta[i - 1]
    BY ONLY <1>4, <2>1, AddEffect
  <2> HIDE DEF r, item
  <2>4. meta' = r
    BY <1>1, <1>6 DEF r
  <2>5. item.key = server[idx].key /\ item.name = server[idx].name /\ FieldsOK(item)
    BY DEF item, Item, FieldsOK
  <2>6. ASSUME NEW m \in 1 .. (n + 1)
        PROVE  \/ r[m] = item /\ m = p + 1
               \/ \E l \in 1 .. n : r[m] = meta[l] /\ m = IF l <= p THEN l ELSE l + 1
    <3>1. CASE m <= p
      BY <1>2, <2>3, <3>1
    <3>2. CASE m = p + 1
      BY <1>2, <2>3, <3>2
    <3>3. CASE m > p + 1
      <4>1. m - 1 \in 1 .. n /\ ~(m - 1 <= p) /\ (m - 1) + 1 = m
        BY <1>2, <3>3
      <4>2. r[m] = meta[m - 1]
        BY <1>2, <2>3, <3>3
      <4> QED
        BY <4>1, <4>2
    <3> QED
      BY <1>2, <3>1, <3>2, <3>3
  <2>7. \A l \in 1 .. n : \E m \in 1 .. (n + 1) : r[m] = meta[l]
    <3> SUFFICES ASSUME NEW l \in 1 .. n PROVE \E m \in 1 .. (n + 1) : r[m] = meta[l]
      OBVIOUS
    <3>1. CASE l <= p
      BY <1>2, <2>3, <3>1
    <3>2. CASE ~(l <= p)
      <4>1. l + 1 \in 1 .. (n + 1) /\ ~(l + 1 <= p) /\ l + 1 # p + 1 /\ (l + 1) - 1 = l
        BY <1>2, <3>2
      <4>2. r[l + 1] = meta[l]
        BY <2>3, <4>1
      <4> QED
        BY <4>1, <4>2
    <3> QED
      BY <3>1, <3>2
  <2>8. p + 1 \in 1 .. (n + 1) /\ r[p + 1] = item
    BY <1>2, <2>3
  \* The key is a new one.
  <2>9. \A l \in 1 .. n : meta[l].key # item.key
    <3> SUFFICES ASSUME NEW l \in 1 .. n, meta[l].key = item.key PROVE FALSE
      OBVIOUS
    <3>1. PICK k \in 1 .. Len(server) : k < idx /\ From(l, k)
      BY <1>4
    <3> QED
      BY <1>1, <1>2, <2>5, <3>1 DEF From
  <2>10. ASSUME NEW k \in 1 .. Len(server), Read(k)', IsSeries(server[k])
         PROVE  \E m \in 1 .. (n + 1) : From(m, k)'
    <3>1. CASE k = idx
      BY <1>1, <2>4, <2>5, <2>8, <3>1 DEF From
    <3>2. CASE k # idx
      <4>1. k < idx
        BY <1>1, <1>3, <2>10, <3>2
      <4>2. PICK l \in 1 .. n : From(l, k)
        BY <1>4, <2>10, <4>1
      <4>3. PICK m \in 1 .. (n + 1) : r[m] = meta[l]
        BY <2>7
      <4> QED
        BY <1>1, <2>4, <4>2, <4>3 DEF From
    <3> QED
      BY <3>1, <3>2
  <2>11. ASSUME NEW m \in 1 .. (n + 1)
         PROVE  \E k \in 1 .. Len(server) : Read(k)' /\ IsSeries(server[k]) /\ From(m, k)'
    <3>1. CASE r[m] = item
      <4>1. PICK k \in 1 .. Len(server) : k = idx
        BY <1>1
      <4>2. Read(k)' /\ IsSeries(server[k]) /\ From(m, k)'
        BY <1>1, <1>3, <1>6, <2>4, <2>5, <3>1, <4>1 DEF From
      <4> QED
        BY <4>2
    <3>2. CASE \E l \in 1 .. n : r[m] = meta[l]
      <4>1. PICK l \in 1 .. n : r[m] = meta[l]
        BY <3>2
      <4>2. PICK k \in 1 .. Len(server) : k < idx /\ IsSeries(server[k]) /\ From(l, k)
        BY <1>4
      <4>3. Read(k)' /\ From(m, k)'
        BY <1>1, <1>3, <2>4, <4>1, <4>2 DEF From
      <4> QED
        BY <4>2, <4>3
    <3> QED
      BY <2>6, <3>1, <3>2
  <2>12. ASSUME NEW m \in 1 .. (n + 1), NEW l \in 1 .. (n + 1), r[m].key = r[l].key
         PROVE  m = l
    <3>1. CASE m = p + 1 /\ r[m] = item
      BY <2>6, <2>9, <2>12, <3>1
    <3>2. CASE l = p + 1 /\ r[l] = item
      BY <2>6, <2>9, <2>12, <3>2
    <3>3. CASE /\ \E a \in 1 .. n : r[m] = meta[a] /\ m = IF a <= p THEN a ELSE a + 1
               /\ \E a \in 1 .. n : r[l] = meta[a] /\ l = IF a <= p THEN a ELSE a + 1
      <4>1. PICK a \in 1 .. n : r[m] = meta[a] /\ m = IF a <= p THEN a ELSE a + 1
        BY <3>3
      <4>2. PICK b \in 1 .. n : r[l] = meta[b] /\ l = IF b <= p THEN b ELSE b + 1
        BY <3>3
      <4>3. a = b
        BY <1>4, <2>12, <4>1, <4>2
      <4> QED
        BY <4>1, <4>2, <4>3
    <3> QED
      BY <2>6, <3>1, <3>2, <3>3
  <2>13. \A m \in 1 .. (n + 1) : FieldsOK(r[m])
    BY <1>4, <2>5, <2>6
  <2>14. Len(meta') = n + 1 /\ InOrder(meta')
    BY <2>2, <2>4
  <2> QED
    BY <1>1, <2>4, <2>10, <2>11, <2>12, <2>13, <2>14 DEF MetaOK
<1> QED
  BY <1>5, <1>6

\* The rest of MetaOK, for a server that has been read.
LEMMA MetaRead ==
  ASSUME pc # "start"
  PROVE  MetaOK <=>
           (mode \in {"dap", "list"} =>
              /\ \A k \in 1 .. Len(server) : IsSeries(server[k]) => \E m \in 1 .. Len(meta) : From(m, k)
              /\ \A m \in 1 .. Len(meta) : \E k \in 1 .. Len(server) : IsSeries(server[k]) /\ From(m, k)
              /\ \A m, n \in 1 .. Len(meta) : meta[m].key = meta[n].key => m = n
              /\ InOrder(meta)
              /\ \A m \in 1 .. Len(meta) : FieldsOK(meta[m])
              /\ pc = "precis" => \A m \in 1 .. Len(meta), k \in 1 .. Len(server) :
                                    k < idx /\ IsSeries(server[k]) /\ From(m, k) => meta[m].times = meta[m].key
              /\ pc # "precis" => \A m \in 1 .. Len(meta) : meta[m].times = meta[m].key)
BY DEF MetaOK, Read

\* A step that leaves the list as it is.
LEMMA MetaSame ==
  ASSUME MetaOK, UNCHANGED <<mode, server, meta>>,
         pc \notin {"start", "precis"}, pc' \notin {"start", "precis"}
  PROVE  MetaOK'
BY DEF MetaOK, Read, From

LEMMA FromDataServerMeta ==
  ASSUME ChanTypes, MetaOK, FromDataServer
  PROVE  MetaOK'
<1>1. /\ pc = "start" /\ mode \in {"dap", "list"} /\ mode' = mode
      /\ pc' = "precis" /\ idx' = 1 /\ meta' = meta /\ server' = server
      /\ idx > Len(server) /\ idx \in Nat /\ Len(server) \in Nat
  BY DEF FromDataServer, ChanTypes, ServerIs
<1>2. \A k \in 1 .. Len(server) : Read(k) /\ Read(k)' /\ ~(k < idx')
  BY <1>1 DEF Read
<1>3. \A m, k : From(m, k)' <=> From(m, k)
  BY <1>1 DEF From
<1> QED
  BY <1>1, <1>2, <1>3 DEF MetaOK

LEMMA PrecisMeta ==
  ASSUME ChanTypes, MetaOK, Precis
  PROVE  MetaOK'
<1> DEFINE n == Len(meta)
           key == server[idx].key
<1>1. /\ pc = "precis" /\ pc' = "precis" /\ mode \in {"dap", "list"} /\ mode' = mode
      /\ idx \in 1 .. Len(server) /\ idx' = idx + 1 /\ server' = server
      /\ meta' = IF IsSeries(server[idx]) THEN SetTimes(meta, key, key) ELSE meta
  BY DEF Precis, ChanTypes
<1>2. /\ Len(server) \in Nat /\ n \in Nat /\ key \in Nat
      /\ \A i, j \in 1 .. Len(server) : server[i].key = server[j].key => i = j
  BY <1>1, ServerItem DEF ChanTypes, ServerIs
<1>3. /\ \A k \in 1 .. Len(server) : IsSeries(server[k]) => \E m \in 1 .. n : From(m, k)
      /\ \A m \in 1 .. n : \E k \in 1 .. Len(server) : IsSeries(server[k]) /\ From(m, k)
      /\ \A m, l \in 1 .. n : meta[m].key = meta[l].key => m = l
      /\ InOrder(meta)
      /\ \A m \in 1 .. n : FieldsOK(meta[m])
      /\ \A m \in 1 .. n, k \in 1 .. Len(server) :
           k < idx /\ IsSeries(server[k]) /\ From(m, k) => meta[m].times = meta[m].key
  BY <1>1, MetaRead
<1>4. CASE ~IsSeries(server[idx])
  <2>1. meta' = meta
    BY <1>1, <1>4
  <2>2. \A m, k : From(m, k)' <=> From(m, k)
    BY <1>1, <2>1 DEF From
  <2>3. \A k \in 1 .. Len(server) : k < idx' /\ IsSeries(server[k]) => k < idx
    BY <1>1, <1>2, <1>4
  <2>4. \A m \in 1 .. n, k \in 1 .. Len(server) :
           k < idx' /\ IsSeries(server[k]) /\ From(m, k)' => meta[m].times = meta[m].key
    BY ONLY <1>3, <2>2, <2>3
  <2>5. InOrder(meta')
    BY <1>3, <2>1
  <2>6. \A k : Read(k)'
    BY <1>1 DEF Read
  <2> QED
    BY <1>1, <1>3, <2>1, <2>2, <2>4, <2>5, <2>6 DEF MetaOK
<1>5. CASE IsSeries(server[idx])
  <2> DEFINE r == SetTimes(meta, key, key)
  <2>1. meta \in Seq(MetaItem)
    BY DEF ChanTypes
  <2>2. /\ Len(r) = n
        /\ \A m \in 1 .. n : r[m] = IF meta[m].key = key THEN [meta[m] EXCEPT !.times = key] ELSE meta[m]
    BY ONLY <1>2, <1>3, <2>1, SetEffect
  <2>3. \A m \in 1 .. n : meta[m] \in MetaItem
    BY <2>1
  <2> HIDE DEF r, key
  <2>4. meta' = r
    BY <1>1, <1>5 DEF r, key
  <2>5. \A m \in 1 .. n : /\ r[m].key = meta[m].key /\ r[m].name = meta[m].name
                          /\ r[m].network = meta[m].network
                          /\ r[m].times = IF meta[m].key = key THEN key ELSE meta[m].times
    BY ONLY <2>2, <2>3 DEF MetaItem
  <2>6. \A m \in 1 .. n, k \in 1 .. Len(server) : From(m, k)' <=> From(m, k)
    BY <1>1, <2>4, <2>5 DEF From
  <2>7. InOrder(meta')
    <3>1. InOrder(meta) /\ n = Len(meta)
      BY <1>3
    <3> QED
      BY ONLY <2>2, <2>4, <2>5, <3>1 DEF InOrder
  <2>8. \A m \in 1 .. n : FieldsOK(r[m])
    BY <1>3, <2>5 DEF FieldsOK
  <2>9. ASSUME NEW m \in 1 .. n, NEW k \in 1 .. Len(server), k < idx', IsSeries(server[k]), From(m, k)
        PROVE  r[m].times = r[m].key
    <3>1. CASE k = idx
      BY <2>5, <2>9, <3>1 DEF From, key
    <3>2. CASE k # idx
      <4>1. k < idx
        BY <1>1, <1>2, <2>9, <3>2
      <4>2. meta[m].times = meta[m].key
        BY <1>3, <2>9, <4>1
      <4> QED
        BY <2>5, <4>2
    <3> QED
      BY <3>1, <3>2
  <2>10. \A k : Read(k)'
    BY <1>1 DEF Read
  <2>11. /\ \A k \in 1 .. Len(server) : IsSeries(server[k]) => \E m \in 1 .. n : From(m, k)'
         /\ \A m \in 1 .. n : \E k \in 1 .. Len(server) : IsSeries(server[k]) /\ From(m, k)'
    BY ONLY <1>3, <2>6
  <2>12. \A m, l \in 1 .. n : r[m].key = r[l].key => m = l
    BY ONLY <1>3, <2>5
  <2>13. \A m \in 1 .. n, k \in 1 .. Len(server) :
           k < idx' /\ IsSeries(server[k]) /\ From(m, k)' => r[m].times = r[m].key
    BY ONLY <2>6, <2>9
  <2>14. Len(meta') = n
    BY <2>2, <2>4
  <2> QED
    BY <1>1, <2>4, <2>7, <2>8, <2>10, <2>11, <2>12, <2>13, <2>14 DEF MetaOK
<1> QED
  BY <1>4, <1>5

LEMMA PrecisEndMeta ==
  ASSUME ChanTypes, MetaOK, PrecisEnd
  PROVE  MetaOK'
<1>1. /\ pc = "precis" /\ pc' = "info" /\ mode \in {"dap", "list"} /\ mode' = mode
      /\ meta' = meta /\ server' = server
      /\ idx > Len(server) /\ idx \in Nat /\ Len(server) \in Nat
  BY DEF PrecisEnd, ChanTypes, ServerIs, lists
<1>2. /\ \A m \in 1 .. Len(meta) : \E k \in 1 .. Len(server) : IsSeries(server[k]) /\ From(m, k)
      /\ \A m \in 1 .. Len(meta), k \in 1 .. Len(server) :
           k < idx /\ IsSeries(server[k]) /\ From(m, k) => meta[m].times = meta[m].key
  BY <1>1, MetaRead
<1>3. \A k \in 1 .. Len(server) : k < idx
  BY <1>1
<1>4. \A m \in 1 .. Len(meta) : meta[m].times = meta[m].key
  BY ONLY <1>2, <1>3
<1>5. \A m, k : From(m, k)' <=> From(m, k)
  BY <1>1 DEF From
<1>6. \A k : Read(k) /\ Read(k)'
  BY <1>1 DEF Read
<1> QED
  BY <1>1, <1>4, <1>5, <1>6 DEF MetaOK

LEMMA InfoMeta ==
  ASSUME ChanTypes, MetaOK, Info
  PROVE  MetaOK'
<1> DEFINE n == Len(meta)
           key == meta[idx].key
           r == SetNetwork(meta, key, key)
<1>1. /\ pc = "info" /\ pc' = "info" /\ mode' = mode /\ mode \in {"dap", "list"}
      /\ idx \in 1 .. n /\ server' = server
      /\ meta' = IF FirstOfInstrument(key) THEN r ELSE meta
  BY DEF Info, ChanTypes
<1>2. meta \in Seq(MetaItem) /\ key \in Nat
  BY <1>1, ElementTypes DEF ChanTypes
<1>3. /\ \A k \in 1 .. Len(server) : IsSeries(server[k]) => \E m \in 1 .. n : From(m, k)
      /\ \A m \in 1 .. n : \E k \in 1 .. Len(server) : IsSeries(server[k]) /\ From(m, k)
      /\ \A m, l \in 1 .. n : meta[m].key = meta[l].key => m = l
      /\ InOrder(meta)
      /\ \A m \in 1 .. n : FieldsOK(meta[m])
      /\ \A m \in 1 .. n : meta[m].times = meta[m].key
  BY <1>1, MetaRead
<1>4. CASE ~FirstOfInstrument(key)
  <2>1. meta' = meta
    BY <1>1, <1>4
  <2> QED
    BY <1>1, <2>1, MetaSame
<1>5. CASE FirstOfInstrument(key)
  <2>1. /\ Len(r) = n
        /\ \A m \in 1 .. n : r[m] = IF meta[m].key = key THEN [meta[m] EXCEPT !.network = key] ELSE meta[m]
    BY ONLY <1>2, <1>3, SetEffect
  <2>2. \A m \in 1 .. n : meta[m] \in MetaItem
    BY <1>2
  <2> HIDE DEF r, key
  <2>3. meta' = r
    BY <1>1, <1>5
  <2>4. \A m \in 1 .. n : /\ r[m].key = meta[m].key /\ r[m].name = meta[m].name
                          /\ r[m].times = meta[m].times
                          /\ r[m].network = IF meta[m].key = key THEN key ELSE meta[m].network
    BY ONLY <2>1, <2>2 DEF MetaItem
  <2>5. \A m \in 1 .. n, k \in 1 .. Len(server) : From(m, k)' <=> From(m, k)
    BY <1>1, <2>3, <2>4 DEF From
  <2>6. InOrder(meta')
    BY <1>3, <2>1, <2>3, <2>4 DEF InOrder
  <2>7. ASSUME NEW m \in 1 .. n PROVE FieldsOK(r[m])
    <3>1. CASE meta[m].key = key
      <4>1. r[m].key = key /\ r[m].network = key /\ FirstOfInstrument(r[m].key)
        BY <1>5, <2>4, <3>1
      <4> QED
        BY <1>3, <2>4, <4>1 DEF FieldsOK
    <3>2. CASE meta[m].key # key
      BY <1>3, <2>4, <3>2 DEF FieldsOK
    <3> QED
      BY <3>1, <3>2
  <2>8. /\ \A k \in 1 .. Len(server) : IsSeries(server[k]) => \E m \in 1 .. n : From(m, k)'
        /\ \A m \in 1 .. n : \E k \in 1 .. Len(server) : IsSeries(server[k]) /\ From(m, k)'
    BY ONLY <1>3, <2>5
  <2>9. \A m, l \in 1 .. n : r[m].key = r[l].key => m = l
    BY ONLY <1>3, <2>4
  <2>10. Len(meta') = n /\ \A m \in 1 .. n : r[m].times = r[m].key
    BY <1>3, <2>1, <2>3, <2>4
  <2>11. \A k : Read(k)'
    BY <1>1 DEF Read
  <2> QED
    BY <1>1, <2>3, <2>6, <2>7, <2>8, <2>9, <2>10, <2>11 DEF MetaOK
<1> QED
  BY <1>4, <1>5

LEMMA MetaNext == ChanTypes /\ MetaOK /\ [Next]_vars => MetaOK'
<1> SUFFICES ASSUME ChanTypes, MetaOK, [Next]_vars PROVE MetaOK'
  OBVIOUS
<1>1. CASE GetType
  BY <1>1 DEF GetType, MetaOK
<1>2. CASE FromNaqs
  BY <1>2 DEF FromNaqs, MetaOK
<1>3. CASE AddItem
  BY <1>3, AddItemMeta
<1>4. CASE FromDataServer
  BY <1>4, FromDataServerMeta
<1>5. CASE Precis
  BY <1>5, PrecisMeta
<1>6. CASE PrecisEnd
  BY <1>6, PrecisEndMeta
<1>7. CASE Info
  BY <1>7, InfoMeta
<1>8. CASE InfoEnd
  BY <1>8, MetaSame DEF InfoEnd, lists
<1>9. CASE MatchOne
  BY <1>9, MetaSame DEF MatchOne, lists
<1>10. CASE NextPattern
  BY <1>10, MetaSame DEF NextPattern, lists
<1>11. CASE Selected
  BY <1>11, MetaSame DEF Selected, lists
<1>12. CASE PrintOne
  BY <1>12, MetaSame DEF PrintOne, lists
<1>13. CASE PrintEnd
  BY <1>13, MetaSame DEF PrintEnd, lists
<1>14. CASE Handling
  <2>1. UNCHANGED <<mode, server, idx, meta>>
    BY <1>14 DEF Handling, lists
  <2>2. CASE UNCHANGED pc
    BY <2>1, <2>2 DEF MetaOK, Read, From
  <2>3. CASE pc \in {"receive", "handled"} /\ pc' \in {"receive", "handled", "exit"}
    BY <2>1, <2>3, MetaSame
  <2> QED
    BY <1>14, <2>2, <2>3 DEF Handling
<1> QED
  BY <1>1, <1>2, <1>3, <1>4, <1>5, <1>6, <1>7, <1>8, <1>9, <1>10, <1>11, <1>12, <1>13, <1>14,
     HandlingOrChannels DEF ChanNext

\* The list of a DataServer: the types and the list itself are inductive together.
LEMMA MetaInductive == Spec => [](ChanTypes /\ MetaOK)
<1>1. Init => ChanTypes /\ MetaOK
  BY ChanTypesInit, MetaInit
<1>2. (ChanTypes /\ MetaOK) /\ [Next]_vars => (ChanTypes /\ MetaOK)'
  BY ChanTypesNext, MetaNext
<1> QED
  BY <1>1, <1>2, PTL DEF Spec

\* nmxp_getMetaChannelList(): whatever order the channels come in, the list has every
\* time series of the server exactly once, sorted by name, each with its own times
\* and network.
THEOREM MetaRight == Spec => []MetaInOrder
<1>1. ASSUME ChanTypes, MetaOK PROVE MetaInOrder
  <2> SUFFICES ASSUME pc # "start", mode \in {"dap", "list"}
               PROVE  /\ {item.key : item \in ToSet(meta)} = {c.key : c \in Series}
                      /\ \A i, j \in DOMAIN meta : i < j => /\ meta[i].key # meta[j].key
                                                          /\ ~Before(meta[j].name, meta[i].name)
                      /\ \A item \in ToSet(meta) : /\ item.times \in {0, item.key}
                                                   /\ pc # "precis" => item.times = item.key
                                                   /\ item.network \in {0, item.key}
                                                   /\ item.network # 0 => FirstOfInstrument(item.key)
    BY DEF MetaInOrder
  <2>1. /\ \A k \in 1 .. Len(server) : IsSeries(server[k]) => \E m \in 1 .. Len(meta) : From(m, k)
        /\ \A m \in 1 .. Len(meta) : \E k \in 1 .. Len(server) : IsSeries(server[k]) /\ From(m, k)
        /\ \A m, n \in 1 .. Len(meta) : meta[m].key = meta[n].key => m = n
        /\ InOrder(meta)
        /\ \A m \in 1 .. Len(meta) : FieldsOK(meta[m])
        /\ pc # "precis" => \A m \in 1 .. Len(meta) : meta[m].times = meta[m].key
    BY <1>1, MetaRead
  <2>2. /\ DOMAIN meta = 1 .. Len(meta) /\ DOMAIN server = 1 .. Len(server) /\ Len(meta) \in Nat
        /\ ToSet(meta) = {meta[m] : m \in 1 .. Len(meta)}
        /\ ToSet(server) = {server[k] : k \in 1 .. Len(server)}
    <3>1. meta \in Seq(MetaItem) /\ server \in Seq(ServerChannel)
      BY <1>1 DEF ChanTypes, ServerIs
    <3>2. DOMAIN meta = 1 .. Len(meta) /\ DOMAIN server = 1 .. Len(server) /\ Len(meta) \in Nat
      BY <3>1
    <3> QED
      BY <3>2 DEF ToSet
  <2>3. {item.key : item \in ToSet(meta)} = {c.key : c \in Series}
    <3>1. ASSUME NEW item \in ToSet(meta) PROVE \E c \in Series : c.key = item.key
      <4>1. PICK m \in 1 .. Len(meta) : item = meta[m]
        BY <2>2
      <4>2. PICK k \in 1 .. Len(server) : IsSeries(server[k]) /\ From(m, k)
        BY <2>1
      <4>3. server[k] \in Series
        BY <2>2, <4>2 DEF Series
      <4> QED
        BY <4>1, <4>2, <4>3 DEF From
    <3>2. ASSUME NEW c \in Series PROVE \E item \in ToSet(meta) : c.key = item.key
      <4>1. PICK k \in 1 .. Len(server) : c = server[k] /\ IsSeries(server[k])
        BY <2>2 DEF Series
      <4>2. PICK m \in 1 .. Len(meta) : From(m, k)
        BY <2>1, <4>1
      <4>3. meta[m] \in ToSet(meta)
        BY <2>2
      <4> QED
        BY <4>1, <4>2, <4>3 DEF From
    <3> QED
      BY <3>1, <3>2
  <2>4. ASSUME NEW i \in DOMAIN meta, NEW j \in DOMAIN meta, i < j
        PROVE  meta[i].key # meta[j].key /\ ~Before(meta[j].name, meta[i].name)
    <3>1. i \in 1 .. Len(meta) /\ j \in 1 .. Len(meta) /\ i # j
      BY <2>2, <2>4
    <3> QED
      BY <2>1, <2>4, <3>1 DEF InOrder
  <2>5. ASSUME NEW item \in ToSet(meta)
        PROVE  FieldsOK(item) /\ (pc # "precis" => item.times = item.key)
    BY <2>1, <2>2
  <2> QED
    BY <2>3, <2>4, <2>5 DEF FieldsOK
<1> QED
  BY <1>1, MetaInductive, PTL

-----------------------------------------------------------------------------
(* The selection                                                           *)

\* An error is one of the pattern, for all names, or one of the name, for all patterns.
LEMMA MatchIs ==
  ASSUME NEW n, NEW p
  PROVE  /\ Match(n, p) \in {-2, -1, 0, 1}
         /\ Match(n, p) = 1 => ValidPattern(p) /\ n.cha # NoCode /\ ValidName(n)
         /\ Match(n, p) = -1 <=> ~ValidPattern(p) \/ (n.cha # NoCode /\ ~ValidName(n))
         /\ Match(n, p) = -2 => n.cha = NoCode
<1>1. CASE ~ValidPattern(p)
  BY <1>1 DEF Match
<1>2. CASE ValidPattern(p) /\ n.cha = NoCode
  BY <1>2 DEF Match
<1>3. CASE ValidPattern(p) /\ n.cha # NoCode /\ ~ValidName(n)
  BY <1>3 DEF Match
<1>4. CASE ValidPattern(p) /\ n.cha # NoCode /\ ValidName(n)
  BY <1>4 DEF Match
<1> QED
  BY <1>1, <1>2, <1>3, <1>4

InSubset(key) == \E i \in 1 .. Len(subset) : subset[i].key = key
MatchOf(k, q) == Match(channels[k].name, patterns[q])

\* channelList is the server's list, or its time series.
ListOK ==
  /\ \A i \in 1 .. Len(channels) : \E k \in 1 .. Len(server) : channels[i] = server[k]
  /\ mode \in {"pds", "naqslist"} => \A i \in 1 .. Len(channels) : IsSeries(channels[i])
  /\ pc # "start" \/ mode \in {"pds", "naqslist"} =>
       \A k \in 1 .. Len(server) :
         Read(k) /\ IsSeries(server[k]) => \E i \in 1 .. Len(channels) : channels[i] = server[k]

SubsetOK ==
  /\ \A i \in 1 .. Len(subset) : \E k \in 1 .. Len(server) :
       IsSeries(server[k]) /\ \E p \in FirstMatch(server[k]) : subset[i] = Named(server[k], patterns[p])
  /\ \A i, j \in 1 .. Len(subset) : subset[i].key = subset[j].key => i = j

\* The two loops of nmxp_chan_subset(): a pattern is left for the next one at the
\* first channel that cannot be matched.
LoopOK ==
  /\ pc \in {"start", "precis", "info"} => pat = 1 /\ ret = 1 /\ subset = <<>>
  /\ pc = "subset" =>
       /\ \A k \in 1 .. Len(channels) :
            k < idx /\ IsSeries(channels[k]) /\ MatchOf(k, pat) = 1 => InSubset(channels[k].key)
       /\ ret = -1 => \E k \in 1 .. Len(channels) : k = idx - 1 /\ MatchOf(k, pat) = -1
       /\ ret # -1 => \A k \in 1 .. Len(channels) : k < idx => MatchOf(k, pat) # -1
  /\ pc \in {"subset", "receive", "handled"} =>
       /\ 1 .. (pat - 1) \subseteq Used
       /\ \A q \in 1 .. (pat - 1), k \in 1 .. Len(channels) :
            /\ IsSeries(channels[k]) /\ MatchOf(k, q) = 1
            /\ \A j \in 1 .. (k - 1) : MatchOf(j, q) # -1
            => InSubset(channels[k].key)
  /\ pc \in {"receive", "handled"} => pat \notin Used

PrintOK ==
  /\ pc = "print" => mode \in {"naqslist", "list"}
  /\ pc \in {"subset", "receive", "handled"} => mode \in {"pds", "dap"}
  /\ pc \in {"start", "precis", "info"} => printed = <<>>
  /\ \A i \in 1 .. Len(printed) : \E k \in 1 .. Len(ListToPrint) :
       Prints(ListToPrint[k].name) /\ printed[i] = ListToPrint[k].key
  /\ \A k \in 1 .. Len(ListToPrint) :
       /\ Prints(ListToPrint[k].name)
       /\ (pc = "print" /\ k < idx) \/ (pc = "exit" /\ mode \in {"naqslist", "list"})
       => \E i \in 1 .. Len(printed) : printed[i] = ListToPrint[k].key

Selecting == ListOK /\ SubsetOK /\ LoopOK /\ PrintOK

\* nmxp_chan_lookupName(): there is one channel with the key at most.
LEMMA LookupNameIs ==
  ASSUME subset \in Seq(Selections), NEW key,
         \A i, j \in 1 .. Len(subset) : subset[i].key = subset[j].key => i = j
  PROVE  /\ \A i \in 1 .. Len(subset) : subset[i].key = key => LookupName(key, subset) = subset[i]
         /\ LookupName(key, subset) = None <=> ~InSubset(key)
<1> DEFINE Having == {i \in 1 .. Len(subset) : subset[i].key = key}
<1>1. DOMAIN subset = 1 .. Len(subset) /\ Len(subset) \in Nat
  OBVIOUS
<1>2. LookupName(key, subset) = IF Having = {} THEN None
                                ELSE subset[CHOOSE i \in Having : \A j \in Having : j <= i]
  BY <1>1 DEF LookupName
<1>3. ASSUME NEW i \in 1 .. Len(subset), subset[i].key = key
      PROVE  LookupName(key, subset) = subset[i]
  <2>1. i \in Having /\ \A j \in Having : j = i
    BY <1>3
  <2>2. \E k \in Having : \A j \in Having : j <= k
    BY <1>1, <2>1
  <2>3. (CHOOSE k \in Having : \A j \in Having : j <= k) \in Having
    BY <2>2
  <2> QED
    BY <1>2, <2>1, <2>3
<1>4. \A i \in 1 .. Len(subset) : subset[i].key # -1
  <2>1. \A x \in Selections : x.key \in Nat
    BY DEF Selections, Named, ServerChannel
  <2>2. \A i \in 1 .. Len(subset) : subset[i] \in Selections
    OBVIOUS
  <2> QED
    BY <2>1, <2>2
<1>5. CASE InSubset(key)
  <2>1. PICK i \in 1 .. Len(subset) : subset[i].key = key
    BY <1>5 DEF InSubset
  <2>2. LookupName(key, subset).key # -1
    BY <1>3, <1>4, <2>1
  <2> QED
    BY <1>3, <1>5, <2>2 DEF None
<1>6. CASE ~InSubset(key)
  <2>1. Having = {}
    BY <1>6 DEF InSubset
  <2> QED
    BY <1>2, <1>6, <2>1 DEF InSubset
<1> QED
  BY <1>3, <1>5, <1>6

LEMMA SelectingInit == Init => Selecting
<1> SUFFICES ASSUME Init PROVE Selecting
  OBVIOUS
<1>1. /\ pc = "start" /\ idx = 1 /\ channels = <<>> /\ meta = <<>> /\ pat = 1 /\ ret = 1
      /\ subset = <<>> /\ printed = <<>>
  BY DEF Init, ChanInit
<1>2. Len(server) \in Nat
  BY ChanTypesInit DEF ChanTypes, ServerIs
<1>3. \A k \in 1 .. Len(server) : ~Read(k)
  BY <1>1, <1>2 DEF Read
<1>4. ListOK
  BY <1>1, <1>3 DEF ListOK
<1>5. SubsetOK /\ LoopOK
  BY <1>1 DEF SubsetOK, LoopOK
<1>6. PrintOK
  BY <1>1 DEF PrintOK, ListToPrint
<1> QED
  BY <1>4, <1>5, <1>6 DEF Selecting

\* What is read from the server and from -C stays, and so do the patterns in use.
LEMMA Kept ==
  ASSUME patterns' = patterns
  PROVE  /\ Used' = Used
         /\ \A n : Prints(n)' <=> Prints(n)
         /\ \A c : FirstMatch(c)' = FirstMatch(c)
BY DEF Used, Prints, FirstMatch

\* Steps that read the server do not select or print.
LEMMA ReadingKeeps ==
  ASSUME ChanTypes, Selecting, UNCHANGED <<mode, server, patterns, matching, printed>>,
         pc \in {"start", "precis", "info"},
         \/ pc' \in {"start", "precis", "info"}
         \/ idx' = 1 /\ pc' = IF mode \in {"pds", "dap"} THEN "subset" ELSE "print"
  PROVE  SubsetOK' /\ LoopOK' /\ PrintOK'
<1>1. pat' = 1 /\ ret' = 1 /\ subset' = <<>> /\ printed' = <<>> /\ mode' = mode
  BY DEF Selecting, LoopOK, PrintOK, matching
<1>2. SubsetOK'
  BY <1>1 DEF SubsetOK
<1>3. CASE pc' \in {"start", "precis", "info"}
  BY <1>1, <1>2, <1>3 DEF LoopOK, PrintOK
<1>4. CASE idx' = 1 /\ pc' = IF mode \in {"pds", "dap"} THEN "subset" ELSE "print"
  <2>1. \A k \in 1 .. Len(channels') : ~(k < idx')
    BY <1>4
  <2>2. \A k \in 1 .. Len(ListToPrint') : ~(k < idx')
    BY <1>4
  <2>3. 1 .. (pat' - 1) = {}
    BY <1>1
  <2>4. LoopOK'
    <3>1. pc' # "start" /\ pc' # "precis" /\ pc' # "info" /\ pc' # "receive" /\ pc' # "handled"
      BY <1>4
    <3>2. ret' # -1
      BY <1>1
    <3> QED
      BY <2>1, <2>3, <3>1, <3>2 DEF LoopOK
  <2>5. PrintOK'
    BY <1>1, <1>4, <2>2 DEF PrintOK, ChanTypes
  <2> QED
    BY <1>2, <2>4, <2>5
<1> QED
  BY <1>3, <1>4

\* Steps of Packets, and others, leave the lists and what was selected and printed.
LEMMA ListSame ==
  ASSUME ListOK, UNCHANGED <<mode, server, channels>>, pc # "start", pc' # "start"
  PROVE  ListOK'
BY DEF ListOK, Read

LEMMA SubsetSame ==
  ASSUME SubsetOK, UNCHANGED <<server, patterns, subset>>
  PROVE  SubsetOK'
BY Kept DEF SubsetOK

LEMMA GetTypeSelects ==
  ASSUME ChanTypes, Selecting, GetType
  PROVE  ListOK'
<1>1. /\ pc = "start" /\ pc' = "start" /\ mode \in {"pds", "naqslist"} /\ mode' = mode
      /\ idx \in 1 .. Len(server) /\ idx' = idx + 1 /\ server' = server
      /\ channels' = IF IsSeries(server[idx]) THEN Append(channels, server[idx]) ELSE channels
  BY DEF GetType, ChanTypes
<1>2. channels \in Seq(ServerChannel) /\ Len(channels) \in Nat /\ Len(server) \in Nat
  BY DEF ChanTypes, ServerIs
<1>3. \A k \in 1 .. Len(server) : (Read(k)' <=> k <= idx) /\ (Read(k) <=> k < idx)
  BY <1>1, <1>2 DEF Read
<1>4. /\ \A i \in 1 .. Len(channels) : \E k \in 1 .. Len(server) : channels[i] = server[k]
      /\ \A i \in 1 .. Len(channels) : IsSeries(channels[i])
      /\ \A k \in 1 .. Len(server) :
           k < idx /\ IsSeries(server[k]) => \E i \in 1 .. Len(channels) : channels[i] = server[k]
  BY <1>1, <1>3 DEF Selecting, ListOK
<1>5. CASE ~IsSeries(server[idx])
  <2>1. channels' = channels
    BY <1>1, <1>5
  <2>2. \A k \in 1 .. Len(server) : k <= idx /\ IsSeries(server[k]) => k < idx
    BY <1>1, <1>5
  <2> QED
    BY <1>1, <1>3, <1>4, <2>1, <2>2 DEF ListOK
<1>6. CASE IsSeries(server[idx])
  <2> DEFINE n == Len(channels)
             r == Append(channels, server[idx])
  <2>1. Len(r) = n + 1 /\ (\A i \in 1 .. n : r[i] = channels[i]) /\ r[n + 1] = server[idx]
    BY <1>2
  <2> HIDE DEF r
  <2>2. channels' = r
    BY <1>1, <1>6 DEF r
  <2>3. \A i \in 1 .. (n + 1) : (i \in 1 .. n /\ r[i] = channels[i]) \/ r[i] = server[idx]
    BY <1>2, <2>1
  <2>4. ASSUME NEW i \in 1 .. (n + 1)
        PROVE  IsSeries(r[i]) /\ \E k \in 1 .. Len(server) : r[i] = server[k]
    BY <1>1, <1>4, <1>6, <2>3
  <2>5. ASSUME NEW k \in 1 .. Len(server), k <= idx, IsSeries(server[k])
        PROVE  \E i \in 1 .. (n + 1) : r[i] = server[k]
    <3>1. CASE k = idx
      BY <1>2, <2>1, <3>1
    <3>2. CASE k # idx
      <4>1. k < idx
        BY <1>1, <2>5, <3>2
      <4>2. PICK i \in 1 .. n : channels[i] = server[k]
        BY <1>4, <2>5, <4>1
      <4>3. i \in 1 .. (n + 1) /\ r[i] = server[k]
        BY <1>2, <2>1, <4>2
      <4> QED
        BY <4>3
    <3> QED
      BY <3>1, <3>2
  <2>6. Len(channels') = n + 1 /\ pc' = "start" /\ mode' = mode /\ server' = server
    BY <1>1, <2>1, <2>2
  <2>7. \A k \in 1 .. Len(server) : Read(k)' /\ IsSeries(server[k]) => \E i \in 1 .. (n + 1) : r[i] = server[k]
    BY <1>3, <2>5
  <2> QED
    BY ONLY <2>2, <2>4, <2>6, <2>7 DEF ListOK
<1> QED
  BY <1>5, <1>6

LEMMA FromNaqsSelects ==
  ASSUME ChanTypes, Selecting, FromNaqs
  PROVE  ListOK'
<1>1. /\ pc = "start" /\ pc' # "start" /\ mode \in {"pds", "naqslist"} /\ mode' = mode
      /\ idx > Len(server) /\ idx \in Nat /\ server' = server
      /\ channels' \in SortByName(channels)
  BY DEF FromNaqs, ChanTypes
<1>2. channels \in Seq(ServerChannel) /\ Len(channels) \in Nat /\ Len(server) \in Nat
  BY DEF ChanTypes, ServerIs
<1>3. \A k \in 1 .. Len(server) : Read(k)
  BY <1>1, <1>2 DEF Read
<1>4. /\ \A i \in 1 .. Len(channels) : \E k \in 1 .. Len(server) : channels[i] = server[k]
      /\ \A i \in 1 .. Len(channels) : IsSeries(channels[i])
      /\ \A k \in 1 .. Len(server) :
           IsSeries(server[k]) => \E i \in 1 .. Len(channels) : channels[i] = server[k]
  BY <1>1, <1>3 DEF Selecting, ListOK
<1> DEFINE q == channels'
           n == Len(channels)
<1>5. /\ Len(q) = n
      /\ \A i \in 1 .. n : \E j \in 1 .. n : q[i] = channels[j]
      /\ \A j \in 1 .. n : \E i \in 1 .. n : q[i] = channels[j]
  BY <1>1, <1>2, SortEffect
<1> HIDE DEF q
<1>6. ASSUME NEW i \in 1 .. n
      PROVE  IsSeries(q[i]) /\ \E k \in 1 .. Len(server) : q[i] = server[k]
  <2>1. PICK j \in 1 .. n : q[i] = channels[j]
    BY <1>5
  <2> QED
    BY <1>4, <2>1
<1>7. ASSUME NEW k \in 1 .. Len(server), IsSeries(server[k])
      PROVE  \E i \in 1 .. n : q[i] = server[k]
  <2>1. PICK j \in 1 .. n : channels[j] = server[k]
    BY <1>4, <1>7
  <2> QED
    BY <1>5, <2>1
<1> QED
  BY <1>1, <1>5, <1>6, <1>7 DEF ListOK, q

LEMMA FromDataServerSelects ==
  ASSUME ChanTypes, Selecting, FromDataServer
  PROVE  ListOK'
<1>1. channels' = server /\ server' = server /\ mode \in {"dap", "list"} /\ mode' = mode
  BY DEF FromDataServer
<1>2. /\ \A i \in 1 .. Len(server) : \E k \in 1 .. Len(server) : server[i] = server[k]
      /\ \A k \in 1 .. Len(server) : \E i \in 1 .. Len(server) : server[i] = server[k]
  OBVIOUS
<1> QED
  BY <1>1, <1>2 DEF ListOK

\* One channel is tried against the pattern: it is selected if it has not been, and
\* then by the first pattern that it matches.
LEMMA MatchOneSelects ==
  ASSUME ChanTypes, Selecting, MatchOne
  PROVE  SubsetOK' /\ LoopOK' /\ PrintOK'
<1>1. PICK at, p, c, part : at = idx /\ p = pat /\ c = channels[idx] /\ part = patterns[pat]
  OBVIOUS
<1> DEFINE n == Len(subset)
<1>2. /\ pc = "subset" /\ pc' = "subset" /\ p \in Used /\ pat = p /\ pat' = p /\ ret # -1
      /\ at \in 1 .. Len(channels) /\ idx = at /\ idx' = at + 1 /\ c = channels[at] /\ part = patterns[p]
      /\ ret' = MatchOf(at, p)
      /\ subset' = IF ret' = 1 /\ IsNew(c) THEN Append(subset, Named(c, part)) ELSE subset
      /\ UNCHANGED <<mode, server, patterns, channels, meta, printed>>
  BY <1>1 DEF MatchOne, ChanTypes, MatchOf, lists
<1>3. /\ subset \in Seq(Selections) /\ n \in Nat /\ Len(channels) \in Nat /\ Len(server) \in Nat
      /\ p \in Nat \ {0} /\ at \in Nat \ {0}
      /\ \A i, j \in 1 .. n : subset[i].key = subset[j].key => i = j
      /\ \A i, j \in 1 .. Len(server) : server[i].key = server[j].key => i = j
  BY <1>2 DEF ChanTypes, ServerIs, Selecting, SubsetOK
<1>4. /\ \A i \in 1 .. n : \E k \in 1 .. Len(server) :
           IsSeries(server[k]) /\ \E q \in FirstMatch(server[k]) : subset[i] = Named(server[k], patterns[q])
      /\ \A k \in 1 .. Len(channels) :
           k < at /\ IsSeries(channels[k]) /\ MatchOf(k, p) = 1 => InSubset(channels[k].key)
      /\ \A k \in 1 .. Len(channels) : k < at => MatchOf(k, p) # -1
      /\ 1 .. (p - 1) \subseteq Used
      /\ \A q \in 1 .. (p - 1), k \in 1 .. Len(channels) :
           /\ IsSeries(channels[k]) /\ MatchOf(k, q) = 1
           /\ \A j \in 1 .. (k - 1) : MatchOf(j, q) # -1
           => InSubset(channels[k].key)
  BY <1>2 DEF Selecting, SubsetOK, LoopOK
<1>5. LookupName(c.key, subset) = None <=> ~InSubset(c.key)
  BY ONLY <1>3, LookupNameIs
<1> DEFINE new == ret' = 1 /\ IsNew(c)
<1>6. /\ new => IsSeries(c) /\ ~InSubset(c.key) /\ MatchOf(at, p) = 1
      /\ ret' = 1 /\ IsSeries(c) /\ ~new => InSubset(c.key)
  BY <1>2, <1>5 DEF IsNew, IsSeries
<1>7. /\ new => /\ Len(subset') = n + 1
                /\ \A i \in 1 .. n : subset'[i] = subset[i]
                /\ subset'[n + 1] = Named(c, part)
      /\ ~new => subset' = subset
  BY <1>2, <1>3
<1> HIDE DEF new
<1>8. Named(c, part).key = c.key
  BY DEF Named
<1>9. \A key : InSubset(key) => InSubset(key)'
  <2> SUFFICES ASSUME NEW key, InSubset(key) PROVE InSubset(key)'
    OBVIOUS
  <2>1. PICK i \in 1 .. n : subset[i].key = key
    BY DEF InSubset
  <2>2. i \in 1 .. Len(subset') /\ subset'[i].key = key
    BY <1>3, <1>7, <2>1
  <2> QED
    BY <2>2 DEF InSubset
<1>10. ret' = 1 /\ IsSeries(c) => InSubset(c.key)'
  <2>1. CASE new
    <3>1. n + 1 \in 1 .. Len(subset') /\ subset'[n + 1].key = c.key
      BY <1>3, <1>7, <1>8, <2>1
    <3> QED
      BY <3>1 DEF InSubset
  <2>2. CASE ~new
    BY <1>6, <1>9, <2>2
  <2> QED
    BY <2>1, <2>2
\* The pattern is the first one that a new channel matches: the pattern before did
\* not end at an error of another name, for this one would end there too.
<1>11. ASSUME new
       PROVE  \E k \in 1 .. Len(server) : IsSeries(server[k]) /\ c = server[k] /\ p \in FirstMatch(server[k])
  <2>1. PICK k \in 1 .. Len(server) : c = server[k]
    BY <1>2 DEF Selecting, ListOK
  <2>2. MatchOf(at, p) = 1 /\ Match(c.name, patterns[p]) = 1 /\ IsSeries(c)
    BY <1>2, <1>6, <1>11 DEF MatchOf
  <2>3. ASSUME NEW q \in 1 .. (p - 1), Match(c.name, patterns[q]) = 1
        PROVE  FALSE
    <3>1. MatchOf(at, q) = 1 /\ IsSeries(channels[at]) /\ ~InSubset(channels[at].key)
      BY <1>2, <1>6, <1>11, <2>3 DEF MatchOf
    <3>2. PICK j \in 1 .. (at - 1) : MatchOf(j, q) = -1
      BY <1>2, <1>4, <3>1
    <3>3. ValidPattern(patterns[q])
      BY <2>3, MatchIs
    <3>4. MatchOf(j, p) = -1
      BY <3>2, <3>3, MatchIs DEF MatchOf
    <3>5. j \in 1 .. Len(channels) /\ j < at
      BY <1>2, <1>3
    <3> QED
      BY <1>4, <3>4, <3>5
  <2>4. p \in FirstMatch(server[k])
    BY <1>2, <2>1, <2>2, <2>3 DEF FirstMatch
  <2> QED
    BY <2>1, <2>2, <2>4
<1>12. server' = server /\ patterns' = patterns /\ \A x : FirstMatch(x)' = FirstMatch(x)
  BY <1>2, Kept
<1>13. SubsetOK'
  <2>1. CASE ~new
    BY <1>7, <1>12, <2>1, SubsetSame DEF Selecting
  <2>2. CASE new
    <3>1. PICK k \in 1 .. Len(server) : IsSeries(server[k]) /\ c = server[k] /\ p \in FirstMatch(server[k])
      BY <1>11, <2>2
    <3>2. Len(subset') = n + 1 /\ \A i \in 1 .. (n + 1) :
             (i \in 1 .. n /\ subset'[i] = subset[i]) \/ (i = n + 1 /\ subset'[i] = Named(c, part))
      BY <1>3, <1>7, <2>2
    <3>3. ASSUME NEW i \in 1 .. (n + 1)
          PROVE  \E l \in 1 .. Len(server) :
                   IsSeries(server[l]) /\ \E q \in FirstMatch(server[l]) : subset'[i] = Named(server[l], patterns[q])
      BY <1>2, <1>4, <3>1, <3>2
    <3>4. \A i \in 1 .. n : subset[i].key # c.key
      BY <1>6, <2>2 DEF InSubset
    <3>5. ASSUME NEW i \in 1 .. (n + 1), NEW j \in 1 .. (n + 1), subset'[i].key = subset'[j].key
          PROVE  i = j
      BY <1>3, <1>8, <3>2, <3>4, <3>5
    <3> QED
      BY <1>12, <3>2, <3>3, <3>5 DEF SubsetOK
  <2> QED
    BY <2>1, <2>2
<1>14. \A k, q : MatchOf(k, q)' = MatchOf(k, q)
  BY <1>2 DEF MatchOf
<1>15. Used' = Used /\ \A x : Prints(x)' <=> Prints(x)
  BY <1>2, Kept
<1>16. LoopOK'
  <2>1. ASSUME NEW k \in 1 .. Len(channels), k < at + 1, IsSeries(channels[k]), MatchOf(k, p) = 1
        PROVE  InSubset(channels[k].key)'
    <3>1. PICK key : key = channels[k].key
      OBVIOUS
    <3>2. InSubset(key)'
      <4>1. CASE k = at
        BY <1>2, <1>10, <2>1, <3>1, <4>1
      <4>2. CASE k # at
        <5>1. k < at
          BY <1>3, <2>1, <4>2
        <5> QED
          BY <1>4, <1>9, <2>1, <3>1, <5>1
      <4> QED
        BY <4>1, <4>2
    <3> QED
      BY <1>2, <3>1, <3>2
  <2>2. ret' = -1 => \E k \in 1 .. Len(channels) : k = (at + 1) - 1 /\ MatchOf(k, p) = -1
    <3>1. at = (at + 1) - 1
      BY <1>3
    <3> QED
      BY <1>2, <3>1
  <2>3. ret' # -1 => \A k \in 1 .. Len(channels) : k < at + 1 => MatchOf(k, p) # -1
    <3> SUFFICES ASSUME ret' # -1, NEW k \in 1 .. Len(channels), k < at + 1 PROVE MatchOf(k, p) # -1
      OBVIOUS
    <3>1. k = at \/ k < at
      BY <1>3
    <3> QED
      BY <1>2, <1>4, <3>1
  <2>4. ASSUME NEW q \in 1 .. (p - 1), NEW k \in 1 .. Len(channels),
               IsSeries(channels[k]), MatchOf(k, q) = 1, \A j \in 1 .. (k - 1) : MatchOf(j, q) # -1
        PROVE  InSubset(channels[k].key)'
    <3>1. PICK key : key = channels[k].key
      OBVIOUS
    <3>2. InSubset(key)'
      BY <1>4, <1>9, <2>4, <3>1
    <3> QED
      BY <1>2, <3>1, <3>2
  <2> QED
    BY <1>2, <1>4, <1>14, <1>15, <2>1, <2>2, <2>3, <2>4 DEF LoopOK
<1>17. PrintOK'
  <2>1. PrintOK
    BY DEF Selecting
  <2>2. ListToPrint' = ListToPrint /\ mode \in {"pds", "dap"}
    BY <1>2, <2>1 DEF ListToPrint, PrintOK
  <2> QED
    BY <1>2, <1>15, <2>1, <2>2 DEF PrintOK
<1> QED
  BY <1>13, <1>16, <1>17

LEMMA NextPatternSelects ==
  ASSUME ChanTypes, Selecting, NextPattern
  PROVE  LoopOK'
<1>1. PICK p : p = pat
  OBVIOUS
<1>2. /\ pc = "subset" /\ pc' = "subset" /\ p \in Used /\ pat = p /\ pat' = p + 1
      /\ idx > Len(channels) \/ ret = -1
      /\ idx' = 1 /\ ret' = 1 /\ idx \in Nat /\ p \in Nat \ {0} /\ Len(channels) \in Nat
      /\ UNCHANGED <<server, patterns, channels, subset>>
  BY <1>1 DEF NextPattern, ChanTypes, lists
<1>3. /\ \A k \in 1 .. Len(channels) :
           k < idx /\ IsSeries(channels[k]) /\ MatchOf(k, p) = 1 => InSubset(channels[k].key)
      /\ ret = -1 => \E k \in 1 .. Len(channels) : k = idx - 1 /\ MatchOf(k, p) = -1
      /\ 1 .. (p - 1) \subseteq Used
      /\ \A q \in 1 .. (p - 1), k \in 1 .. Len(channels) :
           /\ IsSeries(channels[k]) /\ MatchOf(k, q) = 1
           /\ \A j \in 1 .. (k - 1) : MatchOf(j, q) # -1
           => InSubset(channels[k].key)
  BY <1>2 DEF Selecting, LoopOK
<1>4. Used' = Used /\ \A k, q : MatchOf(k, q)' = MatchOf(k, q)
  BY <1>2, Kept DEF MatchOf
<1>5. \A key : InSubset(key)' <=> InSubset(key)
  BY <1>2 DEF InSubset
<1>6. ASSUME NEW k \in 1 .. Len(channels), IsSeries(channels[k]), MatchOf(k, p) = 1,
             \A j \in 1 .. (k - 1) : MatchOf(j, p) # -1
      PROVE  InSubset(channels[k].key)
  <2>1. k < idx
    <3> SUFFICES ASSUME ~(k < idx) PROVE FALSE
      OBVIOUS
    <3>1. PICK j \in 1 .. Len(channels) : j = idx - 1 /\ MatchOf(j, p) = -1
      BY <1>2, <1>3
    <3>2. j \in 1 .. (k - 1)
      BY <1>2, <3>1
    <3> QED
      BY <1>6, <3>1, <3>2
  <2> QED
    BY <1>3, <1>6, <2>1
<1>7. \A q \in 1 .. p : q \in 1 .. (p - 1) \/ q = p
  BY <1>2
<1>8. ASSUME NEW q \in 1 .. p, NEW k \in 1 .. Len(channels), IsSeries(channels[k]), MatchOf(k, q) = 1,
             \A j \in 1 .. (k - 1) : MatchOf(j, q) # -1
      PROVE  InSubset(channels[k].key)
  BY <1>3, <1>6, <1>7, <1>8
<1>9. 1 .. p \subseteq Used
  BY <1>2, <1>3, <1>7
<1>10. pat' - 1 = p /\ \A k \in 1 .. Len(channels) : ~(k < idx')
  BY <1>2
<1>11. ret' # -1
  BY <1>2
<1> QED
  BY <1>2, <1>4, <1>5, <1>8, <1>9, <1>10, <1>11 DEF LoopOK

LEMMA SelectedSelects ==
  ASSUME ChanTypes, Selecting, Selected
  PROVE  LoopOK' /\ PrintOK'
<1>1. /\ pc = "subset" /\ pat \notin Used /\ pc' \in {"receive", "exit"}
      /\ UNCHANGED <<mode, server, patterns, idx, channels, meta, pat, ret, subset, printed>>
  BY DEF Selected, lists, matching
<1>2. /\ Used' = Used /\ \A k, q : MatchOf(k, q)' = MatchOf(k, q)
      /\ \A x : Prints(x)' <=> Prints(x)
      /\ \A key : InSubset(key)' <=> InSubset(key)
      /\ ListToPrint' = ListToPrint
  BY <1>1, Kept DEF MatchOf, InSubset, ListToPrint
<1>3. LoopOK /\ PrintOK /\ mode \in {"pds", "dap"}
  BY <1>1 DEF Selecting, PrintOK
<1>4. LoopOK'
  BY <1>1, <1>2, <1>3 DEF LoopOK
<1>5. PrintOK'
  BY <1>1, <1>2, <1>3 DEF PrintOK
<1> QED
  BY <1>4, <1>5

LEMMA PrintOneSelects ==
  ASSUME ChanTypes, Selecting, PrintOne
  PROVE  PrintOK'
<1>1. PICK at, c, list, new : at = idx /\ c = list[at] /\ list = ListToPrint /\ new = printed'
  OBVIOUS
<1> DEFINE n == Len(printed)
<1>2. /\ pc = "print" /\ pc' = "print" /\ mode' = mode
      /\ at \in 1 .. Len(list) /\ idx' = at + 1
      /\ new = IF Prints(c.name) THEN Append(printed, c.key) ELSE printed
      /\ UNCHANGED <<server, patterns, channels, meta>>
  BY <1>1 DEF PrintOne, ChanTypes, lists
<1>3. printed \in Seq(Nat) /\ n \in Nat /\ at \in Nat
  BY <1>1 DEF ChanTypes
<1>4. /\ mode \in {"naqslist", "list"}
      /\ \A i \in 1 .. n : \E k \in 1 .. Len(list) : Prints(list[k].name) /\ printed[i] = list[k].key
      /\ \A k \in 1 .. Len(list) :
           Prints(list[k].name) /\ k < at => \E i \in 1 .. n : printed[i] = list[k].key
  BY <1>1, <1>2 DEF Selecting, PrintOK
<1>5. ListToPrint' = list /\ \A x : Prints(x)' <=> Prints(x)
  BY <1>1, <1>2, Kept DEF ListToPrint
<1>6. \A k \in 1 .. Len(list) : k < at + 1 => k < at \/ k = at
  BY <1>3
<1>7. /\ \A i \in 1 .. Len(new) : \E k \in 1 .. Len(list) : Prints(list[k].name) /\ new[i] = list[k].key
      /\ \A k \in 1 .. Len(list) :
           Prints(list[k].name) /\ k < at + 1 => \E i \in 1 .. Len(new) : new[i] = list[k].key
  <2>1. CASE ~Prints(c.name)
    <3>1. new = printed
      BY <1>2, <2>1
    <3> QED
      BY <1>1, <1>4, <1>6, <2>1, <3>1
  <2>2. CASE Prints(c.name)
    <3>1. /\ Len(new) = n + 1
          /\ \A i \in 1 .. n : new[i] = printed[i]
          /\ new[n + 1] = c.key
      BY <1>2, <1>3, <2>2
    <3>2. \A i \in 1 .. (n + 1) : i \in 1 .. n \/ i = n + 1
      BY <1>3
    <3>3. \A i \in 1 .. n : i \in 1 .. (n + 1)
      BY <1>3
    <3>4. n + 1 \in 1 .. (n + 1)
      BY <1>3
    <3>5. ASSUME NEW i \in 1 .. (n + 1)
          PROVE  \E k \in 1 .. Len(list) : Prints(list[k].name) /\ new[i] = list[k].key
      <4>1. CASE i \in 1 .. n
        <5>1. new[i] = printed[i]
          BY ONLY <3>1, <4>1
        <5>2. \E k \in 1 .. Len(list) : Prints(list[k].name) /\ printed[i] = list[k].key
          BY ONLY <1>4, <4>1
        <5> QED
          BY ONLY <5>1, <5>2
      <4>2. CASE i = n + 1
        <5>1. Prints(list[at].name) /\ new[i] = list[at].key
          BY ONLY <1>1, <2>2, <3>1, <4>2
        <5> QED
          BY ONLY <1>2, <5>1
      <4> QED
        BY <3>2, <4>1, <4>2
    <3>6. ASSUME NEW k \in 1 .. Len(list), Prints(list[k].name), k < at + 1
          PROVE  \E i \in 1 .. (n + 1) : new[i] = list[k].key
      <4>1. CASE k < at
        BY ONLY <1>4, <3>1, <3>3, <3>6, <4>1
      <4>2. CASE k = at
        BY ONLY <1>1, <3>1, <3>4, <4>2
      <4> QED
        BY <1>6, <3>6, <4>1, <4>2
    <3> QED
      BY ONLY <3>1, <3>5, <3>6
  <2> QED
    BY <2>1, <2>2
<1>8. PrintOK' <=>
        /\ pc' = "print" => mode' \in {"naqslist", "list"}
        /\ pc' \in {"subset", "receive", "handled"} => mode' \in {"pds", "dap"}
        /\ pc' \in {"start", "precis", "info"} => new = <<>>
        /\ \A i \in 1 .. Len(new) : \E k \in 1 .. Len(list) : Prints(list[k].name) /\ new[i] = list[k].key
        /\ \A k \in 1 .. Len(list) :
             /\ Prints(list[k].name)
             /\ (pc' = "print" /\ k < idx') \/ (pc' = "exit" /\ mode' \in {"naqslist", "list"})
             => \E i \in 1 .. Len(new) : new[i] = list[k].key
  BY ONLY <1>1, <1>5 DEF PrintOK
<1> QED
  BY ONLY <1>2, <1>4, <1>7, <1>8

LEMMA PrintEndSelects ==
  ASSUME ChanTypes, Selecting, PrintEnd
  PROVE  PrintOK'
<1>1. /\ pc = "print" /\ pc' = "exit" /\ idx > Len(ListToPrint)
      /\ UNCHANGED <<mode, server, patterns, idx, channels, meta, printed>>
  BY DEF PrintEnd, lists
<1>2. ListToPrint' = ListToPrint /\ \A x : Prints(x)' <=> Prints(x)
  BY <1>1, Kept DEF ListToPrint
<1>3. Len(ListToPrint) \in Nat /\ idx \in Nat
  BY DEF ChanTypes, ListToPrint
<1>4. \A k \in 1 .. Len(ListToPrint) : k < idx
  BY <1>1, <1>3
<1> QED
  BY <1>1, <1>2, <1>4 DEF Selecting, PrintOK

LEMMA HandlingSelects ==
  ASSUME ChanTypes, Selecting, Handling
  PROVE  Selecting'
<1>1. UNCHANGED <<mode, server, patterns, idx, channels, meta, pat, ret, subset, printed>>
  BY DEF Handling, lists, matching
<1>2. /\ Used' = Used /\ \A k, q : MatchOf(k, q)' = MatchOf(k, q)
      /\ \A x : Prints(x)' <=> Prints(x)
      /\ \A key : InSubset(key)' <=> InSubset(key)
      /\ ListToPrint' = ListToPrint
  BY <1>1, Kept DEF MatchOf, InSubset, ListToPrint
<1>3. SubsetOK'
  BY <1>1, SubsetSame DEF Selecting
<1>4. CASE UNCHANGED pc
  <2>1. ListOK' /\ LoopOK' /\ PrintOK'
    BY <1>1, <1>2, <1>4 DEF Selecting, ListOK, LoopOK, PrintOK, Read
  <2> QED
    BY <1>3, <2>1 DEF Selecting
<1>5. CASE pc \in {"receive", "handled"} /\ pc' \in {"receive", "handled", "exit"}
  <2>1. mode \in {"pds", "dap"}
    BY <1>5 DEF Selecting, PrintOK
  <2>2. ListOK'
    BY <1>1, <1>5, ListSame DEF Selecting
  <2>3. LoopOK' /\ PrintOK'
    BY <1>1, <1>2, <1>5, <2>1 DEF Selecting, LoopOK, PrintOK
  <2> QED
    BY <1>3, <2>2, <2>3 DEF Selecting
<1> QED
  BY <1>4, <1>5 DEF Handling

LEMMA SelectingNext == ChanTypes /\ Selecting /\ [Next]_vars => Selecting'
<1> SUFFICES ASSUME ChanTypes, Selecting, [Next]_vars PROVE Selecting'
  OBVIOUS
<1>1. CASE GetType
  BY <1>1, GetTypeSelects, ReadingKeeps DEF GetType, Selecting
<1>2. CASE FromNaqs
  BY <1>2, FromNaqsSelects, ReadingKeeps DEF FromNaqs, Selecting
<1>3. CASE AddItem
  <2>1. ListOK'
    BY <1>3 DEF AddItem, Selecting, ListOK
  <2> QED
    BY <1>3, <2>1, ReadingKeeps DEF AddItem, Selecting
<1>4. CASE FromDataServer
  BY <1>4, FromDataServerSelects, ReadingKeeps DEF FromDataServer, Selecting
<1>5. CASE Precis
  BY <1>5, ListSame, ReadingKeeps DEF Precis, Selecting
<1>6. CASE PrecisEnd
  BY <1>6, ListSame, ReadingKeeps DEF PrecisEnd, Selecting, lists
<1>7. CASE Info
  BY <1>7, ListSame, ReadingKeeps DEF Info, Selecting
<1>8. CASE InfoEnd
  BY <1>8, ListSame, ReadingKeeps DEF InfoEnd, Selecting, ChanTypes, lists
<1>9. CASE MatchOne
  BY <1>9, ListSame, MatchOneSelects DEF MatchOne, Selecting, lists
<1>10. CASE NextPattern
  <2>1. PrintOK'
    <3>1. UNCHANGED <<pc, mode, patterns, channels, meta, printed>> /\ pc = "subset"
      BY <1>10 DEF NextPattern, lists
    <3>2. ListToPrint' = ListToPrint /\ \A x : Prints(x)' <=> Prints(x)
      BY <3>1, Kept DEF ListToPrint
    <3> QED
      BY <3>1, <3>2 DEF Selecting, PrintOK
  <2> QED
    BY <1>10, <2>1, ListSame, SubsetSame, NextPatternSelects DEF NextPattern, Selecting, lists
<1>11. CASE Selected
  BY <1>11, ListSame, SubsetSame, SelectedSelects DEF Selected, Selecting, lists, matching
<1>12. CASE PrintOne
  <2>1. LoopOK'
    BY <1>12 DEF PrintOne, LoopOK, matching
  <2> QED
    BY <1>12, <2>1, ListSame, SubsetSame, PrintOneSelects DEF PrintOne, Selecting, lists, matching
<1>13. CASE PrintEnd
  <2>1. LoopOK'
    BY <1>13 DEF PrintEnd, LoopOK, matching
  <2> QED
    BY <1>13, <2>1, ListSame, SubsetSame, PrintEndSelects DEF PrintEnd, Selecting, lists, matching
<1>14. CASE Handling
  BY <1>14, HandlingSelects
<1> QED
  BY <1>1, <1>2, <1>3, <1>4, <1>5, <1>6, <1>7, <1>8, <1>9, <1>10, <1>11, <1>12, <1>13, <1>14,
     HandlingOrChannels DEF ChanNext

LEMMA SelectingInductive == Spec => [](ChanTypes /\ MetaOK /\ Selecting)
<1>1. Init => ChanTypes /\ MetaOK /\ Selecting
  BY ChanTypesInit, MetaInit, SelectingInit
<1>2. (ChanTypes /\ MetaOK /\ Selecting) /\ [Next]_vars => (ChanTypes /\ MetaOK /\ Selecting)'
  BY ChanTypesNext, MetaNext, SelectingNext
<1> QED
  BY <1>1, <1>2, PTL DEF Spec

LEMMA UsedIsInitial ==
  ASSUME ChanTypes
  PROVE  /\ Used \subseteq Nat \ {0}
         /\ \A q \in Used : \A j \in 1 .. q : j \in Used
<1>1. patterns \in Seq(Seq(Code)) /\ Len(patterns) \in Nat /\ DOMAIN patterns = 1 .. Len(patterns)
  BY DEF ChanTypes, ServerIs
<1>2. ASSUME NEW q \in Used, NEW j \in 1 .. q PROVE j \in Used
  <2>1. q \in 1 .. Len(patterns) /\ \A i \in 1 .. q : patterns[i] # NoPattern
    BY <1>1 DEF Used
  <2>2. j \in 1 .. Len(patterns) /\ \A i \in 1 .. j : i \in 1 .. q
    BY <1>1, <2>1
  <2> QED
    BY <1>1, <2>1, <2>2 DEF Used
<1> QED
  BY <1>1, <1>2 DEF Used

\* With patterns and names that can be read, what the options -l and -L print is
\* what a pattern selects.
LEMMA PrintsIsFirstMatch ==
  ASSUME ChanTypes, WellFormed, NEW k \in 1 .. Len(server)
  PROVE  Prints(server[k].name) <=> FirstMatch(server[k]) # {}
<1> DEFINE name == server[k].name
<1>1. name.cha = NoCode \/ ValidName(name)
  BY DEF WellFormed, ChanTypes, ServerIs
<1>2. \A q \in Used : ValidPattern(patterns[q])
  BY DEF WellFormed
<1> HIDE DEF name
<1>3. \A q \in Used : \A j \in 1 .. (q - 1) : j \in Used
  <2> SUFFICES ASSUME NEW q \in Used, NEW j \in 1 .. (q - 1) PROVE j \in Used
    OBVIOUS
  <2>1. j \in 1 .. q
    BY UsedIsInitial
  <2> QED
    BY <2>1, UsedIsInitial
<1>4. ASSUME NEW q \in Used, NEW p \in Used, Match(name, patterns[p]) = 1
      PROVE  Match(name, patterns[q]) \in {0, 1}
  <2>1. name.cha # NoCode /\ ValidName(name) /\ ValidPattern(patterns[q])
    BY <1>2, <1>4, MatchIs
  <2>2. \A n, p1 : /\ Match(n, p1) \in {-2, -1, 0, 1}
                   /\ Match(n, p1) = -1 => ~ValidPattern(p1) \/ (n.cha # NoCode /\ ~ValidName(n))
                   /\ Match(n, p1) = -2 => n.cha = NoCode
    BY MatchIs
  <2> QED
    BY <2>1, <2>2
<1>5. ASSUME NEW p \in Used, Match(name, patterns[p]) = 1
      PROVE  \A j \in 1 .. (p - 1) : Match(name, patterns[j]) = 0 <=> Match(name, patterns[j]) # 1
  BY <1>3, <1>4, <1>5
<1>6. Prints(name) <=> \E p \in Used : /\ Match(name, patterns[p]) = 1
                                       /\ \A j \in 1 .. (p - 1) : Match(name, patterns[j]) = 0
  BY DEF Prints
<1>7. FirstMatch(server[k]) # {} <=> \E p \in Used : /\ Match(name, patterns[p]) = 1
                                                    /\ \A j \in 1 .. (p - 1) : Match(name, patterns[j]) # 1
  BY DEF FirstMatch, name
<1>8. Prints(name) <=> FirstMatch(server[k]) # {}
  BY ONLY <1>5, <1>6, <1>7
<1> QED
  BY <1>8 DEF name

\* nmxp_chan_subset() and the lists of -l and -L, for every server and every
\* argument of -C: nothing is selected twice, or by another pattern than the first
\* that matches; if all can be read, nothing that matches is left out, and the
\* lists show what would be selected.
THEOREM SelectionIsRight == Spec => []SelectionRight
<1>1. ASSUME ChanTypes, MetaOK, Selecting PROVE SelectionRight
  <2>1. /\ subset \in Seq(Selections) /\ server \in Seq(ServerChannel)
        /\ DOMAIN subset = 1 .. Len(subset) /\ DOMAIN server = 1 .. Len(server)
        /\ ToSet(server) = {server[k] : k \in 1 .. Len(server)}
    <3>1. subset \in Seq(Selections) /\ server \in Seq(ServerChannel)
      BY <1>1 DEF ChanTypes, ServerIs
    <3>2. DOMAIN subset = 1 .. Len(subset) /\ DOMAIN server = 1 .. Len(server)
      BY <3>1
    <3> QED
      BY <3>1, <3>2 DEF ToSet
  <2>2. \A c : c \in Series <=> \E k \in 1 .. Len(server) : c = server[k] /\ IsSeries(server[k])
    BY <2>1 DEF Series
  <2>3. SelectedOnce
    BY <1>1, <2>1 DEF Selecting, SubsetOK, SelectedOnce
  <2>4. SelectedByFirst
    <3> SUFFICES ASSUME NEW i \in 1 .. Len(subset)
                 PROVE  \E c \in Series : \E p \in FirstMatch(c) : subset[i] = Named(c, patterns[p])
      BY <2>1 DEF SelectedByFirst
    <3>1. PICK k \in 1 .. Len(server) :
            IsSeries(server[k]) /\ \E p \in FirstMatch(server[k]) : subset[i] = Named(server[k], patterns[p])
      BY <1>1 DEF Selecting, SubsetOK
    <3> QED
      BY <2>2, <3>1
  <2>5. NoneLeftOut
    <3> SUFFICES ASSUME WellFormed, pc \in {"receive", "handled"}, NEW c \in Series, NEW p \in FirstMatch(c)
                 PROVE  InSubset(c.key)
      BY <2>1 DEF NoneLeftOut, InSubset
    <3>1. PICK k \in 1 .. Len(server) : c = server[k] /\ IsSeries(server[k])
      BY <2>2
    <3>2. PICK i \in 1 .. Len(channels) : channels[i] = c
      BY <1>1, <3>1 DEF Selecting, ListOK, Read
    <3>3. p \in Used /\ MatchOf(i, p) = 1 /\ IsSeries(channels[i]) /\ channels[i].key = c.key
      BY <3>1, <3>2 DEF FirstMatch, MatchOf
    <3>4. ASSUME NEW j \in 1 .. (i - 1) PROVE MatchOf(j, p) # -1
      <4>1. j \in 1 .. Len(channels)
        BY <1>1 DEF ChanTypes
      <4>2. PICK l \in 1 .. Len(server) : channels[j] = server[l]
        BY <1>1, <4>1 DEF Selecting, ListOK
      <4>3. server[l].name.cha = NoCode \/ ValidName(server[l].name)
        BY <2>1 DEF WellFormed
      <4>4. ValidPattern(patterns[p])
        BY <3>3 DEF WellFormed
      <4> QED
        BY <4>2, <4>3, <4>4, MatchIs DEF MatchOf
    <3>5. p \in 1 .. (pat - 1)
      <4>1. pat \notin Used /\ pat \in Nat \ {0} /\ p \in Nat \ {0}
        BY <1>1, <3>3, UsedIsInitial DEF Selecting, LoopOK, ChanTypes
      <4>2. ~(pat \in 1 .. p)
        BY <1>1, <3>3, <4>1, UsedIsInitial
      <4> QED
        BY <4>1, <4>2
    <3>6. \A q \in 1 .. (pat - 1), n \in 1 .. Len(channels) :
            /\ IsSeries(channels[n]) /\ MatchOf(n, q) = 1
            /\ \A j \in 1 .. (n - 1) : MatchOf(j, q) # -1
            => InSubset(channels[n].key)
      BY <1>1 DEF Selecting, LoopOK
    <3>7. InSubset(channels[i].key)
      BY ONLY <3>3, <3>4, <3>5, <3>6
    <3> QED
      BY <3>2, <3>7
  <2>6. PrintedAreSelected
    <3> SUFFICES ASSUME WellFormed, pc = "exit", mode \in {"list", "naqslist"}
                 PROVE  ToSet(printed) = {c.key : c \in {d \in Series : FirstMatch(d) # {}}}
      BY DEF PrintedAreSelected
    <3>1. ToSet(printed) = {printed[i] : i \in 1 .. Len(printed)}
      <4>1. printed \in Seq(Nat)
        BY <1>1 DEF ChanTypes
      <4> QED
        BY <4>1 DEF ToSet
    <3>2. /\ \A i \in 1 .. Len(printed) : \E k \in 1 .. Len(ListToPrint) :
               Prints(ListToPrint[k].name) /\ printed[i] = ListToPrint[k].key
          /\ \A k \in 1 .. Len(ListToPrint) :
               Prints(ListToPrint[k].name) => \E i \in 1 .. Len(printed) : printed[i] = ListToPrint[k].key
      BY <1>1 DEF Selecting, PrintOK
    \* What is on the list is what the server has.
    <3>3. /\ \A k \in 1 .. Len(ListToPrint) : \E l \in 1 .. Len(server) :
               /\ IsSeries(server[l])
               /\ ListToPrint[k].key = server[l].key /\ ListToPrint[k].name = server[l].name
          /\ \A l \in 1 .. Len(server) : IsSeries(server[l]) => \E k \in 1 .. Len(ListToPrint) :
               ListToPrint[k].key = server[l].key /\ ListToPrint[k].name = server[l].name
      <4>1. CASE mode = "list"
        <5>1. ListToPrint = meta
          BY <4>1 DEF ListToPrint
        <5>2. /\ \A k \in 1 .. Len(server) : IsSeries(server[k]) => \E m \in 1 .. Len(meta) : From(m, k)
              /\ \A m \in 1 .. Len(meta) : \E k \in 1 .. Len(server) : IsSeries(server[k]) /\ From(m, k)
          BY <1>1, <4>1, MetaRead
        <5> QED
          BY <5>1, <5>2 DEF From
      <4>2. CASE mode = "naqslist"
        <5>1. ListToPrint = channels
          BY <4>2 DEF ListToPrint
        <5>2. /\ \A i \in 1 .. Len(channels) : \E k \in 1 .. Len(server) : channels[i] = server[k]
              /\ \A i \in 1 .. Len(channels) : IsSeries(channels[i])
              /\ \A k \in 1 .. Len(server) :
                   IsSeries(server[k]) => \E i \in 1 .. Len(channels) : channels[i] = server[k]
          BY <1>1, <4>2 DEF Selecting, ListOK, Read
        <5>3. \A i \in 1 .. Len(channels), k \in 1 .. Len(server) :
                channels[i] = server[k] => /\ channels[i].key = server[k].key
                                           /\ channels[i].name = server[k].name
                                           /\ IsSeries(channels[i]) => IsSeries(server[k])
          OBVIOUS
        <5> QED
          BY ONLY <5>1, <5>2, <5>3
      <4> QED
        BY <4>1, <4>2
    <3>4. \A l \in 1 .. Len(server) : Prints(server[l].name) <=> FirstMatch(server[l]) # {}
      BY <1>1, PrintsIsFirstMatch
    <3>5. ASSUME NEW i \in 1 .. Len(printed)
          PROVE  \E c \in {d \in Series : FirstMatch(d) # {}} : printed[i] = c.key
      <4>1. PICK k \in 1 .. Len(ListToPrint) : Prints(ListToPrint[k].name) /\ printed[i] = ListToPrint[k].key
        BY <3>2
      <4>2. PICK l \in 1 .. Len(server) :
              /\ IsSeries(server[l])
              /\ ListToPrint[k].key = server[l].key /\ ListToPrint[k].name = server[l].name
        BY <3>3
      <4>3. server[l] \in Series /\ FirstMatch(server[l]) # {}
        BY <2>2, <3>4, <4>1, <4>2
      <4> QED
        BY <4>1, <4>2, <4>3
    <3>6. ASSUME NEW c \in Series, FirstMatch(c) # {}
          PROVE  \E i \in 1 .. Len(printed) : printed[i] = c.key
      <4>1. PICK l \in 1 .. Len(server) : c = server[l] /\ IsSeries(server[l])
        BY <2>2
      <4>2. PICK k \in 1 .. Len(ListToPrint) :
              ListToPrint[k].key = server[l].key /\ ListToPrint[k].name = server[l].name
        BY <3>3, <4>1
      <4>3. Prints(ListToPrint[k].name)
        BY <3>4, <3>6, <4>1, <4>2
      <4> QED
        BY <3>2, <4>1, <4>2, <4>3
    <3> QED
      BY <3>1, <3>5, <3>6
  <2> QED
    BY <2>3, <2>4, <2>5, <2>6 DEF SelectionRight
<1> QED
  BY <1>1, SelectingInductive, PTL

-----------------------------------------------------------------------------
(* Recursive functions                                                     *)

\* A function on 0 .. n is defined by its first value and the steps to the next.
Recurs(f, n, S, base, R) ==
  f \in [0 .. n -> S] /\ f[0] = base /\ \A b \in 1 .. n : f[b] = R[b][f[b - 1]]

LEMMA RecursionExists ==
  ASSUME NEW n \in Nat, NEW S, NEW base \in S, NEW R \in [1 .. n -> [S -> S]]
  PROVE  \E f : Recurs(f, n, S, base, R)
<1> DEFINE Solves(f, m) == f \in [0 .. m -> S] /\ f[0] = base /\ \A b \in 1 .. m : f[b] = R[b][f[b - 1]]
           T == {m \in 0 .. n : \E f : Solves(f, m)}
<1>1. 0 \in T
  <2>1. Solves([b \in 0 .. 0 |-> base], 0)
    OBVIOUS
  <2> HIDE DEF Solves
  <2> QED
    BY <2>1
<1>2. ASSUME NEW k \in 0 .. (n - 1), k \in T PROVE k + 1 \in T
  <2>1. PICK f : Solves(f, k)
    BY <1>2
  <2> DEFINE g == [b \in 0 .. (k + 1) |-> IF b = k + 1 THEN R[k + 1][f[k]] ELSE f[b]]
  <2>2. k \in Nat /\ k + 1 \in 1 .. n /\ k + 1 \in 0 .. n /\ f[k] \in S
    BY <2>1
  <2>3. R[k + 1][f[k]] \in S
    BY <2>2
  <2>4. \A b \in 0 .. (k + 1) : b = k + 1 \/ (b # k + 1 /\ b \in 0 .. k)
    BY <2>2
  <2>5. g \in [0 .. (k + 1) -> S]
    BY <2>1, <2>3, <2>4
  <2>6. g[k + 1] = R[k + 1][f[k]] /\ \A b \in 0 .. k : g[b] = f[b]
    BY <2>2
  <2> HIDE DEF g
  <2>7. ASSUME NEW b \in 1 .. (k + 1) PROVE g[b] = R[b][g[b - 1]]
    <3>1. CASE b = k + 1
      <4>1. b - 1 = k /\ k \in 0 .. k
        BY <2>2, <3>1
      <4> QED
        BY <2>6, <3>1, <4>1
    <3>2. CASE b # k + 1
      <4>1. b \in 1 .. k /\ b \in 0 .. k /\ b - 1 \in 0 .. k
        BY <2>2, <3>2
      <4> QED
        BY <2>1, <2>6, <4>1
    <3> QED
      BY <3>1, <3>2
  <2>8. g[0] = base
    <3>1. 0 \in 0 .. k
      BY <2>2
    <3> QED
      BY <2>1, <2>6, <3>1
  <2>9. Solves(g, k + 1)
    BY <2>5, <2>7, <2>8
  <2> QED
    BY <2>2, <2>9
<1> HIDE DEF Solves
<1>3. n \in T
  <2> DEFINE U == T
  <2> HIDE DEF U
  <2>1. 0 \in U /\ \A k \in 0 .. (n - 1) : k \in U => k + 1 \in U
    BY ONLY <1>1, <1>2 DEF U
  <2>2. 0 .. n \subseteq U
    BY ONLY <2>1, n \in Nat, IntervalInduction
  <2>3. n \in U
    BY <2>2
  <2> QED
    BY <2>3 DEF U
<1> QED
  BY <1>3 DEF Solves, Recurs

\* One turn of the loop over the bundles.
UnpackOne(acc, bundle) ==
  IF acc.done THEN acc
  ELSE IF ~HasRoom(Len(acc.out)) THEN [acc EXCEPT !.done = TRUE, !.exit = TRUE]
  ELSE IF IsNull(bundle) THEN [acc EXCEPT !.done = TRUE]
  ELSE [acc EXCEPT !.out = Unpack(@, bundle)]

\* What the loop has after the last whole bundle, and what it does with a part of one.
Unpacked(x0, bundles) ==
  (CHOOSE u : u = [b \in 0 .. Len(bundles) |->
     IF b = 0 THEN [out |-> <<x0>>, done |-> FALSE, exit |-> FALSE]
     ELSE UnpackOne(u[b - 1], bundles[b])])[Len(bundles)]
AtEnd(acc, partial) == [acc EXCEPT !.exit = @ \/ (partial /\ ~acc.done)]

Differences(field) == [i \in DOMAIN field.raw |-> Signed(field.raw[i], Size(field.kind))]
AllDifferences(bundle) ==
  Differences(bundle[1]) \o Differences(bundle[2]) \o Differences(bundle[3]) \o Differences(bundle[4])

LEMMA UnpackAllIs ==
  ASSUME NEW x0, NEW bundles, NEW partial
  PROVE  UnpackAll(x0, bundles, partial) = AtEnd(Unpacked(x0, bundles), partial)
BY DEF UnpackAll, UnpackOne, Unpacked, AtEnd

LEMMA UnpackIs ==
  ASSUME NEW out, NEW bundle
  PROVE  Unpack(out, bundle) =
           out \o [i \in 1 .. Len(AllDifferences(bundle)) |->
                     (CHOOSE s : s = [j \in 0 .. Len(AllDifferences(bundle)) |->
                        IF j = 0 THEN Last(out) ELSE s[j - 1] + AllDifferences(bundle)[j]])[i]]
BY DEF Unpack, AllDifferences, Differences

\* One field of a packet.
Fit(series, at, k, off) ==
  /\ at + off + Count(k) <= Len(series)
  /\ \A i \in 1 .. Count(k) : Fits(series[at + off + i] - series[at + off + i - 1], Size(k))
Field(series, at, k, off) ==
  [kind |-> k,
   raw |-> [i \in 1 .. Count(k) |-> Unsigned(series[at + off + i] - series[at + off + i - 1], Size(k))]]
EncodeOne(series, at, least, acc) ==
  LET K == {k \in least .. 3 : Fit(series, at, k, acc.off)}
      k == CHOOSE j \in K : \A l \in K : j <= l
  IN  IF K = {} THEN acc
      ELSE [off |-> acc.off + Count(k), fields |-> Append(acc.fields, Field(series, at, k, acc.off))]

LEMMA EncodedIs ==
  ASSUME NEW series, NEW at, NEW n, NEW least
  PROVE  Encoded(series, at, n, least) =
           (CHOOSE p : p = [f \in 0 .. n |->
              IF f = 0 THEN [off |-> 0, fields |-> <<>>]
              ELSE EncodeOne(series, at, least, p[f - 1])])[n]
BY DEF Encoded, EncodeOne, Fit, Field

-----------------------------------------------------------------------------
(* Numbers of some bytes                                                   *)

\* A number that fits is read as it was written.
LEMMA SignedIsInverse ==
  ASSUME NEW size \in Nat, size > 0, size % 2 = 0, NEW v \in Int, Fits(v, size)
  PROVE  Unsigned(v, size) \in Nat /\ Signed(Unsigned(v, size), size) = v
<1> DEFINE h == size \div 2
<1>1. h \in Nat /\ size = 2 * h
  OBVIOUS
<1>2. -h <= v /\ v < h
  BY DEF Fits
<1>3. CASE v >= 0
  <2>1. v \in 0 .. (size - 1)
    BY <1>1, <1>2, <1>3
  <2>2. v % size = v
    BY <2>1
  <2> QED
    BY <1>1, <1>2, <2>2 DEF Unsigned, Signed
<1>4. CASE v < 0
  <2>1. v + size \in 0 .. (size - 1) /\ v + size >= h /\ (v + size) - size = v
    BY <1>1, <1>2, <1>4
  <2>2. v % size = v + size
    BY <2>1
  <2> QED
    BY <1>1, <1>2, <2>1, <2>2 DEF Unsigned, Signed
<1> QED
  BY <1>3, <1>4

LEMMA EvenProduct ==
  ASSUME NEW m \in Nat, NEW n \in Nat, m > 0, n > 0, m % 2 = 0
  PROVE  m * n \in Nat /\ m * n > 0 /\ (m * n) % 2 = 0
<1>1. PICK h \in Nat : m = 2 * h
  OBVIOUS
<1>2. h * n \in Nat /\ m * n = 2 * (h * n) /\ m * n > 0
  BY <1>1
<1>3. \A p \in Nat : 2 * p \in Nat /\ (2 * p) % 2 = 0
  OBVIOUS
<1> QED
  BY ONLY <1>2, <1>3

LEMMA SizesAreEven ==
  /\ \A n \in 1 .. 4 : Word(n) \in Nat /\ Word(n) > 0 /\ Word(n) % 2 = 0
  /\ \A k \in Kinds : Size(k) \in Nat /\ Size(k) > 0 /\ Size(k) % 2 = 0
  /\ X0Size \in Nat /\ X0Size > 0 /\ X0Size % 2 = 0
<1> DEFINE B == ByteValues
<1>1. B \in Nat /\ B > 0 /\ B % 2 = 0
  BY BytesAssumption
<1> HIDE DEF B
<1> DEFINE B2 == B * B
<1>2. B2 \in Nat /\ B2 > 0 /\ B2 % 2 = 0
  BY <1>1, EvenProduct
<1> HIDE DEF B2
<1> DEFINE B3 == B2 * B
<1>3. B3 \in Nat /\ B3 > 0 /\ B3 % 2 = 0
  BY <1>1, <1>2, EvenProduct
<1> HIDE DEF B3
<1> DEFINE B4 == B3 * B
<1>4. B4 \in Nat /\ B4 > 0 /\ B4 % 2 = 0
  BY <1>1, <1>3, EvenProduct
<1> HIDE DEF B4
<1>5. \A n : Word(n) = <<B, B2, B3, B4>>[n]
  BY DEF Word, B, B2, B3, B4
<1>6. Word(1) = B /\ Word(2) = B2 /\ Word(3) = B3 /\ Word(4) = B4
  BY <1>5
<1>7. \A n \in 1 .. 4 : n = 1 \/ n = 2 \/ n = 3 \/ n = 4
  OBVIOUS
<1>8. \A n \in 1 .. 4 : Word(n) \in Nat /\ Word(n) > 0 /\ Word(n) % 2 = 0
  BY <1>1, <1>2, <1>3, <1>4, <1>6, <1>7
<1>9. \A k \in Kinds : <<1, 1, 2, 4>>[k + 1] \in 1 .. 4
  BY DEF Kinds
<1> QED
  BY <1>8, <1>9 DEF Size, X0Size

LEMMA CountIs ==
  /\ Count(0) = 0 /\ Count(1) = 4 /\ Count(2) = 2 /\ Count(3) = 1
  /\ \A k \in Kinds : Count(k) \in 0 .. 4
BY DEF Count, Kinds

-----------------------------------------------------------------------------
(* Unpacking a bundle                                                      *)

FieldType == {x \in [kind : Kinds, raw : Seq(Nat)] : Len(x.raw) = Count(x.kind)}
Bundle == [1 .. Fields -> FieldType]
OutType == Seq(Int) \ {<<>>}

LEMMA DifferencesType ==
  ASSUME NEW field \in FieldType
  PROVE  /\ Differences(field) \in Seq(Int)
         /\ Len(Differences(field)) = Count(field.kind)
         /\ Count(field.kind) \in 0 .. 4
         /\ \A j \in 1 .. Count(field.kind) : Differences(field)[j] = Signed(field.raw[j], Size(field.kind))
<1>1. field.kind \in Kinds /\ field.raw \in Seq(Nat) /\ Len(field.raw) = Count(field.kind)
  BY DEF FieldType
<1>2. Size(field.kind) \in Nat
  BY <1>1, SizesAreEven
<1>3. \A u \in Nat, size \in Nat : Signed(u, size) \in Int
  BY DEF Signed
<1>4. DOMAIN field.raw = 1 .. Len(field.raw) /\ \A j \in 1 .. Len(field.raw) : field.raw[j] \in Nat
  BY <1>1
<1>5. Count(field.kind) \in 0 .. 4
  BY <1>1, CountIs
<1>6. Differences(field) \in [1 .. Count(field.kind) -> Int]
  BY <1>1, <1>2, <1>3, <1>4 DEF Differences
<1>7. Differences(field) \in Seq(Int) /\ Len(Differences(field)) = Count(field.kind)
  BY <1>5, <1>6
<1> QED
  BY <1>1, <1>4, <1>5, <1>7 DEF Differences

\* The differences of the samples of w behind the x-th up to the y-th.
Steps(d, w, x, y) ==
  /\ d \in Seq(Int) /\ x \in Nat /\ y = x + Len(d)
  /\ \A j \in 1 .. Len(d) : d[j] = w[x + j] - w[(x + j) - 1]

LEMMA StepsConcat ==
  ASSUME NEW w, NEW d, NEW e, NEW x, NEW y, NEW z, Steps(d, w, x, y), Steps(e, w, y, z)
  PROVE  Steps(d \o e, w, x, z)
<1>1. /\ d \in Seq(Int) /\ e \in Seq(Int) /\ Len(d) \in Nat /\ Len(e) \in Nat /\ x \in Nat
      /\ y = x + Len(d) /\ z = y + Len(e)
      /\ \A j \in 1 .. Len(d) : d[j] = w[x + j] - w[(x + j) - 1]
      /\ \A j \in 1 .. Len(e) : e[j] = w[y + j] - w[(y + j) - 1]
  BY DEF Steps
<1>2. /\ d \o e \in Seq(Int)
      /\ Len(d \o e) = Len(d) + Len(e)
      /\ \A j \in 1 .. (Len(d) + Len(e)) : (d \o e)[j] = IF j <= Len(d) THEN d[j] ELSE e[j - Len(d)]
  BY ONLY <1>1, ConcatProperties
<1>3. z = x + Len(d \o e)
  BY <1>1, <1>2
<1>4. ASSUME NEW j \in 1 .. Len(d \o e)
      PROVE  (d \o e)[j] = w[x + j] - w[(x + j) - 1]
  <2>1. CASE j <= Len(d)
    BY <1>1, <1>2, <2>1
  <2>2. CASE ~(j <= Len(d))
    <3>1. j - Len(d) \in 1 .. Len(e) /\ y + (j - Len(d)) = x + j
      BY <1>1, <1>2, <2>2
    <3>2. (d \o e)[j] = e[j - Len(d)]
      BY <1>2, <2>2
    <3> QED
      BY <1>1, <3>1, <3>2
  <2> QED
    BY <2>1, <2>2
<1> QED
  BY <1>1, <1>2, <1>3, <1>4 DEF Steps

LEMMA AllDifferencesType ==
  ASSUME NEW bundle \in Bundle
  PROVE  AllDifferences(bundle) \in Seq(Int) /\ Len(AllDifferences(bundle)) \in 0 .. 16
<1>1. \A f \in {1, 2, 3, 4} : bundle[f] \in FieldType
  BY DEF Bundle, Fields
<1> DEFINE a == Differences(bundle[1])
           b == Differences(bundle[2])
           c == Differences(bundle[3])
           d == Differences(bundle[4])
<1>2. /\ a \in Seq(Int) /\ b \in Seq(Int) /\ c \in Seq(Int) /\ d \in Seq(Int)
      /\ Len(a) \in 0 .. 4 /\ Len(b) \in 0 .. 4 /\ Len(c) \in 0 .. 4 /\ Len(d) \in 0 .. 4
  BY <1>1, DifferencesType
<1> HIDE DEF a, b, c, d
<1>3. a \o b \in Seq(Int) /\ Len(a \o b) = Len(a) + Len(b)
  BY ONLY <1>2, ConcatProperties
<1>4. (a \o b) \o c \in Seq(Int) /\ Len((a \o b) \o c) = Len(a \o b) + Len(c)
  BY ONLY <1>2, <1>3, ConcatProperties
<1>5. ((a \o b) \o c) \o d \in Seq(Int) /\ Len(((a \o b) \o c) \o d) = Len((a \o b) \o c) + Len(d)
  BY ONLY <1>2, <1>4, ConcatProperties
<1>6. Len(((a \o b) \o c) \o d) = ((Len(a) + Len(b)) + Len(c)) + Len(d)
  BY ONLY <1>3, <1>4, <1>5
<1>7. \A i, j, k, l \in 0 .. 4 : ((i + j) + k) + l \in 0 .. 16
  OBVIOUS
<1>8. Len(((a \o b) \o c) \o d) \in 0 .. 16
  BY ONLY <1>2, <1>6, <1>7
<1> QED
  BY <1>5, <1>8 DEF AllDifferences, a, b, c, d

\* The samples of a bundle are sums of differences.
LEMMA UnpackEffect ==
  ASSUME NEW out \in OutType, NEW bundle \in Bundle
  PROVE  \E s \in [0 .. Len(AllDifferences(bundle)) -> Int] :
           /\ s[0] = Last(out)
           /\ \A i \in 1 .. Len(AllDifferences(bundle)) : s[i] = s[i - 1] + AllDifferences(bundle)[i]
           /\ Unpack(out, bundle) = out \o [i \in 1 .. Len(AllDifferences(bundle)) |-> s[i]]
<1> DEFINE d == AllDifferences(bundle)
           n == Len(d)
           Sum(s) == s = [j \in 0 .. n |-> IF j = 0 THEN Last(out) ELSE s[j - 1] + d[j]]
           R == [b \in 1 .. n |-> [x \in Int |-> x + d[b]]]
<1>1. d \in Seq(Int) /\ n \in Nat
  BY AllDifferencesType
<1>2. out \in Seq(Int) /\ out # <<>> /\ Last(out) \in Int
  <2>1. out \in Seq(Int) /\ out # <<>>
    BY DEF OutType
  <2>2. Len(out) \in 1 .. Len(out)
    BY <2>1
  <2> QED
    BY <2>1, <2>2 DEF Last
<1>3. Unpack(out, bundle) = out \o [i \in 1 .. n |-> (CHOOSE s : Sum(s))[i]]
  BY UnpackIs
<1> HIDE DEF d
<1>4. \A b \in 1 .. n : d[b] \in Int
  BY <1>1
<1>5. R \in [1 .. n -> [Int -> Int]]
  BY <1>4
<1>6. PICK f : Recurs(f, n, Int, Last(out), R)
  <2> HIDE DEF R
  <2>1. n \in Nat /\ Last(out) \in Int
    BY <1>1, <1>2
  <2> DEFINE S == Int
             base == Last(out)
             m == n
  <2> HIDE DEF S, base, m
  <2>2. m \in Nat /\ base \in S /\ R \in [1 .. m -> [S -> S]]
    BY <1>2, <1>5, <2>1 DEF S, base, m
  <2>3. \E f : Recurs(f, m, S, base, R)
    BY ONLY <2>2, RecursionExists
  <2> QED
    BY <2>3 DEF S, base, m
<1> HIDE DEF R
<1>13. f \in [0 .. n -> Int] /\ f[0] = Last(out) /\ \A b \in 1 .. n : f[b] = R[b][f[b - 1]]
  BY <1>6 DEF Recurs
<1> USE DEF R
<1>7. ASSUME NEW b \in 1 .. n
      PROVE  b - 1 \in 0 .. n /\ f[b - 1] \in Int /\ f[b] = f[b - 1] + d[b]
  <2>1. b - 1 \in 0 .. n
    BY <1>1
  <2>2. f[b - 1] \in Int
    BY <1>13, <2>1
  <2>3. \A x \in Int : R[b][x] = x + d[b]
    OBVIOUS
  <2>4. f[b] = R[b][f[b - 1]]
    BY <1>13
  <2> QED
    BY ONLY <2>1, <2>2, <2>3, <2>4
<1>8. Sum(f)
  <2>1. \A j \in 0 .. n : f[j] = IF j = 0 THEN Last(out) ELSE f[j - 1] + d[j]
    <3>1. \A j \in 0 .. n : j = 0 \/ j \in 1 .. n
      BY <1>1
    <3> QED
      BY <1>13, <1>7, <3>1
  <2> QED
    BY <1>13, <2>1
<1>9. PICK s : s = (CHOOSE t : Sum(t)) /\ Sum(s)
  BY <1>8
\* It is the only one.
<1>10. /\ s[0] = Last(out)
       /\ \A i \in 1 .. n : s[i] = s[i - 1] + d[i]
       /\ DOMAIN s = 0 .. n
  <2>1. 0 \in 0 .. n /\ \A i \in 1 .. n : i \in 0 .. n /\ i # 0
    BY <1>1
  <2> QED
    BY <1>9, <2>1
<1>11. s \in [0 .. n -> Int]
  <2> DEFINE T == {i \in 0 .. n : s[i] \in Int}
  <2>1. 0 \in T
    BY <1>1, <1>2, <1>10
  <2>2. ASSUME NEW i \in 0 .. (n - 1), i \in T PROVE i + 1 \in T
    <3>1. i + 1 \in 1 .. n /\ (i + 1) - 1 = i /\ i + 1 \in 0 .. n
      BY <1>1
    <3>2. s[i + 1] = s[i] + d[i + 1] /\ s[i] \in Int /\ d[i + 1] \in Int
      BY <1>4, <1>10, <2>2, <3>1
    <3> QED
      BY <3>1, <3>2
  <2>3. 0 .. n \subseteq T
    <3> HIDE DEF T
    <3> QED
      BY ONLY <1>1, <2>1, <2>2, IntervalInduction
  <2>4. \A i \in 0 .. n : s[i] \in Int
    BY <2>3
  <2>5. s = [j \in 0 .. n |-> s[j]]
    BY <1>9
  <2> QED
    BY <2>4, <2>5
<1>12. Unpack(out, bundle) = out \o [i \in 1 .. n |-> s[i]]
  BY <1>3, <1>9
<1> QED
  BY <1>10, <1>11, <1>12 DEF d

LEMMA UnpackType ==
  ASSUME NEW out \in OutType, NEW bundle \in Bundle
  PROVE  /\ Unpack(out, bundle) \in OutType
         /\ Len(Unpack(out, bundle)) <= Len(out) + 16
<1> DEFINE n == Len(AllDifferences(bundle))
<1>1. PICK s \in [0 .. n -> Int] : Unpack(out, bundle) = out \o [i \in 1 .. n |-> s[i]]
  BY UnpackEffect
<1>2. n \in 0 .. 16
  BY AllDifferencesType
<1> DEFINE e == [i \in 1 .. n |-> s[i]]
<1> HIDE DEF n
<1>3. e \in [1 .. n -> Int]
  BY <1>2
<1>4. e \in Seq(Int) /\ Len(e) = n
  BY <1>2, <1>3
<1> HIDE DEF e
<1>5. out \in Seq(Int) /\ Len(out) \in Nat /\ Len(out) > 0
  BY DEF OutType
<1>6. out \o e \in Seq(Int) /\ Len(out \o e) = Len(out) + n
  BY ONLY <1>4, <1>5, ConcatProperties
<1>7. out \o e # <<>>
  BY <1>2, <1>5, <1>6
<1> QED
  BY <1>1, <1>2, <1>5, <1>6, <1>7 DEF OutType, e

\* The samples of w from the a-th to the x-th.
Recorded(out, w, a, x) ==
  /\ out \in Seq(Int) /\ a \in Nat /\ x \in Nat /\ a <= x
  /\ Len(out) = (x - a) + 1
  /\ \A i \in 1 .. Len(out) : out[i] = w[(a + i) - 1]

\* A bundle with the differences up to y brings the samples up to y.
LEMMA UnpackRight ==
  ASSUME NEW w \in Seq(Int), NEW a, NEW x, NEW y, NEW out, NEW bundle \in Bundle,
         Recorded(out, w, a, x), Steps(AllDifferences(bundle), w, x, y), a >= 1, y <= Len(w)
  PROVE  Recorded(Unpack(out, bundle), w, a, y)
<1> DEFINE d == AllDifferences(bundle)
           n == Len(d)
<1>1. /\ out \in Seq(Int) /\ a \in Nat /\ x \in Nat /\ a <= x /\ a >= 1
      /\ Len(out) = (x - a) + 1 /\ Len(out) \in Nat
      /\ \A i \in 1 .. Len(out) : out[i] = w[(a + i) - 1]
  BY DEF Recorded
<1>2. out \in OutType
  BY <1>1 DEF OutType
<1>3. PICK s \in [0 .. n -> Int] :
        /\ s[0] = Last(out)
        /\ \A i \in 1 .. n : s[i] = s[i - 1] + d[i]
        /\ Unpack(out, bundle) = out \o [i \in 1 .. n |-> s[i]]
  BY <1>2, UnpackEffect
<1>4. d \in Seq(Int) /\ n \in Nat
  BY AllDifferencesType
<1>5. y = x + n /\ \A j \in 1 .. n : d[j] = w[x + j] - w[(x + j) - 1]
  BY DEF Steps
<1> HIDE DEF d, n
<1>6. \A j \in 0 .. n : x + j \in 1 .. Len(w) /\ w[x + j] \in Int
  <2>1. Len(w) \in Nat /\ \A k \in 1 .. Len(w) : w[k] \in Int
    OBVIOUS
  <2>2. \A j \in 0 .. n : x + j \in 1 .. Len(w)
    BY <1>1, <1>4, <1>5, <2>1
  <2> QED
    BY <2>1, <2>2
<1>7. s[0] = w[x]
  <2>1. Len(out) \in 1 .. Len(out) /\ (a + Len(out)) - 1 = x
    BY <1>1
  <2>2. Last(out) = out[Len(out)]
    BY DEF Last
  <2> QED
    BY <1>1, <1>3, <2>1, <2>2
<1>8. \A i \in 0 .. n : s[i] = w[x + i]
  <2> DEFINE T == {i \in 0 .. n : s[i] = w[x + i]}
  <2>1. 0 \in T
    BY <1>1, <1>4, <1>7
  <2>2. ASSUME NEW i \in 0 .. (n - 1), i \in T PROVE i + 1 \in T
    <3>1. i + 1 \in 1 .. n /\ i + 1 \in 0 .. n /\ (i + 1) - 1 = i /\ (x + (i + 1)) - 1 = x + i
      BY <1>1, <1>4
    <3>2. s[i + 1] = s[i] + d[i + 1] /\ s[i] = w[x + i] /\ d[i + 1] = w[x + (i + 1)] - w[x + i]
      BY <1>3, <1>5, <2>2, <3>1
    <3>3. w[x + i] \in Int /\ w[x + (i + 1)] \in Int
      <4>1. i \in 0 .. n
        BY <2>2
      <4> QED
        BY <1>6, <3>1, <4>1
    <3>4. s[i + 1] = w[x + (i + 1)]
      BY ONLY <3>2, <3>3
    <3> QED
      BY <3>1, <3>4
  <2>3. 0 .. n \subseteq T
    <3> HIDE DEF T
    <3> QED
      BY ONLY <1>4, <2>1, <2>2, IntervalInduction
  <2> QED
    BY <2>3
<1> DEFINE e == [i \in 1 .. n |-> s[i]]
<1>9. e \in [1 .. n -> Int] /\ \A i \in 1 .. n : e[i] = w[x + i]
  <2>1. \A i \in 1 .. n : i \in 0 .. n
    BY <1>4
  <2>2. \A i \in 1 .. n : e[i] = s[i] /\ s[i] = w[x + i] /\ s[i] \in Int
    BY <1>8, <2>1
  <2> QED
    BY <2>2
<1>10. e \in Seq(Int) /\ Len(e) = n
  BY <1>4, <1>9
<1> DEFINE r == out \o e
<1> HIDE DEF e
<1>11. /\ r \in Seq(Int)
       /\ Len(r) = Len(out) + n
       /\ \A i \in 1 .. (Len(out) + n) : r[i] = IF i <= Len(out) THEN out[i] ELSE e[i - Len(out)]
  BY ONLY <1>1, <1>10, ConcatProperties
<1> HIDE DEF r
<1>12. ASSUME NEW i \in 1 .. Len(r) PROVE r[i] = w[(a + i) - 1]
  <2>1. CASE i <= Len(out)
    <3>1. i \in 1 .. Len(out)
      BY <1>1, <2>1
    <3> QED
      BY <1>1, <1>11, <2>1, <3>1
  <2>2. CASE ~(i <= Len(out))
    <3>1. i - Len(out) \in 1 .. n /\ x + (i - Len(out)) = (a + i) - 1
      BY <1>1, <1>4, <1>11, <2>2
    <3>2. r[i] = e[i - Len(out)]
      BY <1>11, <2>2
    <3> QED
      BY <1>9, <3>1, <3>2
  <2> QED
    BY <2>1, <2>2
<1>13. y \in Nat /\ a <= y /\ Len(r) = (y - a) + 1
  BY <1>1, <1>4, <1>5, <1>11
<1>14. Unpack(out, bundle) = r
  BY <1>3 DEF r, e
<1> QED
  BY <1>1, <1>11, <1>12, <1>13, <1>14 DEF Recorded

-----------------------------------------------------------------------------
(* Unpacking a packet                                                      *)

Acc == [out : OutType, done : BOOLEAN, exit : BOOLEAN]

LEMMA UnpackOneType ==
  ASSUME NEW acc \in Acc, NEW bundle \in Bundle
  PROVE  UnpackOne(acc, bundle) \in Acc
<1>1. acc.out \in OutType /\ acc.done \in BOOLEAN /\ acc.exit \in BOOLEAN
  BY DEF Acc
<1>2. Unpack(acc.out, bundle) \in OutType
  BY <1>1, UnpackType
<1> DEFINE O == OutType
<1> HIDE DEF O
<1>3. acc \in [out : O, done : BOOLEAN, exit : BOOLEAN] /\ Unpack(acc.out, bundle) \in O
  BY <1>2 DEF O, Acc
<1>4. UnpackOne(acc, bundle) \in [out : O, done : BOOLEAN, exit : BOOLEAN]
  BY ONLY <1>3 DEF UnpackOne
<1> QED
  BY <1>4 DEF O, Acc

LEMMA UnpackAllEffect ==
  ASSUME NEW x0 \in Int, NEW bundles \in Seq(Bundle), NEW partial \in BOOLEAN
  PROVE  \E u : /\ u \in [0 .. Len(bundles) -> Acc]
                /\ u[0] = [out |-> <<x0>>, done |-> FALSE, exit |-> FALSE]
                /\ \A b \in 1 .. Len(bundles) : u[b] = UnpackOne(u[b - 1], bundles[b])
                /\ UnpackAll(x0, bundles, partial).out = u[Len(bundles)].out
                /\ UnpackAll(x0, bundles, partial).exit <=>
                     u[Len(bundles)].exit \/ (partial /\ ~u[Len(bundles)].done)
<1> DEFINE n == Len(bundles)
           base == [out |-> <<x0>>, done |-> FALSE, exit |-> FALSE]
           All(u) == u = [b \in 0 .. n |-> IF b = 0 THEN base ELSE UnpackOne(u[b - 1], bundles[b])]
           R == [b \in 1 .. n |-> [acc \in Acc |-> UnpackOne(acc, bundles[b])]]
<1>1. n \in Nat /\ \A b \in 1 .. n : bundles[b] \in Bundle
  OBVIOUS
<1>2. base \in Acc
  BY DEF Acc, OutType
<1>3. UnpackAll(x0, bundles, partial) = AtEnd((CHOOSE u : All(u))[n], partial)
  BY UnpackAllIs DEF Unpacked
<1> HIDE DEF n, base
<1>4. R \in [1 .. n -> [Acc -> Acc]]
  BY <1>1, UnpackOneType
<1>5. PICK f : Recurs(f, n, Acc, base, R)
  <2> HIDE DEF R
  <2> QED
    BY ONLY <1>1, <1>2, <1>4, RecursionExists
<1> HIDE DEF R
<1>6. f \in [0 .. n -> Acc] /\ f[0] = base /\ \A b \in 1 .. n : f[b] = R[b][f[b - 1]]
  BY <1>5 DEF Recurs
<1> USE DEF R
<1>7. ASSUME NEW b \in 1 .. n PROVE f[b] = UnpackOne(f[b - 1], bundles[b])
  <2>1. b - 1 \in 0 .. n
    BY <1>1
  <2>2. f[b - 1] \in Acc
    BY <1>6, <2>1
  <2>3. \A acc \in Acc : R[b][acc] = UnpackOne(acc, bundles[b])
    OBVIOUS
  <2>4. f[b] = R[b][f[b - 1]]
    BY <1>6
  <2> QED
    BY ONLY <2>2, <2>3, <2>4
<1>8. All(f)
  <2>1. \A j \in 0 .. n : j = 0 \/ j \in 1 .. n
    BY <1>1
  <2> HIDE DEF R
  <2>2. \A j \in 0 .. n : f[j] = IF j = 0 THEN base ELSE UnpackOne(f[j - 1], bundles[j])
    BY <1>6, <1>7, <2>1
  <2> QED
    BY <1>6, <2>2
<1>9. PICK u : u = (CHOOSE t : All(t)) /\ All(u)
  BY <1>8
<1>10. /\ u[0] = base
       /\ \A b \in 1 .. n : u[b] = UnpackOne(u[b - 1], bundles[b])
  <2>1. 0 \in 0 .. n /\ \A i \in 1 .. n : i \in 0 .. n /\ i # 0
    BY <1>1
  <2> QED
    BY <1>9, <2>1
<1>11. u \in [0 .. n -> Acc]
  <2> DEFINE T == {i \in 0 .. n : u[i] \in Acc}
  <2>1. 0 \in T
    BY <1>1, <1>2, <1>10
  <2>2. ASSUME NEW i \in 0 .. (n - 1), i \in T PROVE i + 1 \in T
    <3>1. i + 1 \in 1 .. n /\ (i + 1) - 1 = i /\ i + 1 \in 0 .. n
      BY <1>1
    <3>2. u[i + 1] = UnpackOne(u[i], bundles[i + 1]) /\ u[i] \in Acc /\ bundles[i + 1] \in Bundle
      BY <1>1, <1>10, <2>2, <3>1
    <3>3. u[i + 1] \in Acc
      BY <3>2, UnpackOneType
    <3> QED
      BY <3>1, <3>3
  <2>3. 0 .. n \subseteq T
    <3> HIDE DEF T
    <3> QED
      BY ONLY <1>1, <2>1, <2>2, IntervalInduction
  <2>4. \A i \in 0 .. n : u[i] \in Acc
    BY <2>3
  <2>5. u = [j \in 0 .. n |-> u[j]]
    BY <1>9
  <2> QED
    BY <2>4, <2>5
<1> HIDE DEF All, R
<1>12. u[n] \in Acc
  BY <1>1, <1>11
<1>13. /\ AtEnd(u[n], partial).out = u[n].out
       /\ AtEnd(u[n], partial).exit <=> u[n].exit \/ (partial /\ ~u[n].done)
  BY ONLY <1>12, partial \in BOOLEAN DEF AtEnd, Acc
<1> QED
  BY <1>3, <1>9, <1>10, <1>11, <1>13 DEF n, base

\* The program ends only at a packet that could be too large, or has a part of a
\* bundle at its end and no null bundle.
LEMMA ExitIfUnreadable ==
  ASSUME NEW x0 \in Int, NEW bundles \in Seq(Bundle), NEW partial \in BOOLEAN,
         UnpackAll(x0, bundles, partial).exit
  PROVE  \/ Len(bundles) * 4 * Fields + 1 > MaxOut
         \/ partial /\ \A b \in 1 .. Len(bundles) : ~IsNull(bundles[b])
<1> DEFINE n == Len(bundles)
<1>1. PICK u : /\ u \in [0 .. n -> Acc]
               /\ u[0] = [out |-> <<x0>>, done |-> FALSE, exit |-> FALSE]
               /\ \A b \in 1 .. n : u[b] = UnpackOne(u[b - 1], bundles[b])
               /\ UnpackAll(x0, bundles, partial).exit <=> u[n].exit \/ (partial /\ ~u[n].done)
  BY UnpackAllEffect
<1>2. n \in Nat /\ MaxOut \in Nat /\ \A b \in 1 .. n : bundles[b] \in Bundle
  BY BytesAssumption
<1> HIDE DEF n
<1> DEFINE T == {b \in 0 .. n : /\ Len(u[b].out) <= 16 * b + 1
                                /\ u[b].exit => 16 * b + 1 > MaxOut
                                /\ ~u[b].done => \A i \in 1 .. b : ~IsNull(bundles[i])}
<1>3. 0 \in T
  <2>1. u[0].out = <<x0>> /\ ~u[0].exit /\ Len(<<x0>>) = 1
    BY <1>1
  <2>2. Len(u[0].out) <= 16 * 0 + 1
    BY <2>1
  <2>3. 0 \in 0 .. n /\ 1 .. 0 = {}
    BY <1>2
  <2> QED
    BY ONLY <2>1, <2>2, <2>3
<1>4. ASSUME NEW b \in 0 .. (n - 1), b \in T PROVE b + 1 \in T
  <2>1. b \in Nat /\ b \in 0 .. n /\ b + 1 \in 1 .. n /\ b + 1 \in 0 .. n /\ (b + 1) - 1 = b
    BY <1>2
  <2>2. u[b + 1] = UnpackOne(u[b], bundles[b + 1]) /\ bundles[b + 1] \in Bundle /\ u[b] \in Acc
    BY <1>1, <1>2, <2>1
  <2>3. u[b].out \in OutType /\ Len(u[b].out) \in Nat
    BY <2>2 DEF Acc, OutType
  <2>4. /\ Len(Unpack(u[b].out, bundles[b + 1])) <= Len(u[b].out) + 16
        /\ Len(Unpack(u[b].out, bundles[b + 1])) \in Nat
    <3>1. Unpack(u[b].out, bundles[b + 1]) \in OutType
      BY <2>2, <2>3, UnpackType
    <3>2. Len(Unpack(u[b].out, bundles[b + 1])) <= Len(u[b].out) + 16
      BY <2>2, <2>3, UnpackType
    <3> QED
      BY <3>1, <3>2 DEF OutType
  <2>5. /\ Len(u[b].out) <= 16 * b + 1
        /\ u[b].exit => 16 * b + 1 > MaxOut
        /\ ~u[b].done => \A i \in 1 .. b : ~IsNull(bundles[i])
    BY <1>4
  <2>6. 16 * (b + 1) + 1 = (16 * b + 1) + 16
    BY <2>1
  <2>7. CASE u[b].done
    <3>1. u[b + 1] = u[b]
      BY <2>2, <2>7 DEF UnpackOne
    <3>2. Len(u[b + 1].out) <= 16 * (b + 1) + 1 /\ (u[b + 1].exit => 16 * (b + 1) + 1 > MaxOut)
      BY <1>2, <2>1, <2>3, <2>5, <2>6, <3>1
    <3> QED
      BY ONLY <2>1, <2>7, <3>1, <3>2
  <2>8. CASE ~u[b].done /\ ~HasRoom(Len(u[b].out))
    <3>1. u[b + 1].out = u[b].out /\ u[b + 1].done
      BY <2>2, <2>8 DEF UnpackOne, Acc
    <3>2. Len(u[b].out) + 16 > MaxOut
      BY <1>2, <2>3, <2>8 DEF HasRoom, Fields
    <3>3. 16 * (b + 1) + 1 > MaxOut
      BY <1>2, <2>1, <2>3, <2>5, <3>2
    <3> QED
      BY <2>1, <2>3, <2>5, <2>6, <3>1, <3>3
  <2>9. CASE ~u[b].done /\ HasRoom(Len(u[b].out)) /\ IsNull(bundles[b + 1])
    <3>1. u[b + 1].out = u[b].out /\ u[b + 1].exit = u[b].exit /\ u[b + 1].done
      BY <2>2, <2>9 DEF UnpackOne, Acc
    <3> QED
      BY <1>2, <2>1, <2>3, <2>5, <2>6, <3>1
  <2>10. CASE ~u[b].done /\ HasRoom(Len(u[b].out)) /\ ~IsNull(bundles[b + 1])
    <3>1. u[b + 1].out = Unpack(u[b].out, bundles[b + 1]) /\ u[b + 1].exit = u[b].exit
      BY <2>2, <2>10 DEF UnpackOne, Acc
    <3>2. \A i \in 1 .. (b + 1) : i \in 1 .. b \/ i = b + 1
      BY <2>1
    <3>3. \A i \in 1 .. (b + 1) : ~IsNull(bundles[i])
      BY ONLY <2>5, <2>10, <3>2
    <3>4. Len(u[b + 1].out) <= 16 * (b + 1) + 1 /\ (u[b + 1].exit => 16 * (b + 1) + 1 > MaxOut)
      BY <1>2, <2>1, <2>3, <2>4, <2>5, <2>6, <3>1
    <3> QED
      BY ONLY <2>1, <3>3, <3>4
  <2> QED
    BY <2>7, <2>8, <2>9, <2>10
<1>5. n \in T
  <2>1. 0 .. n \subseteq T
    <3> HIDE DEF T
    <3> QED
      BY ONLY <1>2, <1>3, <1>4, IntervalInduction
  <2> QED
    BY <1>2, <2>1
<1>6. 16 * n + 1 > MaxOut \/ (partial /\ \A b \in 1 .. n : ~IsNull(bundles[b]))
  BY <1>1, <1>5
<1>7. n * 4 * Fields = 16 * n
  BY <1>2 DEF Fields
<1> QED
  BY <1>6, <1>7 DEF n

\* If the first m bundles have the differences and the next one, if there is one, is
\* the null bundle, what is unpacked are the samples.
LEMMA UnpackAllRight ==
  ASSUME NEW w \in Seq(Int), NEW a \in 1 .. Len(w), NEW bundles \in Seq(Bundle),
         NEW m \in 0 .. Len(bundles), NEW pos, pos[0] = a,
         \A b \in 0 .. m : pos[b] <= Len(w),
         \A b \in 1 .. m : ~IsNull(bundles[b]) /\ Steps(AllDifferences(bundles[b]), w, pos[b - 1], pos[b]),
         m = Len(bundles) \/ IsNull(bundles[m + 1]),
         NEW partial \in BOOLEAN, ~UnpackAll(w[a], bundles, partial).exit
  PROVE  Recorded(UnpackAll(w[a], bundles, partial).out, w, a, pos[m])
<1> DEFINE n == Len(bundles)
<1>1. w[a] \in Int /\ a \in Nat /\ a >= 1 /\ n \in Nat /\ m \in Nat /\ m <= n
      /\ \A b \in 1 .. n : bundles[b] \in Bundle
  OBVIOUS
<1>2. PICK u : /\ u \in [0 .. n -> Acc]
               /\ u[0] = [out |-> <<w[a]>>, done |-> FALSE, exit |-> FALSE]
               /\ \A b \in 1 .. n : u[b] = UnpackOne(u[b - 1], bundles[b])
               /\ UnpackAll(w[a], bundles, partial).out = u[n].out
               /\ UnpackAll(w[a], bundles, partial).exit <=> u[n].exit \/ (partial /\ ~u[n].done)
  BY <1>1, UnpackAllEffect
<1> HIDE DEF n
<1> DEFINE Good(b) == /\ u[b].exit => u[b].done
                      /\ b <= m /\ u[b].done => u[b].exit
                      /\ b > m => u[b].done
                      /\ ~u[b].exit => Recorded(u[b].out, w, a, pos[IF b <= m THEN b ELSE m])
           T == {b \in 0 .. n : Good(b)}
<1>3. 0 \in T
  <2>1. u[0].out = <<w[a]>> /\ ~u[0].exit /\ ~u[0].done /\ 0 <= m /\ ~(0 > m) /\ 0 \in 0 .. n
    BY <1>1, <1>2
  <2>2. Recorded(<<w[a]>>, w, a, a)
    <3>1. <<w[a]>> \in Seq(Int) /\ Len(<<w[a]>>) = (a - a) + 1
      BY <1>1
    <3>2. \A i \in 1 .. 1 : <<w[a]>>[i] = w[a] /\ (a + i) - 1 = a
      BY <1>1
    <3>3. Len(<<w[a]>>) = 1
      OBVIOUS
    <3> QED
      BY <1>1, <3>1, <3>2, <3>3 DEF Recorded
  <2>3. Good(0)
    BY ONLY <2>1, <2>2, pos[0] = a
  <2> HIDE DEF Good
  <2> QED
    BY <2>1, <2>3
<1>4. ASSUME NEW b \in 0 .. (n - 1), b \in T PROVE b + 1 \in T
  <2>1. b \in Nat /\ b \in 0 .. n /\ b + 1 \in 1 .. n /\ b + 1 \in 0 .. n /\ (b + 1) - 1 = b
    BY <1>1
  <2>2. u[b + 1] = UnpackOne(u[b], bundles[b + 1]) /\ bundles[b + 1] \in Bundle /\ u[b] \in Acc
    BY <1>1, <1>2, <2>1
  <2>3. Good(b)
    BY <1>4
  <2>4. b + 1 <= m => b <= m
    BY <1>1, <2>1
  <2>5. b > m => b + 1 > m /\ ~(b <= m) /\ ~(b + 1 <= m)
    BY <1>1, <2>1
  <2>6. CASE u[b].done
    <3>1. u[b + 1] = u[b]
      BY <2>2, <2>6 DEF UnpackOne
    <3>2. b <= m \/ b > m
      BY <1>1, <2>1
    <3>3. Good(b + 1)
      BY ONLY <2>3, <2>4, <2>5, <2>6, <3>1, <3>2
    <3> HIDE DEF Good
    <3> QED
      BY <2>1, <3>3
  <2>7. CASE ~u[b].done /\ ~HasRoom(Len(u[b].out))
    <3>1. u[b + 1].done /\ u[b + 1].exit
      BY <2>2, <2>7 DEF UnpackOne, Acc
    <3>2. Good(b + 1)
      BY ONLY <3>1
    <3> HIDE DEF Good
    <3> QED
      BY <2>1, <3>2
  <2>8. CASE ~u[b].done /\ HasRoom(Len(u[b].out)) /\ IsNull(bundles[b + 1])
    <3>1. u[b + 1].out = u[b].out /\ u[b + 1].exit = u[b].exit /\ u[b + 1].done
      BY <2>2, <2>8 DEF UnpackOne, Acc
    <3>2. ~(b + 1 <= m)
      BY <1>1, <2>1, <2>8
    <3>3. ~u[b].exit /\ ~(b > m)
      BY <2>3, <2>8
    <3>4. b = m /\ b <= m
      BY <1>1, <2>1, <3>2, <3>3
    <3>5. Good(b + 1)
      BY ONLY <2>3, <3>1, <3>2, <3>3, <3>4
    <3> HIDE DEF Good
    <3> QED
      BY <2>1, <3>5
  <2>9. CASE ~u[b].done /\ HasRoom(Len(u[b].out)) /\ ~IsNull(bundles[b + 1])
    <3>1. u[b + 1].out = Unpack(u[b].out, bundles[b + 1]) /\ u[b + 1].exit = u[b].exit /\ ~u[b + 1].done
      BY <2>2, <2>9 DEF UnpackOne, Acc
    <3>2. ~u[b].exit /\ ~(b > m) /\ b <= m
      <4>1. ~u[b].exit /\ ~(b > m)
        BY ONLY <2>3, <2>9
      <4>2. ~(b > m) => b <= m
        BY <1>1, <2>1
      <4> QED
        BY ONLY <4>1, <4>2
    <3>3. b + 1 <= m /\ ~(b + 1 > m) /\ b + 1 \in 1 .. m /\ b + 1 \in 0 .. m
      <4>1. b # m
        BY <1>1, <2>1, <2>9 DEF n
      <4> QED
        BY <1>1, <2>1, <3>2, <4>1
    <3>4. Recorded(u[b].out, w, a, pos[b])
      BY <2>3, <3>2
    <3>5. Steps(AllDifferences(bundles[b + 1]), w, pos[b], pos[b + 1]) /\ pos[b + 1] <= Len(w)
      BY <2>1, <3>3
    <3>6. Recorded(Unpack(u[b].out, bundles[b + 1]), w, a, pos[b + 1])
      BY ONLY <1>1, <2>2, <3>4, <3>5, w \in Seq(Int), UnpackRight
    <3>7. Good(b + 1)
      BY ONLY <3>1, <3>2, <3>3, <3>6
    <3> HIDE DEF Good
    <3> QED
      BY <2>1, <3>7
  <2> QED
    BY <2>6, <2>7, <2>8, <2>9
<1>5. n \in T
  <2>1. 0 .. n \subseteq T
    <3> HIDE DEF T
    <3> QED
      BY ONLY <1>1, <1>3, <1>4, IntervalInduction
  <2> QED
    BY <1>1, <2>1
<1>6. Good(n)
  <2> HIDE DEF Good
  <2> QED
    BY <1>5
<1>7. n <= m => n = m
  BY <1>1
<1> QED
  BY <1>2, <1>6, <1>7 DEF n

-----------------------------------------------------------------------------
(* The instrument                                                          *)

EncAcc == [off : Nat, fields : Seq(FieldType)]

\* The fields have the differences of w from position a on.
Lays(fields, pos, w, a) ==
  /\ fields \in Seq(FieldType)
  /\ pos[0] = a
  /\ \A i \in 1 .. Len(fields) :
       fields[i].kind # 0 /\ Steps(Differences(fields[i]), w, pos[i - 1], pos[i])
  /\ \A i \in 0 .. Len(fields) : pos[i] \in Nat /\ pos[i] <= Len(w)

\* A field holds what was put into it.
LEMMA FieldRight ==
  ASSUME NEW w \in Seq(Int), NEW a \in 1 .. Len(w), NEW off \in Nat, NEW k \in 1 .. 3, Fit(w, a, k, off)
  PROVE  /\ Field(w, a, k, off) \in FieldType
         /\ Field(w, a, k, off).kind = k
         /\ Steps(Differences(Field(w, a, k, off)), w, a + off, (a + off) + Count(k))
<1> DEFINE x == a + off
           field == Field(w, a, k, off)
           diff(j) == w[x + j] - w[(x + j) - 1]
<1>1. k \in Kinds /\ Count(k) \in 0 .. 4 /\ Size(k) \in Nat /\ Size(k) > 0 /\ Size(k) % 2 = 0
  <2>1. k \in Kinds
    BY DEF Kinds
  <2> QED
    BY <2>1, CountIs, SizesAreEven
<1>2. x \in Nat /\ x >= 1 /\ x + Count(k) <= Len(w) /\ Len(w) \in Nat
  BY DEF Fit
<1>3. \A j \in 1 .. Count(k) : Fits(diff(j), Size(k))
  BY DEF Fit
<1>4. ASSUME NEW j \in 1 .. Count(k)
      PROVE  diff(j) \in Int
  <2> HIDE DEF x
  <2>1. x + j \in 1 .. Len(w) /\ (x + j) - 1 \in 1 .. Len(w)
    <3>1. j \in Nat /\ j >= 1 /\ j <= Count(k) /\ Count(k) \in Nat
      BY <1>1
    <3> QED
      BY ONLY <1>2, <3>1
  <2>2. w[x + j] \in Int /\ w[(x + j) - 1] \in Int
    BY <2>1
  <2> QED
    BY <2>2
<1>5. field.kind = k /\ field.raw = [j \in 1 .. Count(k) |-> Unsigned(diff(j), Size(k))]
  BY DEF Field
<1> HIDE DEF x, diff
<1>6. \A j \in 1 .. Count(k) : /\ Unsigned(diff(j), Size(k)) \in Nat
                               /\ Signed(Unsigned(diff(j), Size(k)), Size(k)) = diff(j)
  BY <1>1, <1>3, <1>4, SignedIsInverse
<1>7. field.raw \in [1 .. Count(k) -> Nat]
  BY <1>5, <1>6
<1>9. field = [kind |-> field.kind, raw |-> field.raw]
  BY DEF Field
<1> HIDE DEF field
<1>8. field.raw \in Seq(Nat) /\ Len(field.raw) = Count(k)
  <2>1. Count(k) \in Nat
    BY <1>1
  <2> QED
    BY ONLY <1>7, <2>1
<1>10. field \in FieldType
  <2>1. field \in [kind : Kinds, raw : Seq(Nat)]
    BY <1>1, <1>5, <1>8, <1>9
  <2> QED
    BY <1>5, <1>8, <2>1 DEF FieldType
<1>11. /\ Differences(field) \in Seq(Int) /\ Len(Differences(field)) = Count(k)
       /\ \A j \in 1 .. Count(k) : Differences(field)[j] = Signed(field.raw[j], Size(k))
  BY <1>5, <1>10, DifferencesType
<1>12. \A j \in 1 .. Count(k) : Differences(field)[j] = diff(j)
  <2>1. \A j \in 1 .. Count(k) : field.raw[j] = Unsigned(diff(j), Size(k))
    BY <1>5
  <2> QED
    BY <1>6, <1>11, <2>1
<1>13. Steps(Differences(field), w, x, x + Count(k))
  BY <1>2, <1>11, <1>12 DEF Steps, diff
<1> QED
  BY <1>5, <1>10, <1>13 DEF x, field

LEMMA EncodeOneRight ==
  ASSUME NEW w \in Seq(Int), NEW a \in 1 .. Len(w), NEW least \in 1 .. 3, NEW acc \in EncAcc,
         NEW pos, Lays(acc.fields, pos, w, a), pos[Len(acc.fields)] = a + acc.off
  PROVE  LET r == EncodeOne(w, a, least, acc)
         IN  /\ r \in EncAcc
             /\ \E p : Lays(r.fields, p, w, a) /\ p[Len(r.fields)] = a + r.off
<1> DEFINE K == {k \in least .. 3 : Fit(w, a, k, acc.off)}
           r == EncodeOne(w, a, least, acc)
<1>1. acc.off \in Nat /\ acc.fields \in Seq(FieldType) /\ Len(acc.fields) \in Nat
  BY DEF EncAcc
<1>2. CASE K = {}
  <2>1. r = acc
    BY <1>2 DEF EncodeOne
  <2> QED
    BY <2>1
<1>3. CASE K # {}
  <2>1. PICK k : k = CHOOSE j \in K : \A l \in K : j <= l
    OBVIOUS
  <2>2. K \subseteq 1 .. 3
    OBVIOUS
  <2>3. k \in K
    <3>1. K \subseteq Nat
      BY <2>2
    <3> HIDE DEF K
    <3>2. \E j \in K : \A l \in K : j <= l
      BY ONLY <1>3, <3>1, LeastElement
    <3> QED
      BY <2>1, <3>2
  <2>4. k \in 1 .. 3 /\ Fit(w, a, k, acc.off)
    BY <2>2, <2>3
  <2> DEFINE field == Field(w, a, k, acc.off)
             n == Len(acc.fields)
             y == (a + acc.off) + Count(k)
  <2>5. r = [off |-> acc.off + Count(k), fields |-> Append(acc.fields, field)]
    BY <1>3, <2>1 DEF EncodeOne
  <2>6. field \in FieldType /\ field.kind = k /\ Steps(Differences(field), w, a + acc.off, y)
    BY <1>1, <2>4, FieldRight
  <2>7. Count(k) \in 0 .. 4 /\ y \in Nat /\ y = a + (acc.off + Count(k)) /\ y <= Len(w)
    <3>1. Count(k) \in 0 .. 4
      BY <2>4, CountIs DEF Kinds
    <3>2. (a + acc.off) + Count(k) <= Len(w)
      BY <2>4 DEF Fit
    <3>3. Count(k) \in Nat /\ a \in Nat
      BY <3>1
    <3>4. (a + acc.off) + Count(k) \in Nat /\ (a + acc.off) + Count(k) = a + (acc.off + Count(k))
      BY ONLY <1>1, <3>3
    <3> QED
      BY <3>1, <3>2, <3>4
  <2> HIDE DEF field, y
  <2> DEFINE new == Append(acc.fields, field)
             p == [i \in 0 .. (n + 1) |-> IF i = n + 1 THEN y ELSE pos[i]]
  <2>8. /\ new \in Seq(FieldType) /\ Len(new) = n + 1
        /\ \A i \in 1 .. n : new[i] = acc.fields[i]
        /\ new[n + 1] = field
    <3> DEFINE S == FieldType
    <3> HIDE DEF S
    <3>1. acc.fields \in Seq(S) /\ field \in S
      BY <1>1, <2>6 DEF S
    <3>2. /\ Append(acc.fields, field) \in Seq(S) /\ Len(Append(acc.fields, field)) = Len(acc.fields) + 1
          /\ \A i \in 1 .. Len(acc.fields) : Append(acc.fields, field)[i] = acc.fields[i]
          /\ Append(acc.fields, field)[Len(acc.fields) + 1] = field
      BY ONLY <3>1
    <3> QED
      BY <3>2 DEF S
  <2> HIDE DEF new
  <2>9. /\ pos[0] = a
        /\ \A i \in 1 .. n : acc.fields[i].kind # 0 /\ Steps(Differences(acc.fields[i]), w, pos[i - 1], pos[i])
        /\ \A i \in 0 .. n : pos[i] \in Nat /\ pos[i] <= Len(w)
    BY DEF Lays
  <2>10. n \in Nat /\ p[n + 1] = y /\ \A i \in 0 .. n : p[i] = pos[i]
    BY <1>1
  <2> HIDE DEF p
  <2>11. ASSUME NEW i \in 1 .. (n + 1)
         PROVE  new[i].kind # 0 /\ Steps(Differences(new[i]), w, p[i - 1], p[i])
    <3>1. CASE i = n + 1
      <4>1. i - 1 = n /\ n \in 0 .. n
        BY <2>10, <3>1
      <4>2. p[i - 1] = a + acc.off /\ p[i] = y /\ new[i] = field
        BY <2>8, <2>10, <3>1, <4>1
      <4> QED
        BY <2>4, <2>6, <4>2
    <3>2. CASE i # n + 1
      <4>1. i \in 1 .. n /\ i \in 0 .. n /\ i - 1 \in 0 .. n
        BY <2>10, <3>2
      <4>2. new[i] = acc.fields[i] /\ p[i - 1] = pos[i - 1] /\ p[i] = pos[i]
        BY <2>8, <2>10, <4>1
      <4> QED
        BY <2>9, <4>1, <4>2
    <3> QED
      BY <3>1, <3>2
  <2>12. ASSUME NEW i \in 0 .. (n + 1) PROVE p[i] \in Nat /\ p[i] <= Len(w)
    <3>1. i = n + 1 \/ i \in 0 .. n
      BY <2>10
    <3> QED
      BY <2>7, <2>9, <2>10, <3>1
  <2>13. p[0] = a
    <3>1. 0 \in 0 .. n
      BY <2>10
    <3> QED
      BY <2>9, <2>10, <3>1
  <2>14. Lays(new, p, w, a)
    BY <2>8, <2>11, <2>12, <2>13 DEF Lays
  <2>15. r.fields = new /\ r.off = acc.off + Count(k) /\ r \in EncAcc
    <3>1. r = [off |-> acc.off + Count(k), fields |-> new]
      BY ONLY <2>5 DEF new
    <3>2. acc.off + Count(k) \in Nat
      <4>1. Count(k) \in Nat /\ acc.off \in Nat
        BY <1>1, <2>4, CountIs DEF Kinds
      <4> QED
        BY ONLY <4>1
    <3> HIDE DEF r
    <3> QED
      BY ONLY <2>8, <3>1, <3>2 DEF EncAcc
  <2>16. p[Len(r.fields)] = a + r.off
    BY <2>7, <2>8, <2>10, <2>15
  <2> QED
    BY <2>14, <2>15, <2>16
<1> QED
  BY <1>2, <1>3

LEMMA EncodedRight ==
  ASSUME NEW w \in Seq(Int), NEW a \in 1 .. Len(w), NEW n \in Nat, NEW least \in 1 .. 3
  PROVE  LET e == Encoded(w, a, n, least)
         IN  /\ e \in EncAcc
             /\ \E pos : Lays(e.fields, pos, w, a) /\ pos[Len(e.fields)] = a + e.off
<1> DEFINE base == [off |-> 0, fields |-> <<>>]
           Good(acc) == acc \in EncAcc /\ \E pos : Lays(acc.fields, pos, w, a) /\ pos[Len(acc.fields)] = a + acc.off
           S == {acc \in EncAcc : Good(acc)}
           All(p) == p = [f \in 0 .. n |-> IF f = 0 THEN base ELSE EncodeOne(w, a, least, p[f - 1])]
           R == [b \in 1 .. n |-> [acc \in S |-> EncodeOne(w, a, least, acc)]]
<1>1. Encoded(w, a, n, least) = (CHOOSE p : All(p))[n]
  BY EncodedIs
<1>2. base \in S
  <2>1. base \in EncAcc /\ base.fields = <<>> /\ base.off = 0 /\ Len(base.fields) = 0
    BY DEF EncAcc
  <2> DEFINE pos == [i \in 0 .. 0 |-> a]
  <2>2. pos[0] = a /\ a \in Nat /\ a <= Len(w) /\ a = a + 0
    OBVIOUS
  <2> HIDE DEF pos
  <2>3. Lays(<<>>, pos, w, a)
    <3>1. \A i \in 0 .. 0 : pos[i] \in Nat /\ pos[i] <= Len(w)
      BY <2>2
    <3>2. <<>> \in Seq(FieldType) /\ Len(<<>>) = 0 /\ 1 .. 0 = {}
      OBVIOUS
    <3> QED
      BY <2>2, <3>1, <3>2 DEF Lays
  <2> HIDE DEF base
  <2>4. Good(base)
    BY <2>1, <2>2, <2>3
  <2> QED
    BY <2>1, <2>4
<1>3. \A acc \in S : EncodeOne(w, a, least, acc) \in S
  <2> SUFFICES ASSUME NEW acc \in S PROVE EncodeOne(w, a, least, acc) \in S
    OBVIOUS
  <2>1. acc \in EncAcc /\ Good(acc)
    OBVIOUS
  <2>2. PICK pos : Lays(acc.fields, pos, w, a) /\ pos[Len(acc.fields)] = a + acc.off
    BY <2>1
  <2>3. Good(EncodeOne(w, a, least, acc))
    BY ONLY <2>1, <2>2, w \in Seq(Int), a \in 1 .. Len(w), least \in 1 .. 3, EncodeOneRight
  <2> QED
    BY <2>3
<1> HIDE DEF base, S
<1>4. R \in [1 .. n -> [S -> S]]
  BY <1>3
<1>5. PICK f : Recurs(f, n, S, base, R)
  <2> HIDE DEF R
  <2> QED
    BY ONLY n \in Nat, <1>2, <1>4, RecursionExists
<1> HIDE DEF R
<1>6. f \in [0 .. n -> S] /\ f[0] = base /\ \A b \in 1 .. n : f[b] = R[b][f[b - 1]]
  BY <1>5 DEF Recurs
<1> USE DEF R
<1>7. ASSUME NEW b \in 1 .. n PROVE f[b] = EncodeOne(w, a, least, f[b - 1])
  <2>1. b - 1 \in 0 .. n
    OBVIOUS
  <2>2. f[b - 1] \in S
    BY <1>6, <2>1
  <2>3. \A acc \in S : R[b][acc] = EncodeOne(w, a, least, acc)
    OBVIOUS
  <2>4. f[b] = R[b][f[b - 1]]
    BY <1>6
  <2> QED
    BY ONLY <2>2, <2>3, <2>4
<1> HIDE DEF R
<1>8. All(f)
  <2>1. \A j \in 0 .. n : j = 0 \/ j \in 1 .. n
    OBVIOUS
  <2>2. \A j \in 0 .. n : f[j] = IF j = 0 THEN base ELSE EncodeOne(w, a, least, f[j - 1])
    BY <1>6, <1>7, <2>1
  <2> QED
    BY <1>6, <2>2
<1>9. PICK p : p = (CHOOSE t : All(t)) /\ All(p)
  BY <1>8
<1>10. p[0] = base /\ \A b \in 1 .. n : p[b] = EncodeOne(w, a, least, p[b - 1])
  <2>1. 0 \in 0 .. n /\ \A i \in 1 .. n : i \in 0 .. n /\ i # 0
    OBVIOUS
  <2> QED
    BY <1>9, <2>1
<1>11. p[n] \in S
  <2> DEFINE T == {i \in 0 .. n : p[i] \in S}
  <2>1. 0 \in T
    BY <1>2, <1>10
  <2>2. ASSUME NEW i \in 0 .. (n - 1), i \in T PROVE i + 1 \in T
    <3>1. i + 1 \in 1 .. n /\ (i + 1) - 1 = i /\ i + 1 \in 0 .. n
      OBVIOUS
    <3>2. p[i + 1] = EncodeOne(w, a, least, p[i]) /\ p[i] \in S
      BY <1>10, <2>2, <3>1
    <3> QED
      BY <1>3, <3>1, <3>2
  <2>3. 0 .. n \subseteq T
    <3> HIDE DEF T
    <3> QED
      BY ONLY n \in Nat, <2>1, <2>2, IntervalInduction
  <2>4. n \in 0 .. n
    OBVIOUS
  <2> QED
    BY <2>3, <2>4
<1>12. Encoded(w, a, n, least) \in S
  BY <1>1, <1>9, <1>11
<1> QED
  BY <1>12 DEF S

\* The fields in bundles, the last one filled up: the positions are those of each
\* fourth field.
LEMMA BundlesRight ==
  ASSUME NEW w \in Seq(Int), NEW a \in 1 .. Len(w), NEW fields, NEW pos, Lays(fields, pos, w, a)
  PROVE  LET packed == Bundles(fields)
             m == Len(packed)
         IN  /\ packed \in Seq(Bundle)
             /\ \E p : /\ p[0] = a
                       /\ p[m] = pos[Len(fields)]
                       /\ \A b \in 0 .. m : p[b] <= Len(w)
                       /\ \A b \in 1 .. m : /\ ~IsNull(packed[b])
                                            /\ Steps(AllDifferences(packed[b]), w, p[b - 1], p[b])
<1> DEFINE L == Len(fields)
           m == (L + Fields - 1) \div Fields
           packed == Bundles(fields)
           slot(i) == IF i <= L THEN fields[i] ELSE Unused
           q(i) == pos[IF i <= L THEN i ELSE L]
<1>1. /\ fields \in Seq(FieldType) /\ L \in Nat /\ pos[0] = a
      /\ \A i \in 1 .. L : fields[i].kind # 0 /\ Steps(Differences(fields[i]), w, pos[i - 1], pos[i])
      /\ \A i \in 0 .. L : pos[i] \in Nat /\ pos[i] <= Len(w)
      /\ \A i \in 1 .. L : fields[i] \in FieldType
  BY DEF Lays
<1>2. packed = [b \in 1 .. m |-> [f \in 1 .. Fields |-> slot((b - 1) * Fields + f)]]
  BY DEF Bundles
<1> HIDE DEF L
<1>3. m \in Nat /\ 4 * m >= L /\ \A b \in 1 .. m : (b - 1) * 4 + 1 <= L
  BY <1>1 DEF Fields
<1>4. Unused \in FieldType
  <2>1. 0 \in Kinds /\ Count(0) = 0
    BY CountIs DEF Kinds
  <2>2. <<>> \in Seq(Nat) /\ Len(<<>>) = 0
    OBVIOUS
  <2> QED
    BY <2>1, <2>2 DEF Unused, FieldType
<1>5. \A i \in Nat \ {0} : slot(i) \in FieldType
  BY <1>1, <1>4
<1>6. \A i \in Nat : q(i) \in Nat /\ q(i) <= Len(w)
  BY <1>1
<1>7. ASSUME NEW i \in Nat \ {0} PROVE Steps(Differences(slot(i)), w, q(i - 1), q(i))
  <2>1. CASE i <= L
    <3>1. i \in 1 .. L /\ i - 1 <= L
      BY <1>1, <2>1
    <3> QED
      BY <1>1, <2>1, <3>1
  <2>2. CASE ~(i <= L)
    <3>1. q(i - 1) = pos[L] /\ q(i) = pos[L]
      <4>1. i - 1 = L \/ ~(i - 1 <= L)
        BY <1>1, <2>2
      <4> QED
        BY <2>2, <4>1
    <3>2. slot(i) = Unused
      BY <2>2
    <3>3. Differences(Unused) = <<>>
      <4>1. DOMAIN Unused.raw = {}
        BY DEF Unused
      <4> QED
        BY <4>1 DEF Differences
    <3>4. pos[L] \in Nat
      BY <1>1
    <3>5. <<>> \in Seq(Int) /\ Len(<<>>) = 0 /\ 1 .. 0 = {}
      OBVIOUS
    <3>6. Steps(<<>>, w, pos[L], pos[L])
      BY <3>4, <3>5 DEF Steps
    <3> QED
      BY <3>1, <3>2, <3>3, <3>6
  <2> QED
    BY <2>1, <2>2
<1> HIDE DEF slot, q, m
<1>8. ASSUME NEW b \in 1 .. m
      PROVE  /\ packed[b] \in Bundle
             /\ packed[b][1] = slot(4 * (b - 1) + 1) /\ packed[b][2] = slot(4 * (b - 1) + 2)
             /\ packed[b][3] = slot(4 * (b - 1) + 3) /\ packed[b][4] = slot(4 * (b - 1) + 4)
  <2>1. packed[b] = [f \in 1 .. 4 |-> slot((b - 1) * 4 + f)]
    BY <1>2 DEF Fields
  <2>2. \A f \in 1 .. 4 : (b - 1) * 4 + f \in Nat \ {0} /\ (b - 1) * 4 = 4 * (b - 1)
    BY <1>3
  <2>3. \A f \in 1 .. 4 : slot((b - 1) * 4 + f) \in FieldType
    BY <1>5, <2>2
  <2>4. packed[b] \in Bundle
    BY <2>1, <2>3 DEF Bundle, Fields
  <2>5. /\ packed[b][1] = slot((b - 1) * 4 + 1) /\ packed[b][2] = slot((b - 1) * 4 + 2)
        /\ packed[b][3] = slot((b - 1) * 4 + 3) /\ packed[b][4] = slot((b - 1) * 4 + 4)
    BY <2>1
  <2> QED
    BY <2>2, <2>4, <2>5
<1>9. packed \in Seq(Bundle) /\ Len(packed) = m
  <2>1. packed \in [1 .. m -> Bundle]
    BY <1>2, <1>8
  <2> DEFINE S == Bundle
  <2> HIDE DEF S, packed
  <2>2. packed \in [1 .. m -> S] /\ m \in Nat
    BY <1>3, <2>1 DEF S
  <2>3. packed \in Seq(S) /\ Len(packed) = m
    BY ONLY <2>2
  <2> QED
    BY <2>3 DEF S
<1> DEFINE p == [b \in 0 .. m |-> q(4 * b)]
<1>10. ASSUME NEW b \in 1 .. m
       PROVE  ~IsNull(packed[b]) /\ Steps(AllDifferences(packed[b]), w, p[b - 1], p[b])
  <2> DEFINE i == 4 * (b - 1)
  <2>1. i \in Nat /\ i + 1 <= L /\ 4 * b = i + 4 /\ b \in 0 .. m /\ b - 1 \in 0 .. m
    BY <1>3
  <2>2. p[b - 1] = q(i) /\ p[b] = q(i + 4)
    BY <2>1
  <2> HIDE DEF i, p, packed
  <2>3. /\ packed[b][1] = slot(i + 1) /\ packed[b][2] = slot(i + 2)
        /\ packed[b][3] = slot(i + 3) /\ packed[b][4] = slot(i + 4)
    BY <1>8 DEF i
  <2>4. ~IsNull(packed[b])
    <3> SUFFICES ASSUME IsNull(packed[b]) PROVE FALSE
      OBVIOUS
    <3>1. packed[b][1].kind = 0
      <4>1. [f \in 1 .. 4 |-> packed[b][f].kind] = <<0, 0, 2, 1>>
        BY DEF IsNull, NullBits, Fields
      <4>2. [f \in 1 .. 4 |-> packed[b][f].kind][1] = <<0, 0, 2, 1>>[1]
        BY <4>1
      <4> QED
        BY <4>2
    <3>2. i + 1 \in 1 .. L
      BY ONLY <1>1, <2>1
    <3>3. slot(i + 1) = fields[i + 1]
      BY ONLY <2>1 DEF slot
    <3>4. fields[i + 1].kind # 0
      BY ONLY <1>1, <3>2
    <3> QED
      BY ONLY <2>3, <3>1, <3>3, <3>4
  <2>5. /\ i + 1 \in Nat \ {0} /\ (i + 1) - 1 = i
        /\ i + 2 \in Nat \ {0} /\ (i + 2) - 1 = i + 1
        /\ i + 3 \in Nat \ {0} /\ (i + 3) - 1 = i + 2
        /\ i + 4 \in Nat \ {0} /\ (i + 4) - 1 = i + 3
    BY <2>1
  <2>6. /\ Steps(Differences(slot(i + 1)), w, q(i), q(i + 1))
        /\ Steps(Differences(slot(i + 2)), w, q(i + 1), q(i + 2))
        /\ Steps(Differences(slot(i + 3)), w, q(i + 2), q(i + 3))
        /\ Steps(Differences(slot(i + 4)), w, q(i + 3), q(i + 4))
    <3>1. Steps(Differences(slot(i + 1)), w, q((i + 1) - 1), q(i + 1))
      BY <1>7, <2>5
    <3>2. Steps(Differences(slot(i + 2)), w, q((i + 2) - 1), q(i + 2))
      BY <1>7, <2>5
    <3>3. Steps(Differences(slot(i + 3)), w, q((i + 3) - 1), q(i + 3))
      BY <1>7, <2>5
    <3>4. Steps(Differences(slot(i + 4)), w, q((i + 4) - 1), q(i + 4))
      BY <1>7, <2>5
    <3> QED
      BY <2>5, <3>1, <3>2, <3>3, <3>4
  <2>7. Steps(Differences(slot(i + 1)) \o Differences(slot(i + 2)), w, q(i), q(i + 2))
    BY <2>6, StepsConcat
  <2>8. Steps((Differences(slot(i + 1)) \o Differences(slot(i + 2))) \o Differences(slot(i + 3)), w, q(i), q(i + 3))
    BY <2>6, <2>7, StepsConcat
  <2>9. Steps(((Differences(slot(i + 1)) \o Differences(slot(i + 2))) \o Differences(slot(i + 3)))
                \o Differences(slot(i + 4)), w, q(i), q(i + 4))
    BY <2>6, <2>8, StepsConcat
  <2>10. Steps(AllDifferences(packed[b]), w, q(i), q(i + 4))
    BY <2>3, <2>9 DEF AllDifferences
  <2> QED
    BY <2>2, <2>4, <2>10
<1>11. p[0] = a /\ p[m] = pos[L] /\ \A b \in 0 .. m : p[b] <= Len(w)
  <2>1. 0 \in 0 .. m /\ m \in 0 .. m
    BY <1>3
  <2>2. p[0] = q(4 * 0) /\ p[m] = q(4 * m)
    BY <2>1
  <2>3. 4 * 0 = 0 /\ q(0) = a
    BY <1>1 DEF q
  <2>4. q(4 * m) = pos[L]
    <3>1. 4 * m = L \/ ~(4 * m <= L)
      BY <1>1, <1>3
    <3> QED
      BY <3>1 DEF q
  <2>5. \A b \in 0 .. m : 4 * b \in Nat /\ p[b] = q(4 * b)
    BY <1>3
  <2> QED
    BY <1>6, <2>2, <2>3, <2>4, <2>5
<1> HIDE DEF p, packed
<1> QED
  BY <1>9, <1>10, <1>11 DEF packed, L

LEMMA NullBundleIs == NullBundle \in Bundle /\ IsNull(NullBundle)
<1>1. \A f \in 1 .. 4 : NullBits[f] \in Kinds
  BY DEF NullBits, Kinds
<1>2. NullBundle = [f \in 1 .. 4 |-> [kind |-> NullBits[f], raw |-> [i \in 1 .. Count(NullBits[f]) |-> 0]]]
  BY DEF NullBundle, Fields
<1>3. ASSUME NEW f \in 1 .. 4 PROVE NullBundle[f] \in FieldType /\ NullBundle[f].kind = NullBits[f]
  <2> DEFINE k == NullBits[f]
             raw == [i \in 1 .. Count(k) |-> 0]
  <2>1. k \in Kinds
    BY <1>1
  <2>2. Count(k) \in Nat
    BY <2>1, CountIs
  <2>3. NullBundle[f] = [kind |-> k, raw |-> raw]
    BY <1>2
  <2> HIDE DEF k
  <2>4. raw \in [1 .. Count(k) -> Nat]
    OBVIOUS
  <2> HIDE DEF raw
  <2>5. raw \in Seq(Nat) /\ Len(raw) = Count(k)
    BY ONLY <2>2, <2>4
  <2> QED
    BY <2>1, <2>3, <2>5 DEF FieldType, k
<1>4. NullBundle \in Bundle
  BY <1>2, <1>3 DEF Bundle, Fields
<1>5. [f \in 1 .. 4 |-> NullBundle[f].kind] = NullBits
  <2>1. [f \in 1 .. 4 |-> NullBundle[f].kind] = [f \in 1 .. 4 |-> NullBits[f]]
    BY <1>3
  <2>2. NullBits = [f \in 1 .. 4 |-> NullBits[f]]
    BY DEF NullBits
  <2> QED
    BY <2>1, <2>2
<1> QED
  BY <1>4, <1>5 DEF IsNull, Fields

LEMMA WaveType ==
  ASSUME NEW key \in Nat
  PROVE  Wave(key) \in Seq(Int)
<1>1. Waves \in Seq(Seq(Int)) /\ Len(Waves) \in Nat /\ Len(Waves) > 0
  BY WavesAssumption
<1>2. \A d \in Nat : d > 0 => key % d \in 0 .. (d - 1)
  OBVIOUS
<1>3. (key % Len(Waves)) + 1 \in 1 .. Len(Waves)
  <2>1. key % Len(Waves) \in 0 .. (Len(Waves) - 1)
    BY <1>1, <1>2
  <2> QED
    BY <1>1, <2>1
<1>4. \A i \in 1 .. Len(Waves) : Waves[i] \in Seq(Int)
  BY <1>1
<1> QED
  BY <1>3, <1>4 DEF Wave

\* nmxp_processCompressedData(): however an instrument divides a series into fields of
\* the three kinds and into bundles, with or without a null bundle and what follows it,
\* if the program goes on the values unpacked are those of the series, up to the first one of the next packet.
THEOREM MessageRight ==
  ASSUME NEW key \in Nat, NEW at \in Starting(key), NEW n \in Nat, NEW least \in 1 .. 3,
         NEW padded \in BOOLEAN, NEW partial \in BOOLEAN
  PROVE  LET e == Encoded(Wave(key), at, n, least)
             message == Compressed(key, at, e.fields, padded, partial)
             u == UnpackAll(Signed(message.x0, X0Size), message.bundles, message.partial)
         IN  /\ Wave(key) \in Seq(Int)
             /\ at \in 1 .. Len(Wave(key)) /\ e.off \in Nat
             /\ message.bundles \in Seq(Bundle) /\ Signed(message.x0, X0Size) \in Int
             /\ message.partial = partial
             /\ padded => \E b \in 1 .. Len(message.bundles) : IsNull(message.bundles[b])
             /\ ~u.exit => Recorded(u.out, Wave(key), at, at + e.off)
<1> DEFINE w == Wave(key)
           e == Encoded(w, at, n, least)
           message == Compressed(key, at, e.fields, padded, partial)
           packed == Bundles(e.fields)
           rest == IF padded THEN <<NullBundle>> \o packed ELSE <<>>
           m == Len(packed)
<1>1. w \in Seq(Int)
  BY WaveType
<1> HIDE DEF w
<1>2. at \in 1 .. Len(w) /\ at \in Nat /\ Fits(w[at], X0Size) /\ w[at] \in Int
  <2>1. at \in Starts /\ at < Len(w) /\ Fits(w[at], X0Size)
    BY DEF Starting, w
  <2>2. at \in Nat \ {0} /\ Len(w) \in Nat
    BY <1>1, <2>1, BoundsAssumption
  <2>3. at \in 1 .. Len(w)
    BY <2>1, <2>2
  <2>4. \A i \in 1 .. Len(w) : w[i] \in Int
    BY <1>1
  <2> QED
    BY <2>1, <2>2, <2>3, <2>4
<1>3. e \in EncAcc /\ \E pos : Lays(e.fields, pos, w, at) /\ pos[Len(e.fields)] = at + e.off
  BY <1>1, <1>2, EncodedRight
<1>4. PICK pos : Lays(e.fields, pos, w, at) /\ pos[Len(e.fields)] = at + e.off
  BY <1>3
<1>5. e.off \in Nat
  BY <1>3 DEF EncAcc
<1>6. message.x0 = Unsigned(w[at], X0Size) /\ message.bundles = packed \o rest /\ message.partial = partial
  BY DEF Compressed, w
<1>7. Signed(message.x0, X0Size) = w[at]
  BY <1>2, <1>6, SizesAreEven, SignedIsInverse
<1> HIDE DEF e
<1>8. /\ packed \in Seq(Bundle)
      /\ \E p : /\ p[0] = at
                /\ p[m] = pos[Len(e.fields)]
                /\ \A b \in 0 .. m : p[b] <= Len(w)
                /\ \A b \in 1 .. m : /\ ~IsNull(packed[b])
                                     /\ Steps(AllDifferences(packed[b]), w, p[b - 1], p[b])
  BY <1>1, <1>2, <1>4, BundlesRight
<1>9. PICK p : /\ p[0] = at
               /\ p[m] = at + e.off
               /\ \A b \in 0 .. m : p[b] <= Len(w)
               /\ \A b \in 1 .. m : /\ ~IsNull(packed[b])
                                    /\ Steps(AllDifferences(packed[b]), w, p[b - 1], p[b])
  BY <1>4, <1>8
<1> DEFINE S == Bundle
           all == packed \o rest
<1> HIDE DEF packed, S, message
<1>10. /\ rest \in Seq(S)
       /\ rest = <<>> \/ rest[1] = NullBundle
       /\ padded => Len(rest) >= 1
       /\ Len(rest) \in Nat /\ (rest # <<>> => Len(rest) >= 1)
  <2>1. packed \in Seq(S) /\ <<NullBundle>> \in Seq(S) /\ Len(<<NullBundle>>) = 1 /\ Len(packed) \in Nat
    BY <1>8, NullBundleIs DEF S
  <2>2. CASE padded
    <3> DEFINE r == <<NullBundle>> \o packed
    <3>1. /\ r \in Seq(S) /\ Len(r) = Len(<<NullBundle>>) + Len(packed)
          /\ \A i \in 1 .. (Len(<<NullBundle>>) + Len(packed)) :
               r[i] = IF i <= Len(<<NullBundle>>) THEN <<NullBundle>>[i] ELSE packed[i - Len(<<NullBundle>>)]
      BY ONLY <2>1, ConcatProperties
    <3>2. rest = r
      BY <2>2
    <3> HIDE DEF r, rest
    <3>3. 1 \in 1 .. (1 + Len(packed)) /\ <<NullBundle>>[1] = NullBundle /\ 1 <= 1
      BY <2>1
    <3>4. r[1] = NullBundle
      BY ONLY <2>1, <3>1, <3>3
    <3>5. Len(r) \in Nat /\ Len(r) >= 1
      BY ONLY <2>1, <3>1
    <3> QED
      BY <3>1, <3>2, <3>4, <3>5
  <2>3. CASE ~padded
    BY <2>3
  <2> QED
    BY <2>2, <2>3
<1> HIDE DEF rest
<1>11. /\ all \in Seq(S)
       /\ Len(all) = m + Len(rest)
       /\ \A i \in 1 .. (m + Len(rest)) : all[i] = IF i <= m THEN packed[i] ELSE rest[i - m]
  <2>1. packed \in Seq(S) /\ rest \in Seq(S)
    BY <1>8, <1>10 DEF S
  <2> QED
    BY ONLY <2>1, ConcatProperties
<1>12. m \in Nat
  BY <1>8
<1> HIDE DEF all, m
<1>13. /\ m \in 0 .. Len(all) /\ (m = Len(all) \/ IsNull(all[m + 1]))
       /\ padded => \E b \in 1 .. Len(all) : IsNull(all[b])
  <2>1. CASE rest = <<>>
    BY <1>10, <1>11, <1>12, <2>1
  <2>2. CASE rest # <<>>
    <3>1. m + 1 \in 1 .. (m + Len(rest)) /\ ~(m + 1 <= m) /\ (m + 1) - m = 1
      BY <1>10, <1>12, <2>2
    <3>2. all[m + 1] = NullBundle
      BY <1>10, <1>11, <2>2, <3>1
    <3> QED
      BY <1>10, <1>11, <1>12, <3>2, NullBundleIs
  <2> QED
    BY <2>1, <2>2
<1>14. \A b \in 1 .. m : all[b] = packed[b]
  BY <1>10, <1>11, <1>12
<1>15. all \in Seq(Bundle)
  BY <1>11 DEF S
<1>16. ASSUME ~UnpackAll(w[at], all, partial).exit
       PROVE  Recorded(UnpackAll(w[at], all, partial).out, w, at, at + e.off)
  <2>1. \A b \in 1 .. m : ~IsNull(all[b]) /\ Steps(AllDifferences(all[b]), w, p[b - 1], p[b])
    BY <1>9, <1>14 DEF m
  <2>2. p[0] = at /\ p[m] = at + e.off /\ \A b \in 0 .. m : p[b] <= Len(w)
    BY <1>9 DEF m
  <2>3. Recorded(UnpackAll(w[at], all, partial).out, w, at, p[m])
    BY ONLY <1>1, <1>2, <1>13, <1>15, <1>16, <2>1, <2>2, partial \in BOOLEAN, UnpackAllRight
  <2> QED
    BY <2>2, <2>3
<1> QED
  BY <1>1, <1>2, <1>5, <1>6, <1>7, <1>13, <1>15, <1>16 DEF e, w, message, all

-----------------------------------------------------------------------------
(* Trimming                                                                *)

WindowIs == window.start \in Int /\ window.end \in Int
InWindow(t) == window.start < 2 * t + 1 /\ 2 * t + 1 < window.end

\* What is cut off at the two ends is what lies outside of the window.
LEMMA TrimArithmetic ==
  ASSUME WindowIs, window.start < window.end, NEW a \in Nat, NEW n \in Nat
  PROVE  LET first == 2 * a
             last == first + 2 * n
             rf == RemovedFirst(first, last, n)
             rl == RemovedLast(first, last)
         IN  /\ rf \in 0 .. n /\ rl \in 0 .. n /\ n - (rf + rl) \in 0 .. n
             /\ \A t \in a .. a + n - 1 : InWindow(t) <=> a + rf <= t /\ t < (a + n) - rl
<1> DEFINE first == 2 * a
           last == first + 2 * n
           rf == RemovedFirst(first, last, n)
           rl == RemovedLast(first, last)
           ws == window.start
           we == window.end
<1>1. ws \in Int /\ we \in Int /\ ws < we /\ first \in Nat /\ last \in Nat
  BY DEF WindowIs
<1>2. \A t : InWindow(t) <=> ws < 2 * t + 1 /\ 2 * t + 1 < we
  BY DEF InWindow
<1>3. /\ rf = IF last < ws \/ first > we THEN n
              ELSE IF first <= ws /\ ws <= last THEN ((ws - first) + 1) \div 2
              ELSE 0
      /\ rl = IF first <= we /\ we <= last THEN ((last - we) + 1) \div 2 ELSE 0
  BY DEF RemovedFirst, RemovedLast, Rounded
<1> HIDE DEF rf, rl, ws, we
<1>4. CASE last < ws \/ first > we
  <2>1. rf = n /\ rl = 0
    BY <1>1, <1>3, <1>4
  <2>2. \A t \in a .. a + n - 1 : ~(ws < 2 * t + 1 /\ 2 * t + 1 < we) /\ ~(a + n <= t)
    BY <1>1, <1>4
  <2> QED
    BY <1>2, <2>1, <2>2 DEF rf, rl
<1>5. CASE ~(last < ws \/ first > we) /\ first <= ws /\ first <= we /\ we <= last
  <2>1. rf = ((ws - first) + 1) \div 2 /\ rl = ((last - we) + 1) \div 2
    BY <1>1, <1>3, <1>5
  <2>2. rf \in 0 .. n /\ rl \in 0 .. n /\ rf + rl <= n
    BY <1>1, <1>5, <2>1
  <2>3. \A t \in a .. a + n - 1 : (ws < 2 * t + 1 /\ 2 * t + 1 < we) <=> a + rf <= t /\ t < (a + n) - rl
    BY <1>1, <1>5, <2>1
  <2> QED
    BY <1>2, <2>2, <2>3 DEF rf, rl
<1>6. CASE ~(last < ws \/ first > we) /\ first <= ws /\ ~(first <= we /\ we <= last)
  <2>1. rf = ((ws - first) + 1) \div 2 /\ rl = 0 /\ we > last
    BY <1>1, <1>3, <1>6
  <2>2. rf \in 0 .. n
    BY <1>1, <1>6, <2>1
  <2>3. \A t \in a .. a + n - 1 : (ws < 2 * t + 1 /\ 2 * t + 1 < we) <=> a + rf <= t /\ t < a + n
    BY <1>1, <1>6, <2>1
  <2> QED
    BY <1>2, <2>1, <2>2, <2>3 DEF rf, rl
<1>7. CASE ~(last < ws \/ first > we) /\ ~(first <= ws) /\ first <= we /\ we <= last
  <2>1. rf = 0 /\ rl = ((last - we) + 1) \div 2
    BY <1>1, <1>3, <1>7
  <2>2. rl \in 0 .. n
    BY <1>1, <1>7, <2>1
  <2>3. \A t \in a .. a + n - 1 : (ws < 2 * t + 1 /\ 2 * t + 1 < we) <=> a <= t /\ t < (a + n) - rl
    BY <1>1, <1>7, <2>1
  <2> QED
    BY <1>2, <2>1, <2>2, <2>3 DEF rf, rl
<1>8. CASE ~(last < ws \/ first > we) /\ ~(first <= ws) /\ ~(first <= we /\ we <= last)
  <2>1. rf = 0 /\ rl = 0 /\ we > last
    BY <1>1, <1>3, <1>8
  <2>2. \A t \in a .. a + n - 1 : ws < 2 * t + 1 /\ 2 * t + 1 < we /\ a <= t /\ t < a + n
    BY <1>1, <1>8, <2>1
  <2> QED
    BY <1>2, <2>1, <2>2 DEF rf, rl
<1> QED
  BY <1>4, <1>5, <1>6, <1>7, <1>8

\* Of an empty window too much is cut off, or just everything.
LEMMA EmptyArithmetic ==
  ASSUME WindowIs, window.end <= window.start, NEW a \in Nat, NEW n \in Nat
  PROVE  LET first == 2 * a
             last == first + 2 * n
             rf == RemovedFirst(first, last, n)
             rl == RemovedLast(first, last)
         IN  /\ n - (rf + rl) \in Int /\ n - (rf + rl) <= 0
             /\ \A t \in a .. a + n - 1 : ~InWindow(t)
<1> DEFINE first == 2 * a
           last == first + 2 * n
           rf == RemovedFirst(first, last, n)
           rl == RemovedLast(first, last)
           ws == window.start
           we == window.end
<1>1. ws \in Int /\ we \in Int /\ we <= ws /\ first \in Nat /\ last \in Nat
  BY DEF WindowIs
<1>2. \A t \in a .. a + n - 1 : ~InWindow(t)
  BY <1>1 DEF InWindow
<1>3. /\ rf = IF last < ws \/ first > we THEN n
              ELSE IF first <= ws /\ ws <= last THEN ((ws - first) + 1) \div 2
              ELSE 0
      /\ rl = IF first <= we /\ we <= last THEN ((last - we) + 1) \div 2 ELSE 0
  BY DEF RemovedFirst, RemovedLast, Rounded
<1> HIDE DEF rf, rl, ws, we
<1>4. rl \in Nat
  BY <1>1, <1>3
<1>5. CASE last < ws \/ first > we
  <2>1. rf = n
    BY <1>3, <1>5
  <2> QED
    BY <1>2, <1>4, <2>1 DEF rf, rl
<1>6. CASE ~(last < ws \/ first > we)
  <2>1. rf = ((ws - first) + 1) \div 2 /\ rl = ((last - we) + 1) \div 2
    BY <1>1, <1>3, <1>6
  <2>2. rf \in Nat /\ 2 * rf >= ws - first /\ 2 * rl >= last - we
    BY <1>1, <1>6, <2>1
  <2>3. rf + rl >= n
    BY <1>1, <1>4, <2>2
  <2> QED
    BY <1>2, <1>4, <2>2, <2>3 DEF rf, rl
<1> QED
  BY <1>5, <1>6

\* A packet with the n samples of w from the a-th on.
Recording(p, w, a, n) ==
  /\ p.samples \in Seq(Int) /\ Len(p.samples) = n
  /\ \A i \in 1 .. n : p.samples[i] = w[(a + i) - 1]
  /\ p.time = a /\ p.x0 = w[a] /\ p.xn = w[a + n]

DataPacket(key, name, time, samples, x0, xn) ==
  [handled |-> TRUE, key |-> key, net |-> name.net, sta |-> name.sta, cha |-> name.cha, loc |-> name.loc,
   time |-> time, samples |-> samples, x0 |-> x0, xn |-> xn, significant |-> TRUE]

\* The fields of a packet, one by one.
HasFields(p, key, name, time, samples, x0, xn) ==
  /\ p.handled /\ p.significant /\ p.key = key
  /\ p.net = name.net /\ p.sta = name.sta /\ p.cha = name.cha /\ p.loc = name.loc
  /\ p.time = time /\ p.samples = samples /\ p.x0 = x0 /\ p.xn = xn

LEMMA PacketFields ==
  ASSUME NEW key, NEW name, NEW a, NEW samples, NEW x0, NEW xn
  PROVE  HasFields(DataPacket(key, name, a, samples, x0, xn), key, name, a, samples, x0, xn)
  BY DEF DataPacket, HasFields

LEMMA PacketCut ==
  ASSUME NEW key, NEW name, NEW a, NEW samples, NEW x0, NEW xn, NEW b, NEW part, NEW y0, NEW yn
  PROVE  HasFields([DataPacket(key, name, a, samples, x0, xn) EXCEPT
                      !.samples = part, !.time = b, !.x0 = y0, !.xn = yn], key, name, b, part, y0, yn)
  BY DEF DataPacket, HasFields

LEMMA PacketEmptied ==
  ASSUME NEW key, NEW name, NEW a, NEW samples, NEW x0, NEW xn
  PROVE  HasFields([DataPacket(key, name, a, samples, x0, xn) EXCEPT !.samples = <<>>, !.x0 = -1, !.xn = -1],
                   key, name, a, <<>>, -1, -1)
  BY DEF DataPacket, HasFields

LEMMA TrimmedIs ==
  ASSUME NEW key, NEW name, NEW a, NEW samples, NEW x0, NEW xn, NEW n, n = Len(samples)
  PROVE  LET t == Trimmed(DataPacket(key, name, a, samples, x0, xn))
             first == 2 * a
             last == first + 2 * n
             rf == RemovedFirst(first, last, n)
             rl == RemovedLast(first, last)
             left == n - (rf + rl)
             whole == left < 0 \/ rf + rl = 0
         IN  /\ whole => HasFields(t, key, name, a, samples, x0, xn)
             /\ ~whole /\ left = 0 => HasFields(t, key, name, a, <<>>, -1, -1)
             /\ ~whole /\ left # 0 =>
                  HasFields(t, key, name, a + rf, SubSeq(samples, rf + 1, rf + left),
                            IF rf > 0 THEN samples[rf + 1] ELSE x0,
                            IF rl > 0 THEN samples[n - rl + 1] ELSE xn)
<1> DEFINE p == DataPacket(key, name, a, samples, x0, xn)
           N == Len(p.samples)
           First == 2 * p.time
           Last2 == First + 2 * N
           RF == RemovedFirst(First, Last2, N)
           RL == RemovedLast(First, Last2)
           Left == N - (RF + RL)
           part == SubSeq(p.samples, RF + 1, RF + Left)
           y0 == IF RF > 0 THEN p.samples[RF + 1] ELSE p.x0
           yn == IF RL > 0 THEN p.samples[N - RL + 1] ELSE p.xn
<1>1. Trimmed(p) = IF Left < 0 \/ RF + RL = 0 THEN p
      ELSE IF Left = 0 THEN [p EXCEPT !.samples = <<>>, !.x0 = -1, !.xn = -1]
      ELSE [p EXCEPT !.samples = part, !.time = p.time + RF, !.x0 = y0, !.xn = yn]
  <2> HIDE DEF p
  <2> QED
    BY DEF Trimmed
<1>2. p.samples = samples /\ p.time = a /\ p.x0 = x0 /\ p.xn = xn
  BY PacketFields DEF HasFields
<1>3. /\ HasFields(p, key, name, a, samples, x0, xn)
      /\ HasFields([p EXCEPT !.samples = <<>>, !.x0 = -1, !.xn = -1], key, name, a, <<>>, -1, -1)
  BY PacketFields, PacketEmptied
<1> HIDE DEF p
<1>4. N = n /\ First = 2 * a /\ Last2 = 2 * a + 2 * n
  BY <1>2
<1>5. /\ RF = RemovedFirst(2 * a, 2 * a + 2 * n, n) /\ RL = RemovedLast(2 * a, 2 * a + 2 * n)
  BY <1>4
<1> HIDE DEF First, Last2
<1>6. /\ Left = n - (RF + RL)
      /\ part = SubSeq(samples, RF + 1, RF + Left)
      /\ y0 = IF RF > 0 THEN samples[RF + 1] ELSE x0
      /\ yn = IF RL > 0 THEN samples[n - RL + 1] ELSE xn
      /\ p.time + RF = a + RF
  BY <1>2, <1>4
<1> HIDE DEF N, RF, RL, Left, part, y0, yn
<1>7. /\ (Left < 0 \/ RF + RL = 0) => HasFields(Trimmed(p), key, name, a, samples, x0, xn)
      /\ ~(Left < 0 \/ RF + RL = 0) /\ Left = 0 => HasFields(Trimmed(p), key, name, a, <<>>, -1, -1)
      /\ ~(Left < 0 \/ RF + RL = 0) /\ Left # 0 => HasFields(Trimmed(p), key, name, p.time + RF, part, y0, yn)
  <2>1. CASE Left < 0 \/ RF + RL = 0
    BY ONLY <1>1, <1>3, <2>1
  <2>2. CASE ~(Left < 0 \/ RF + RL = 0) /\ Left = 0
    BY ONLY <1>1, <1>3, <2>2
  <2>3. CASE ~(Left < 0 \/ RF + RL = 0) /\ Left # 0
    <3>1. Trimmed(p) = [p EXCEPT !.samples = part, !.time = p.time + RF, !.x0 = y0, !.xn = yn]
      BY ONLY <1>1, <2>3
    <3>2. HasFields([p EXCEPT !.samples = part, !.time = p.time + RF, !.x0 = y0, !.xn = yn],
                    key, name, p.time + RF, part, y0, yn)
      <4> DEFINE c == p.time + RF
      <4> HIDE DEF c
      <4>1. HasFields([p EXCEPT !.samples = part, !.time = c, !.x0 = y0, !.xn = yn], key, name, c, part, y0, yn)
        BY ONLY PacketCut DEF p
      <4> QED
        BY ONLY <4>1 DEF c
    <3>3. HasFields(Trimmed(p), key, name, p.time + RF, part, y0, yn)
      BY ONLY <3>1, <3>2
    <3> QED
      BY ONLY <2>3, <3>3
  <2> QED
    BY ONLY <2>1, <2>2, <2>3
<1> QED
  BY ONLY <1>5, <1>6, <1>7 DEF p

\* Of n samples from a on, t has those in the window, and nothing if there are none;
\* or the window is empty and t has them all.
TrimmedTo(t, key, name, w, a, n) ==
  /\ t.samples = <<>> => \A s \in a .. a + n - 1 : ~InWindow(s)
  /\ t.samples # <<>> =>
       \E b \in Nat, m \in Nat : \E part, y0, yn :
         /\ HasFields(t, key, name, b, part, y0, yn)
         /\ Recording(t, w, b, m)
         /\ a <= b /\ b + m <= a + n
         /\ \/ \A s \in a .. a + n - 1 : InWindow(s) <=> b <= s /\ s < b + m
            \/ window.end <= window.start /\ b = a /\ m = n

\* nmxp_data_trim(): whatever the limits of the window are, of a packet with any
\* samples of a series exactly those in the window are left, still at their times,
\* with the values before and after the cut; but if the window does not start before
\* its end the packet may be left whole, as it is when nmxp_data_trim() fails.
THEOREM TrimmedRight ==
  ASSUME WindowIs, NEW w, NEW a \in Nat, NEW n \in Nat, NEW key, NEW name, NEW samples, NEW x0, NEW xn,
         Recording(DataPacket(key, name, a, samples, x0, xn), w, a, n)
  PROVE  TrimmedTo(Trimmed(DataPacket(key, name, a, samples, x0, xn)), key, name, w, a, n)
<1> DEFINE p == DataPacket(key, name, a, samples, x0, xn)
           t == Trimmed(p)
           first == 2 * a
           last == first + 2 * n
           rf == RemovedFirst(first, last, n)
           rl == RemovedLast(first, last)
           left == n - (rf + rl)
<1>1. window.start < window.end =>
        /\ rf \in 0 .. n /\ rl \in 0 .. n /\ left \in 0 .. n
        /\ \A s \in a .. a + n - 1 : InWindow(s) <=> a + rf <= s /\ s < (a + n) - rl
  BY TrimArithmetic
<1>2. window.end <= window.start => left \in Int /\ left <= 0 /\ \A s \in a .. a + n - 1 : ~InWindow(s)
  BY EmptyArithmetic
<1>3. window.start < window.end \/ window.end <= window.start
  BY DEF WindowIs
<1>4. /\ samples \in Seq(Int) /\ Len(samples) = n
      /\ \A i \in 1 .. n : samples[i] = w[(a + i) - 1]
      /\ x0 = w[a] /\ xn = w[a + n]
  <2>1. p.samples = samples /\ p.time = a /\ p.x0 = x0 /\ p.xn = xn
    BY PacketFields DEF HasFields
  <2>2. Recording(p, w, a, n)
    OBVIOUS
  <2> HIDE DEF p
  <2> QED
    BY ONLY <2>1, <2>2 DEF Recording
<1> DEFINE whole == left < 0 \/ rf + rl = 0
<1>5. /\ whole => HasFields(t, key, name, a, samples, x0, xn)
      /\ ~whole /\ left = 0 => HasFields(t, key, name, a, <<>>, -1, -1)
      /\ ~whole /\ left # 0 =>
           HasFields(t, key, name, a + rf, SubSeq(samples, rf + 1, rf + left),
                     IF rf > 0 THEN samples[rf + 1] ELSE x0,
                     IF rl > 0 THEN samples[n - rl + 1] ELSE xn)
  <2>1. n = Len(samples)
    BY <1>4
  <2> QED
    BY ONLY <2>1, TrimmedIs
<1> HIDE DEF rf, rl, left, p, t
<1>6. CASE window.start < window.end
  <2>1. /\ rf \in 0 .. n /\ rl \in 0 .. n /\ left \in 0 .. n
        /\ \A s \in a .. a + n - 1 : InWindow(s) <=> a + rf <= s /\ s < (a + n) - rl
    BY <1>1, <1>6
  <2>5. rf \in Nat /\ rl \in Nat /\ left \in Nat /\ (a + rf) + left = (a + n) - rl /\ rf + left <= n /\ a + rf \in Nat
    BY <2>1 DEF left
  <2>6. CASE left > 0 /\ rf + rl # 0
    <3> DEFINE b == a + rf
               part == SubSeq(samples, rf + 1, rf + left)
               y0 == IF rf > 0 THEN samples[rf + 1] ELSE x0
               yn == IF rl > 0 THEN samples[n - rl + 1] ELSE xn
    <3>1. HasFields(t, key, name, b, part, y0, yn)
      BY <1>5, <2>5, <2>6
    <3>2. /\ part \in Seq(Int) /\ Len(part) = left
          /\ \A i \in 1 .. left : part[i] = samples[rf + i]
      <4> DEFINE l == rf + 1
                 r == rf + left
      <4>1. l \in Int /\ r \in Int /\ \A i \in l .. r : samples[i] \in Int
        BY <1>4, <2>5
      <4>2. l <= r /\ r - l + 1 = left /\ \A i \in 1 .. left : l + i - 1 = rf + i
        BY <2>5, <2>6
      <4> HIDE DEF l, r
      <4>3. /\ SubSeq(samples, l, r) \in Seq(Int)
            /\ Len(SubSeq(samples, l, r)) = IF l <= r THEN r - l + 1 ELSE 0
            /\ \A i \in 1 .. (r - l + 1) : SubSeq(samples, l, r)[i] = samples[l + i - 1]
        BY ONLY <4>1, SubSeqProperties
      <4>4. part = SubSeq(samples, l, r)
        BY DEF l, r
      <4> HIDE DEF part
      <4> QED
        BY ONLY <4>2, <4>3, <4>4
    <3> HIDE DEF part
    <3>3. \A i \in 1 .. left : part[i] = w[(b + i) - 1]
      <4> SUFFICES ASSUME NEW i \in 1 .. left PROVE part[i] = w[(b + i) - 1]
        OBVIOUS
      <4>1. rf + i \in 1 .. n /\ (a + (rf + i)) - 1 = (b + i) - 1
        BY <2>5
      <4> QED
        BY <1>4, <3>2, <4>1
    <3>4. y0 = w[b]
      <4>1. CASE rf > 0
        <5>1. rf + 1 \in 1 .. n /\ (a + (rf + 1)) - 1 = b
          BY <2>5, <2>6
        <5> QED
          BY <1>4, <4>1, <5>1
      <4>2. CASE ~(rf > 0)
        BY <1>4, <2>5, <4>2
      <4> QED
        BY <4>1, <4>2
    <3>5. yn = w[b + left]
      <4>1. CASE rl > 0
        <5>1. n - rl + 1 \in 1 .. n /\ (a + (n - rl + 1)) - 1 = b + left
          BY <2>1, <2>5, <4>1
        <5> QED
          BY <1>4, <4>1, <5>1
      <4>2. CASE ~(rl > 0)
        <5>1. b + left = a + n
          BY <2>5, <4>2
        <5> QED
          BY <1>4, <4>2, <5>1
      <4> QED
        BY <4>1, <4>2
    <3> HIDE DEF y0, yn
    <3>6. Recording(t, w, b, left)
      <4>1. t.samples = part /\ t.time = b /\ t.x0 = y0 /\ t.xn = yn
        BY ONLY <3>1 DEF HasFields
      <4> QED
        BY ONLY <3>2, <3>3, <3>4, <3>5, <4>1 DEF Recording
    <3>7. t.samples = part /\ part # <<>>
      <4>1. t.samples = part
        BY ONLY <3>1 DEF HasFields
      <4>2. part # <<>>
        BY <2>6, <3>2
      <4> QED
        BY ONLY <4>1, <4>2
    <3>8. a <= b /\ b + left <= a + n /\ b \in Nat /\ b + left = (a + n) - rl
      BY <2>5
    <3>9. \A s \in a .. a + n - 1 : InWindow(s) <=> b <= s /\ s < b + left
      BY <2>1, <3>8
    <3> HIDE DEF b
    <3> QED
      BY ONLY <2>5, <3>1, <3>6, <3>7, <3>8, <3>9 DEF p, t, TrimmedTo
  <2>7. CASE left = 0
    <3>1. t.samples = <<>>
      <4>1. CASE rf + rl = 0
        <5>1. n = 0
          BY <2>7, <4>1 DEF left
        <5>2. t.samples = samples
          BY <1>5, <4>1 DEF HasFields
        <5>3. samples = <<>>
          BY <1>4, <5>1
        <5> QED
          BY <5>2, <5>3
      <4>2. CASE rf + rl # 0
        <5>1. HasFields(t, key, name, a, <<>>, -1, -1)
          BY <1>5, <2>5, <2>7, <4>2
        <5> QED
          BY <5>1 DEF HasFields
      <4> QED
        BY <4>1, <4>2
    <3>2. \A s \in a .. a + n - 1 : ~(a + rf <= s /\ s < (a + n) - rl)
      BY <2>5, <2>7
    <3>3. \A s \in a .. a + n - 1 : ~InWindow(s)
      BY ONLY <2>1, <3>2
    <3> QED
      BY ONLY <3>1, <3>3 DEF p, t, TrimmedTo
  <2>8. CASE left > 0 /\ rf + rl = 0
    <3>1. rf = 0 /\ rl = 0 /\ left = n /\ n > 0
      BY <2>5, <2>8 DEF left
    <3>2. HasFields(t, key, name, a, samples, x0, xn)
      BY <1>5, <2>8
    <3>3. t.samples = samples /\ t.time = a /\ t.x0 = x0 /\ t.xn = xn
      BY <3>2 DEF HasFields
    <3>4. Recording(t, w, a, n)
      BY <1>4, <3>3 DEF Recording
    <3>5. t.samples # <<>>
      BY <1>4, <3>1, <3>3
    <3>6. \A s \in a .. a + n - 1 : InWindow(s) <=> a <= s /\ s < a + n
      BY <2>1, <3>1
    <3>7. a <= a /\ a + n <= a + n
      OBVIOUS
    <3> QED
      BY ONLY <3>2, <3>4, <3>5, <3>6, <3>7, a \in Nat, n \in Nat DEF p, t, TrimmedTo
  <2> QED
    BY <2>5, <2>6, <2>7, <2>8
<1>7. CASE window.end <= window.start
  <2>1. left \in Int /\ left <= 0 /\ \A s \in a .. a + n - 1 : ~InWindow(s)
    BY <1>7, <1>2
  <2>2. CASE t.samples = <<>>
    BY ONLY <2>1, <2>2 DEF p, t, TrimmedTo
  <2>3. CASE t.samples # <<>>
    <3>1. whole
      BY <1>5, <2>1, <2>3 DEF HasFields
    <3>2. HasFields(t, key, name, a, samples, x0, xn)
      BY <1>5, <3>1
    <3>3. t.samples = samples /\ t.time = a /\ t.x0 = x0 /\ t.xn = xn
      BY <3>2 DEF HasFields
    <3>4. Recording(t, w, a, n)
      BY <1>4, <3>3 DEF Recording
    <3>5. a <= a /\ a + n <= a + n
      OBVIOUS
    <3> QED
      BY ONLY <1>7, <2>3, <3>2, <3>4, <3>5, a \in Nat, n \in Nat DEF p, t, TrimmedTo
  <2> QED
    BY <2>2, <2>3
<1> QED
  BY <1>6, <1>7, <1>3

-----------------------------------------------------------------------------
(* What is handled                                                         *)

\* The samples of s that main() should handle are those that p has.
Right(p, s) ==
  IF ~p.handled
    THEN mode = "dap" /\ (Times(s) = {} \/ subset[req].key # s.key)
    ELSE LET wave == Wave(s.key)
             last == p.time + Len(p.samples)
         IN  /\ p.key = s.key
             /\ \/ p.time .. last - 1 = Times(s)
                \/ EmptyWindow /\ p.time .. last - 1 = AllTimes(s)
             /\ p.samples = SubSeq(wave, p.time, last - 1)
             /\ p.significant => p.x0 = wave[p.time] /\ p.xn = wave[last]
             /\ \E i \in DOMAIN subset :
                  subset[i] = [key |-> p.key, net |-> p.net, sta |-> p.sta, cha |-> p.cha, loc |-> p.loc]

LEMMA RightNext ==
  ASSUME NEW p, NEW s, p = pd', s = sent', UNCHANGED <<mode, window, subset, req>>,
         pc' = "handled" => Right(p, s)
  PROVE  PacketRight'
<1> SUFFICES ASSUME pc' = "handled" PROVE Right(pd, sent)'
  BY DEF PacketRight, Right
<1>1. \A t : Wanted(t)' <=> Wanted(t)
  BY DEF Wanted
<1>2. Times(sent)' = Times(s) /\ AllTimes(sent)' = AllTimes(s) /\ (EmptyWindow' <=> EmptyWindow)
  BY <1>1 DEF Times, AllTimes, EmptyWindow
<1>3. Right(p, s)
  OBVIOUS
<1> QED
  BY ONLY <1>2, <1>3, p = pd', s = sent', UNCHANGED <<mode, subset, req>> DEF Right

LEMMA SamplesAre ==
  ASSUME NEW w, NEW s \in Seq(Int), NEW b \in Nat, NEW m \in Nat, Len(s) = m,
         \A i \in 1 .. m : s[i] = w[(b + i) - 1]
  PROVE  s = SubSeq(w, b, (b + m) - 1)
<1> DEFINE r == (b + m) - 1
           q == SubSeq(w, b, r)
<1>1. \A i \in b .. r : w[i] \in Int
  <2> SUFFICES ASSUME NEW i \in b .. r PROVE w[i] \in Int
    OBVIOUS
  <2>1. (i - b) + 1 \in 1 .. m /\ (b + ((i - b) + 1)) - 1 = i
    OBVIOUS
  <2>2. s[(i - b) + 1] = w[i]
    BY <2>1
  <2>3. s[(i - b) + 1] \in Int
    BY <2>1
  <2> QED
    BY <2>2, <2>3
<1>2. b \in Int /\ r \in Int /\ m \in Nat
  OBVIOUS
<1>3. (IF b <= r THEN r - b + 1 ELSE 0) = m /\ \A i \in 1 .. m : i \in 1 .. (r - b + 1) /\ b + i - 1 = (b + i) - 1
  OBVIOUS
<1> HIDE DEF r
<1>4. /\ q \in Seq(Int)
      /\ Len(q) = IF b <= r THEN r - b + 1 ELSE 0
      /\ \A i \in 1 .. (r - b + 1) : q[i] = w[b + i - 1]
  BY ONLY <1>1, <1>2, SubSeqProperties
<1> HIDE DEF q
<1>5. q \in Seq(Int) /\ Len(q) = m /\ \A i \in 1 .. m : q[i] = s[i]
  BY <1>3, <1>4
<1>6. q = s
  BY ONLY <1>5, s \in Seq(Int), Len(s) = m, m \in Nat
<1> QED
  BY <1>6 DEF q, r

LEMMA SelectionFields ==
  ASSUME NEW x \in Selections
  PROVE  x = [key |-> x.key, net |-> x.net, sta |-> x.sta, cha |-> x.cha, loc |-> x.loc]
<1>1. PICK c \in ServerChannel, parts \in Seq(Code) : x = Named(c, parts)
  BY DEF Selections
<1> QED
  BY <1>1 DEF Named

NamedBy(p, name) ==
  /\ p.handled /\ p.key = name.key
  /\ p.net = name.net /\ p.sta = name.sta /\ p.cha = name.cha /\ p.loc = name.loc

PartOf(p, w, b, m) ==
  /\ p.time = b /\ p.samples \in Seq(Int) /\ Len(p.samples) = m
  /\ \A j \in 1 .. m : p.samples[j] = w[(b + j) - 1]
  /\ p.significant => p.x0 = w[b] /\ p.xn = w[b + m]

\* Of n samples from a on, main() wants those from b to b + m - 1, or handles them all
\* because the window is empty.
WantedPart(a, n, b, m) ==
  /\ a <= b /\ b + m <= a + n
  /\ \/ \A t \in a .. a + n - 1 : Wanted(t) <=> b <= t /\ t < b + m
     \/ EmptyWindow /\ b = a /\ m = n

LEMMA PacketIsRight ==
  ASSUME subset \in Seq(Selections), NEW i \in 1 .. Len(subset), NEW p, NEW s, NEW w,
         NEW a \in Nat, NEW n \in Nat, NEW b \in Nat, NEW m \in Nat,
         NamedBy(p, subset[i]), PartOf(p, w, b, m), WantedPart(a, n, b, m),
         s.key = p.key, s.time = a, s.size = n, w = Wave(s.key)
  PROVE  Right(p, s)
<1>1. subset[i] \in Selections /\ i \in DOMAIN subset
  OBVIOUS
<1>2. subset[i] = [key |-> p.key, net |-> p.net, sta |-> p.sta, cha |-> p.cha, loc |-> p.loc]
  BY <1>1, SelectionFields DEF NamedBy
<1>3. p.samples = SubSeq(w, b, (b + m) - 1)
  BY SamplesAre DEF PartOf
<1>4. \/ b .. (b + m) - 1 = Times(s)
      \/ EmptyWindow /\ b .. (b + m) - 1 = AllTimes(s)
  <2>1. AllTimes(s) = a .. (a + n) - 1 /\ Times(s) = {t \in a .. (a + n) - 1 : Wanted(t)}
    BY DEF Times, AllTimes
  <2>2. \A t \in b .. (b + m) - 1 : t \in a .. (a + n) - 1 /\ b <= t /\ t < b + m
    BY DEF WantedPart
  <2>3. CASE \A t \in a .. (a + n) - 1 : Wanted(t) <=> b <= t /\ t < b + m
    <3>1. \A t \in a .. (a + n) - 1 : b <= t /\ t < b + m => t \in b .. (b + m) - 1
      OBVIOUS
    <3> QED
      BY ONLY <2>1, <2>2, <2>3, <3>1
  <2>4. CASE EmptyWindow /\ b = a /\ m = n
    BY ONLY <2>1, <2>4
  <2> QED
    BY ONLY <2>3, <2>4, WantedPart(a, n, b, m) DEF WantedPart
<1> QED
  BY <1>1, <1>2, <1>3, <1>4 DEF Right, NamedBy, PartOf

\* nmxp_chan_lookupKeyIndex(): the channel of the request, or another one.
LEMMA LookupKeyIndexIs ==
  ASSUME subset \in Seq(Selections), NEW k \in 1 .. Len(subset),
         \A l, i \in 1 .. Len(subset) : subset[l].key = subset[i].key => l = i
  PROVE  LookupKeyIndex(subset[k].key, subset) = k
<1> DEFINE key == subset[k].key
           Having == {i \in 1 .. Len(subset) : subset[i].key = key}
<1>1. DOMAIN subset = 1 .. Len(subset) /\ Len(subset) \in Nat
  OBVIOUS
<1>2. Having = {k}
  OBVIOUS
<1>3. LookupKeyIndex(key, subset) = IF Having = {} THEN -1 ELSE CHOOSE i \in Having : \A l \in Having : i <= l
  BY <1>1 DEF LookupKeyIndex
<1> HIDE DEF Having, key
<1>4. (CHOOSE i \in Having : \A l \in Having : i <= l) = k
  BY <1>1, <1>2
<1> QED
  BY <1>2, <1>3, <1>4 DEF key

LEMMA ProcessRight ==
  ASSUME NEW message, NEW out, NEW w, NEW key, NEW a, NEW x, NEW name, Recorded(out, w, a, x),
         message.key = key, message.time = a, name = LookupName(key, subset), name # None
  PROVE  /\ Process(message, out) = DataPacket(key, name, a, Front(out), Head(out), Last(out))
         /\ Recording(Process(message, out), w, a, x - a)
         /\ Process(message, out) # NoPacket
<1> DEFINE p == Process(message, out)
<1>1. p = DataPacket(key, name, a, Front(out), Head(out), Last(out))
  BY DEF Process, OwnSamples, DataPacket
<1>2. p.handled /\ p.time = a /\ p.samples = Front(out) /\ p.x0 = Head(out) /\ p.xn = Last(out)
  BY <1>1, PacketFields DEF HasFields
<1> HIDE DEF p
<1>3. /\ out \in Seq(Int) /\ a \in Nat /\ x \in Nat /\ a <= x /\ Len(out) = (x - a) + 1
      /\ \A i \in 1 .. Len(out) : out[i] = w[(a + i) - 1]
  BY DEF Recorded
<1> DEFINE n == x - a
<1>4. n \in Nat /\ Len(out) = n + 1 /\ x = a + n
  BY <1>3
<1> HIDE DEF n
<1>5. Head(out) = w[a]
  <2>1. 1 \in 1 .. Len(out) /\ (a + 1) - 1 = a
    BY <1>3, <1>4
  <2>2. Head(out) = out[1]
    BY <1>3, <1>4
  <2> QED
    BY <1>3, <2>1, <2>2
<1>6. Last(out) = w[a + n]
  <2>1. n + 1 \in 1 .. Len(out) /\ (a + (n + 1)) - 1 = a + n
    BY <1>3, <1>4
  <2> QED
    BY <1>3, <1>4, <2>1 DEF Last
<1>7. Front(out) \in Seq(Int) /\ Len(Front(out)) = n /\ \A i \in 1 .. n : Front(out)[i] = out[i]
  <2> DEFINE r == Len(out) - 1
  <2>1. \A i \in 1 .. r : out[i] \in Int
    BY <1>3
  <2>2. r = n /\ r \in Int /\ 1 \in Int
    BY <1>4
  <2>3. Front(out) = SubSeq(out, 1, r)
    BY DEF Front
  <2> HIDE DEF r
  <2>4. /\ SubSeq(out, 1, r) \in Seq(Int)
        /\ Len(SubSeq(out, 1, r)) = IF 1 <= r THEN r - 1 + 1 ELSE 0
        /\ \A i \in 1 .. (r - 1 + 1) : SubSeq(out, 1, r)[i] = out[1 + i - 1]
    BY ONLY <2>1, <2>2, SubSeqProperties
  <2>5. (IF 1 <= n THEN n - 1 + 1 ELSE 0) = n /\ \A i \in 1 .. n : i \in 1 .. (n - 1 + 1) /\ 1 + i - 1 = i
    BY <1>4
  <2> HIDE DEF n
  <2> QED
    BY ONLY <2>2, <2>3, <2>4, <2>5
<1>8. \A i \in 1 .. n : Front(out)[i] = w[(a + i) - 1]
  BY <1>3, <1>4, <1>7
<1>9. Recording(p, w, a, n)
  BY ONLY <1>2, <1>5, <1>6, <1>7, <1>8 DEF Recording
<1>10. p # NoPacket
  <2>1. ~NoPacket.handled
    BY DEF NoPacket
  <2> QED
    BY ONLY <1>2, <2>1
<1> QED
  BY <1>1, <1>9, <1>10 DEF p, n

-----------------------------------------------------------------------------
(* The flows of main()                                                     *)

HandlingOK ==
  /\ req \in Nat \ {0}
  /\ mode = "dap" => WindowIs
  /\ pc \notin {"receive", "handled", "exit"} => req = 1
  /\ pc \in {"receive", "handled"} => req <= Len(subset)
  /\ pc \notin {"handled", "exit"} => sent = NothingSent

LEMMA HandlingInit == Init => HandlingOK
<1> SUFFICES ASSUME Init PROVE HandlingOK
  OBVIOUS
<1>1. pc = "start" /\ req = 1 /\ sent = NothingSent
  BY DEF Init, ChanInit
<1>2. mode = "dap" => WindowIs
  BY WindowsAssumption DEF Init, WindowIs
<1> QED
  BY <1>1, <1>2 DEF HandlingOK

LEMMA ChannelSteps ==
  ASSUME ChanTypes, ChanNext
  PROVE  /\ UNCHANGED mode
         /\ pc \in {"start", "precis", "info", "subset", "print"}
         /\ \/ pc' \in {"start", "precis", "info", "subset", "print", "exit"}
            \/ pc' = "receive" /\ UNCHANGED subset /\ Len(subset) \in Nat \ {0}
<1>1. ASSUME Selected
      PROVE  /\ UNCHANGED <<mode, subset>> /\ pc = "subset"
             /\ pc' = "exit" \/ (pc' = "receive" /\ Len(subset) \in Nat \ {0})
  <2>1. UNCHANGED <<mode, subset>> /\ pc = "subset" /\ pc' = IF subset = <<>> THEN "exit" ELSE "receive"
    BY <1>1 DEF Selected, matching
  <2>2. subset # <<>> => Len(subset) \in Nat \ {0}
    BY DEF ChanTypes
  <2> QED
    BY <2>1, <2>2
<1>2. ASSUME GetType \/ FromNaqs \/ AddItem \/ FromDataServer
      PROVE  UNCHANGED mode /\ pc = "start" /\ pc' \in {"start", "precis", "subset", "print"}
  BY <1>2 DEF GetType, FromNaqs, AddItem, FromDataServer
<1>3. ASSUME Precis \/ PrecisEnd \/ Info \/ InfoEnd
      PROVE  UNCHANGED mode /\ pc \in {"precis", "info"} /\ pc' \in {"precis", "info", "print", "subset"}
  BY <1>3 DEF Precis, PrecisEnd, Info, InfoEnd
<1>4. ASSUME MatchOne \/ NextPattern
      PROVE  UNCHANGED mode /\ pc = "subset" /\ pc' = "subset"
  BY <1>4 DEF MatchOne, NextPattern
<1>5. ASSUME PrintOne \/ PrintEnd
      PROVE  UNCHANGED mode /\ pc = "print" /\ pc' \in {"print", "exit"}
  BY <1>5 DEF PrintOne, PrintEnd
<1> QED
  BY <1>1, <1>2, <1>3, <1>4, <1>5 DEF ChanNext

LEMMA HandlingNext == ChanTypes /\ HandlingOK /\ [Next]_vars => HandlingOK'
<1> SUFFICES ASSUME ChanTypes, HandlingOK, [Next]_vars PROVE HandlingOK'
  OBVIOUS
<1>1. CASE ChanNext /\ UNCHANGED <<window, req, sent, pd>>
  <2>1. WindowIs' <=> WindowIs
    BY <1>1 DEF WindowIs
  <2>2. UNCHANGED mode
    BY <1>1, ChannelSteps
  <2>3. pc' \in {"start", "precis", "info", "subset", "print", "exit"} => HandlingOK'
    BY <1>1, <2>1, <2>2, ChannelSteps DEF HandlingOK
  <2>4. pc' = "receive" => HandlingOK'
    BY <1>1, <2>1, <2>2, ChannelSteps DEF HandlingOK
  <2> QED
    BY <1>1, <2>3, <2>4, ChannelSteps
<1>2. CASE Receive \/ ReceiveDecompressed \/ ReceiveFiller
  <2>1. UNCHANGED <<mode, window, req, subset>> /\ pc = "receive" /\ pc' \in {"handled", "exit"}
    <3>1. CASE Receive
      BY <3>1 DEF Receive, matching
    <3>2. CASE ReceiveDecompressed
      BY <3>2 DEF ReceiveDecompressed, matching
    <3>3. CASE ReceiveFiller
      BY <3>3 DEF ReceiveFiller, matching
    <3> QED
      BY <1>2, <3>1, <3>2, <3>3
  <2>2. WindowIs' <=> WindowIs
    BY <2>1 DEF WindowIs
  <2> QED
    BY <2>1, <2>2 DEF HandlingOK
<1>3. CASE Release
  <2>1. UNCHANGED <<mode, window, subset>> /\ pc = "handled" /\ sent' = NothingSent
    BY <1>3 DEF Release, matching
  <2>2. \/ pc' = "receive" /\ req' = req
        \/ req' = req + 1 /\ pc' = IF req' <= Len(subset) THEN "receive" ELSE "exit"
    BY <1>3 DEF Release
  <2>3. WindowIs' <=> WindowIs
    BY <2>1 DEF WindowIs
  <2> QED
    BY <2>1, <2>2, <2>3 DEF HandlingOK
<1>4. CASE UNCHANGED vars
  <2>1. UNCHANGED <<mode, window, req, subset, pc, sent>>
    BY <1>4 DEF vars, chanVars, matching
  <2>2. WindowIs' <=> WindowIs
    BY <2>1 DEF WindowIs
  <2> QED
    BY <2>1, <2>2 DEF HandlingOK
<1> QED
  BY <1>1, <1>2, <1>3, <1>4 DEF Next

LEMMA KeysAreNat ==
  ASSUME ChanTypes
  PROVE  /\ Keys \subseteq Nat
         /\ mode # "dap" => \A key \in Keys : InSubset(key)
<1>1. \A x \in Selections : x.key \in Nat
  BY DEF Selections, Named, ServerChannel
<1>2. \A i \in 1 .. Len(subset) : subset[i].key \in Nat
  <2>1. \A i \in 1 .. Len(subset) : subset[i] \in Selections
    BY DEF ChanTypes
  <2> QED
    BY <1>1, <2>1
<1>3. \A m \in 1 .. Len(channels) : channels[m].key \in Nat
  BY ElementTypes
<1>4. DOMAIN subset = 1 .. Len(subset) /\ DOMAIN channels = 1 .. Len(channels)
  BY DEF ChanTypes
<1> QED
  BY <1>2, <1>3, <1>4 DEF Keys, InSubset

\* What a data message does to the packet.
DataMessage(key, at, n, least, padded, partial) ==
  LET e == Encoded(Wave(key), at, n, least)
      message == Compressed(key, at, e.fields, padded, partial)
      u == UnpackAll(Signed(message.x0, X0Size), message.bundles, message.partial)
      p == Process(message, u.out)
      exits == p # NoPacket /\ u.exit
      t == IF mode = "dap" /\ p # NoPacket THEN Trimmed(p) ELSE p
  IN  /\ sent' = SentPacket(key, at, e.off, Len(message.bundles), partial /\ ~padded)
      /\ pd' = IF ~exits /\ Handled(t) THEN t ELSE NoPacket
      /\ pc' = IF exits THEN "exit" ELSE "handled"

LEMMA ReceiveEffect ==
  ASSUME ChanTypes, Receive
  PROVE  \E key \in Nat : \E at \in Starting(key) : \E n \in Nat, least \in 1 .. 3, padded, partial \in BOOLEAN :
           key \in Keys /\ DataMessage(key, at, n, least, padded, partial)
<1>1. FieldCounts \subseteq Nat /\ Keys \subseteq Nat
  BY BoundsAssumption, KeysAreNat
<1>2. PICK key \in Keys : \E at \in Starting(key) : \E n \in FieldCounts, least \in 1 .. 3, padded, partial \in BOOLEAN :
        DataMessage(key, at, n, least, padded, partial)
  BY ONLY Receive DEF Receive, DataMessage
<1>3. PICK at \in Starting(key) : \E n \in FieldCounts, least \in 1 .. 3, padded, partial \in BOOLEAN :
        DataMessage(key, at, n, least, padded, partial)
  BY ONLY <1>2
<1>4. \E n \in Nat, least \in 1 .. 3, padded, partial \in BOOLEAN : DataMessage(key, at, n, least, padded, partial)
  BY ONLY <1>1, <1>3
<1> QED
  BY ONLY <1>1, <1>4, key \in Keys, at \in Starting(key)

LEMMA EndsNext == ChanTypes /\ Selecting /\ HandlingOK /\ EndsOnlyIfUnreadable /\ [Next]_vars => EndsOnlyIfUnreadable'
<1> SUFFICES ASSUME ChanTypes, Selecting, HandlingOK, EndsOnlyIfUnreadable, [Next]_vars, pc' = "exit", sent' # NothingSent
             PROVE  sent' = Filler \/ sent'.bundles * 4 * Fields + 1 > MaxOut \/ sent'.cutoff
  BY DEF EndsOnlyIfUnreadable
<1>1. CASE ChanNext /\ UNCHANGED <<window, req, sent, pd>>
  BY <1>1, ChannelSteps DEF HandlingOK
<1>2. CASE Receive
  <2>1. PICK key \in Nat : \E at \in Starting(key) : \E n \in Nat, least \in 1 .. 3, padded, partial \in BOOLEAN :
           key \in Keys /\ DataMessage(key, at, n, least, padded, partial)
    BY <1>2, ReceiveEffect
  <2>2. PICK at \in Starting(key) : \E n \in Nat, least \in 1 .. 3, padded, partial \in BOOLEAN :
           key \in Keys /\ DataMessage(key, at, n, least, padded, partial)
    BY <2>1
  <2>3. PICK n \in Nat, least \in 1 .. 3, padded, partial \in BOOLEAN :
           key \in Keys /\ DataMessage(key, at, n, least, padded, partial)
    BY <2>2
  <2> DEFINE e == Encoded(Wave(key), at, n, least)
             message == Compressed(key, at, e.fields, padded, partial)
             x0 == Signed(message.x0, X0Size)
             u == UnpackAll(x0, message.bundles, message.partial)
  <2>4. /\ message.bundles \in Seq(Bundle) /\ x0 \in Int /\ message.partial = partial
        /\ padded => \E b \in 1 .. Len(message.bundles) : IsNull(message.bundles[b])
    <3>1. message.bundles \in Seq(Bundle) /\ x0 \in Int
      BY ONLY key \in Nat, at \in Starting(key), n \in Nat, least \in 1 .. 3, padded \in BOOLEAN, partial \in BOOLEAN, MessageRight
    <3>2. message.partial = partial
      BY DEF Compressed
    <3>3. padded => \E b \in 1 .. Len(message.bundles) : IsNull(message.bundles[b])
      BY ONLY key \in Nat, at \in Starting(key), n \in Nat, least \in 1 .. 3, padded \in BOOLEAN, partial \in BOOLEAN, MessageRight
    <3> QED
      BY ONLY <3>1, <3>2, <3>3
  <2>5. u.exit /\ sent' = SentPacket(key, at, e.off, Len(message.bundles), partial /\ ~padded)
    BY ONLY <2>3, pc' = "exit" DEF DataMessage
  <2>6. sent'.bundles = Len(message.bundles) /\ sent'.cutoff = (partial /\ ~padded)
    BY ONLY <2>5 DEF SentPacket
  <2> HIDE DEF message, x0
  <2>7. \/ Len(message.bundles) * 4 * Fields + 1 > MaxOut
        \/ partial /\ \A b \in 1 .. Len(message.bundles) : ~IsNull(message.bundles[b])
    BY ONLY <2>4, <2>5, partial \in BOOLEAN, ExitIfUnreadable
  <2> QED
    BY ONLY <2>4, <2>6, <2>7
<1>3. CASE ReceiveDecompressed
  BY <1>3 DEF ReceiveDecompressed
<1>4. CASE ReceiveFiller
  BY <1>4 DEF ReceiveFiller
<1>5. CASE Release
  BY <1>5 DEF Release
<1>6. CASE UNCHANGED vars
  <2>1. UNCHANGED <<pc, sent>>
    BY <1>6 DEF vars, chanVars
  <2> QED
    BY <2>1 DEF EndsOnlyIfUnreadable
<1> QED
  BY <1>1, <1>2, <1>3, <1>4, <1>5, <1>6 DEF Next

\* A packet that a data message brings.
LEMMA DataIsRight ==
  ASSUME ChanTypes, Selecting, HandlingOK, pc = "receive",
         NEW p, NEW s, NEW key \in Keys, NEW at \in Starting(key), NEW n \in Nat, NEW least \in 1 .. 3, NEW padded \in BOOLEAN, NEW partial \in BOOLEAN,
         p = pd', s = sent', DataMessage(key, at, n, least, padded, partial), pc' # "exit"
  PROVE  Right(p, s)
<1> DEFINE e == Encoded(Wave(key), at, n, least)
           message == Compressed(key, at, e.fields, padded, partial)
           u == UnpackAll(Signed(message.x0, X0Size), message.bundles, message.partial)
           w == Wave(key)
           x == at + e.off
           name == LookupName(key, subset)
           q == Process(message, u.out)
           t == IF mode = "dap" /\ q # NoPacket THEN Trimmed(q) ELSE q
           size == Len(message.bundles)
<1>1. key \in Nat
  BY KeysAreNat
<1>2. at \in Nat /\ e.off \in Nat /\ (~u.exit => Recorded(u.out, w, at, x))
  <2>1. at \in 1 .. Len(w) /\ w \in Seq(Int) /\ e.off \in Nat /\ (~u.exit => Recorded(u.out, w, at, x))
    BY ONLY <1>1, at \in Starting(key), n \in Nat, least \in 1 .. 3, padded \in BOOLEAN, partial \in BOOLEAN, MessageRight
  <2> HIDE DEF w
  <2>2. at \in Nat
    BY ONLY <2>1
  <2> QED
    BY ONLY <2>1, <2>2
<1>3. /\ s = SentPacket(key, at, e.off, size, partial /\ ~padded)
      /\ ~(q # NoPacket /\ u.exit)
      /\ p = IF Handled(t) THEN t ELSE NoPacket
  BY ONLY DataMessage(key, at, n, least, padded, partial), pc' # "exit", p = pd', s = sent' DEF DataMessage
<1>4. message.key = key /\ message.time = at
  BY DEF Compressed
<1>5. s.key = key /\ s.time = at /\ s.size = e.off
  BY ONLY <1>3 DEF SentPacket
<1>6. /\ subset \in Seq(Selections)
      /\ \A i, j \in 1 .. Len(subset) : subset[i].key = subset[j].key => i = j
      /\ req \in 1 .. Len(subset)
  <2>1. subset \in Seq(Selections) /\ Len(subset) \in Nat
    BY DEF ChanTypes
  <2>2. \A i, j \in 1 .. Len(subset) : subset[i].key = subset[j].key => i = j
    BY DEF Selecting, SubsetOK
  <2> QED
    BY <2>1, <2>2 DEF HandlingOK
<1>7. /\ \A i \in 1 .. Len(subset) : subset[i].key = key => name = subset[i]
      /\ name = None <=> ~InSubset(key)
  BY ONLY <1>6, LookupNameIs
<1>8. mode # "dap" => InSubset(key)
  BY KeysAreNat
<1>9. ~NoPacket.handled /\ NoPacket.samples = <<>>
  BY DEF NoPacket
<1>10. \A k : Wanted(k) <=> (mode = "dap" => InWindow(k))
  BY DEF Wanted, InWindow
<1>11. Times(s) = {k \in at .. at + e.off - 1 : Wanted(k)}
  BY ONLY <1>5 DEF Times, AllTimes
<1>12. CASE name = None
  <2>1. q = NoPacket
    BY <1>4, <1>12 DEF Process
  <2>2. ~p.handled
    BY ONLY <1>3, <1>9, <2>1
  <2>3. ~InSubset(key) /\ mode = "dap"
    BY ONLY <1>7, <1>8, <1>12
  <2>4. subset[req].key # s.key
    BY ONLY <1>5, <1>6, <2>3 DEF InSubset
  <2> QED
    BY ONLY <2>2, <2>3, <2>4 DEF Right
<1>13. CASE name # None
  <2> DEFINE out == u.out
             d == DataPacket(key, name, at, Front(out), Head(out), Last(out))
  <2>1. PICK i \in 1 .. Len(subset) : subset[i].key = key
    BY ONLY <1>7, <1>13 DEF InSubset
  <2>2. name = subset[i]
    BY ONLY <1>7, <2>1
  <2> HIDE DEF message, e, u, w, x, name
  <2>3. q = d /\ Recording(q, w, at, x - at) /\ q # NoPacket
    <3>1. q # NoPacket => Recorded(out, w, at, x)
      BY ONLY <1>2, <1>3
    <3>2. q # NoPacket
      <4>1. q.handled
        <5>1. q = DataPacket(key, name, message.time, OwnSamples(out), Head(out), Last(out))
          BY ONLY <1>4, <1>13 DEF Process, DataPacket, name
        <5> QED
          BY ONLY <5>1, PacketFields DEF HasFields
      <4> QED
        BY ONLY <1>9, <4>1
    <3>3. Recorded(out, w, at, x)
      BY ONLY <3>1, <3>2
    <3>4. name = LookupName(key, subset)
      BY DEF name
    <3> HIDE DEF out
    <3>5. /\ Process(message, out) = DataPacket(key, name, at, Front(out), Head(out), Last(out))
          /\ Recording(Process(message, out), w, at, x - at)
          /\ Process(message, out) # NoPacket
      BY ONLY <1>4, <1>13, <3>3, <3>4, ProcessRight
    <3> QED
      BY ONLY <3>5 DEF out
  <2>4. x - at = e.off
    BY ONLY <1>2 DEF x
  <2>5. HasFields(q, key, name, at, Front(out), Head(out), Last(out))
    BY ONLY <2>3, PacketFields
  <2> HIDE DEF q
  <2>6. CASE mode # "dap"
    <3>1. t = q
      BY ONLY <2>6
    <3>2. Handled(t)
      BY ONLY <2>6 DEF Handled
    <3>3. /\ q.samples \in Seq(Int) /\ Len(q.samples) = e.off
          /\ \A k \in 1 .. e.off : q.samples[k] = w[(at + k) - 1]
          /\ q.time = at /\ q.x0 = w[at] /\ q.xn = w[at + e.off]
      BY ONLY <2>3, <2>4 DEF Recording
    <3>4. p = q
      BY ONLY <1>3, <3>1, <3>2
    <3>5. NamedBy(p, subset[i]) /\ p.key = key
      BY ONLY <2>1, <2>2, <2>5, <3>4 DEF HasFields, NamedBy
    <3>6. WantedPart(at, e.off, at, e.off)
      <4>1. at <= at /\ at + e.off <= at + e.off
        BY ONLY <1>2
      <4>2. \A k \in at .. at + e.off - 1 : Wanted(k) <=> at <= k /\ k < at + e.off
        BY ONLY <1>2, <1>10, <2>6
      <4> QED
        BY ONLY <4>1, <4>2 DEF WantedPart
    <3>7. PartOf(p, w, at, e.off)
      BY ONLY <3>3, <3>4 DEF PartOf
    <3>8. s.key = p.key /\ w = Wave(s.key)
      BY ONLY <1>5, <3>5 DEF w
    <3>9. e.off \in Nat /\ at \in Nat
      BY ONLY <1>2
    <3> QED
      BY ONLY <1>5, <1>6, <3>5, <3>6, <3>7, <3>8, <3>9, i \in 1 .. Len(subset), PacketIsRight
  <2>7. CASE mode = "dap"
    <3>1. t = Trimmed(d) /\ Recording(d, w, at, e.off) /\ WindowIs
      BY <2>3, <2>4, <2>7 DEF HandlingOK
    <3>2. TrimmedTo(t, key, name, w, at, e.off)
      <4> DEFINE y == Front(out)
                 z0 == Head(out)
                 zn == Last(out)
                 off == e.off
      <4>1. off \in Nat
        BY ONLY <1>2
      <4> HIDE DEF y, z0, zn, off
      <4>2. t = Trimmed(DataPacket(key, name, at, y, z0, zn)) /\ Recording(DataPacket(key, name, at, y, z0, zn), w, at, off)
        BY ONLY <3>1 DEF y, z0, zn, off
      <4>3. at \in Nat /\ WindowIs
        BY ONLY <1>2, <3>1
      <4> HIDE DEF t
      <4>4. TrimmedTo(t, key, name, w, at, off)
        BY ONLY <4>1, <4>2, <4>3, TrimmedRight
      <4> QED
        BY ONLY <4>4 DEF off
    <3>3. LookupKeyIndex(key, subset) = i
      BY ONLY <1>6, <2>1, LookupKeyIndexIs
    <3> HIDE DEF t
    <3>4. CASE t.samples = <<>>
      <4>1. p = NoPacket
        BY ONLY <1>3, <2>7, <3>4 DEF Handled
      <4>2. Times(s) = {}
        BY ONLY <1>10, <1>11, <2>7, <3>2, <3>4 DEF TrimmedTo
      <4> QED
        BY ONLY <1>9, <2>7, <4>1, <4>2 DEF Right
    <3>5. CASE t.samples # <<>>
      <4>1. PICK b \in Nat, m \in Nat : \E part, y0, yn :
                 /\ HasFields(t, key, name, b, part, y0, yn)
                 /\ Recording(t, w, b, m)
                 /\ at <= b /\ b + m <= at + e.off
                 /\ \/ \A k \in at .. at + e.off - 1 : InWindow(k) <=> b <= k /\ k < b + m
                    \/ window.end <= window.start /\ b = at /\ m = e.off
        BY ONLY <3>2, <3>5 DEF TrimmedTo
      <4>2. /\ t.handled /\ t.key = key /\ t.net = name.net /\ t.sta = name.sta
            /\ t.cha = name.cha /\ t.loc = name.loc
        BY ONLY <4>1 DEF HasFields
      <4>3. CASE ~Handled(t)
        <5>1. LookupKeyIndex(t.key, subset) # req
          BY ONLY <2>7, <3>5, <4>3 DEF Handled
        <5>2. subset[req].key # key
          BY ONLY <1>6, <2>1, <3>3, <4>2, <5>1
        <5>3. p = NoPacket
          BY ONLY <1>3, <4>3
        <5> QED
          BY ONLY <1>5, <1>9, <2>7, <5>2, <5>3 DEF Right
      <4>4. CASE Handled(t)
        <5>1. p = t
          BY ONLY <1>3, <4>4
        <5>2. NamedBy(p, subset[i]) /\ p.key = key
          BY ONLY <2>1, <2>2, <4>2, <5>1 DEF NamedBy
        <5>3. PartOf(p, w, b, m)
          BY ONLY <4>1, <5>1 DEF Recording, PartOf
        <5>4. WantedPart(at, e.off, b, m)
          BY ONLY <1>10, <2>7, <4>1 DEF WantedPart, EmptyWindow
        <5>5. s.key = p.key /\ w = Wave(s.key)
          BY ONLY <1>5, <5>2 DEF w
        <5>6. e.off \in Nat /\ at \in Nat /\ b \in Nat /\ m \in Nat
          BY ONLY <1>2, <4>1
        <5> QED
          BY ONLY <1>5, <1>6, <5>2, <5>3, <5>4, <5>5, <5>6, i \in 1 .. Len(subset), PacketIsRight
      <4> QED
        BY ONLY <4>3, <4>4
    <3> QED
      BY ONLY <3>4, <3>5
  <2> QED
    BY ONLY <2>6, <2>7
<1> QED
  BY ONLY <1>12, <1>13

\* A packet of short-term completion.
LEMMA DecompressedIsRight ==
  ASSUME ChanTypes, Selecting, HandlingOK, ReceiveDecompressed, NEW p, NEW s, p = pd', s = sent'
  PROVE  Right(p, s)
<1>1. PICK key \in Keys : \E at \in Starts : \E n \in 1 .. MaxSamples :
       LET name == LookupName(key, subset)
           samples == SubSeq(Wave(key), at, at + n - 1)
       IN  /\ at + n - 1 <= Len(Wave(key))
           /\ sent' = SentPacket(key, at, n, 0, FALSE)
           /\ pd' = [handled |-> TRUE, key |-> key,
                     net |-> name.net, sta |-> name.sta, cha |-> name.cha, loc |-> name.loc,
                     time |-> at, samples |-> samples, x0 |-> -1, xn |-> -1, significant |-> FALSE]
  BY DEF ReceiveDecompressed
<1>2. mode = "pds"
  BY DEF ReceiveDecompressed
<1> DEFINE w == Wave(key)
           name == LookupName(key, subset)
<1>3. PICK at \in Starts, n \in 1 .. MaxSamples :
       /\ at + n - 1 <= Len(w)
       /\ s = SentPacket(key, at, n, 0, FALSE)
       /\ p = [handled |-> TRUE, key |-> key,
               net |-> name.net, sta |-> name.sta, cha |-> name.cha, loc |-> name.loc,
               time |-> at, samples |-> SubSeq(w, at, at + n - 1), x0 |-> -1, xn |-> -1, significant |-> FALSE]
  BY ONLY <1>1, p = pd', s = sent'
<1>4. key \in Nat /\ InSubset(key)
  BY <1>2, KeysAreNat
<1>5. w \in Seq(Int)
  BY ONLY <1>4, WaveType
<1>6. at \in Nat \ {0} /\ n \in Nat /\ n >= 1
  BY BoundsAssumption
<1> HIDE DEF w, name
<1>7. p.handled /\ p.key = key /\ p.net = name.net /\ p.sta = name.sta /\ p.cha = name.cha /\ p.loc = name.loc
      /\ p.time = at /\ p.samples = SubSeq(w, at, at + n - 1) /\ ~p.significant
  BY ONLY <1>3
<1>8. s.key = key /\ s.time = at /\ s.size = n
  BY ONLY <1>3 DEF SentPacket
<1>9. PartOf(p, w, at, n)
  <2> DEFINE r == at + n - 1
  <2>1. at \in Int /\ r \in Int /\ \A i \in at .. r : w[i] \in Int
    BY <1>3, <1>5, <1>6
  <2>2. (IF at <= r THEN r - at + 1 ELSE 0) = n /\ \A i \in 1 .. n : i \in 1 .. (r - at + 1) /\ at + i - 1 = (at + i) - 1
    BY <1>6
  <2> HIDE DEF r
  <2>3. /\ SubSeq(w, at, r) \in Seq(Int)
        /\ Len(SubSeq(w, at, r)) = IF at <= r THEN r - at + 1 ELSE 0
        /\ \A i \in 1 .. (r - at + 1) : SubSeq(w, at, r)[i] = w[at + i - 1]
    BY ONLY <2>1, SubSeqProperties
  <2>4. p.samples = SubSeq(w, at, r)
    BY ONLY <1>7 DEF r
  <2> QED
    BY ONLY <1>7, <2>2, <2>3, <2>4 DEF PartOf
<1>10. WantedPart(at, n, at, n)
  <2>1. \A k : Wanted(k)
    BY <1>2 DEF Wanted
  <2>2. at <= at /\ at + n <= at + n /\ \A k \in at .. at + n - 1 : at <= k /\ k < at + n
    BY <1>6
  <2> QED
    BY ONLY <2>1, <2>2 DEF WantedPart
<1>11. PICK i \in 1 .. Len(subset) : subset[i].key = key
  BY <1>4 DEF InSubset
<1>12. /\ subset \in Seq(Selections)
       /\ \A k, l \in 1 .. Len(subset) : subset[k].key = subset[l].key => k = l
  BY DEF ChanTypes, Selecting, SubsetOK
<1>13. name = subset[i]
  BY ONLY <1>11, <1>12, LookupNameIs DEF name
<1>14. NamedBy(p, subset[i]) /\ s.key = p.key /\ w = Wave(s.key)
  BY ONLY <1>7, <1>8, <1>11, <1>13 DEF NamedBy, w
<1> QED
  BY ONLY <1>6, <1>8, <1>9, <1>10, <1>12, <1>14, i \in 1 .. Len(subset), PacketIsRight

LEMMA PacketNext == ChanTypes /\ Selecting /\ HandlingOK /\ PacketRight /\ [Next]_vars => PacketRight'
<1> SUFFICES ASSUME ChanTypes, Selecting, HandlingOK, PacketRight, [Next]_vars PROVE PacketRight'
  OBVIOUS
<1>1. CASE ChanNext /\ UNCHANGED <<window, req, sent, pd>>
  <2>1. pc' # "handled"
    BY <1>1, ChannelSteps
  <2> QED
    BY <2>1 DEF PacketRight
<1>2. CASE Receive
  <2>1. UNCHANGED <<mode, window, subset, req>> /\ pc = "receive"
    BY <1>2 DEF Receive, matching
  <2>2. PICK key \in Nat : \E at \in Starting(key) : \E n \in Nat, least \in 1 .. 3, padded, partial \in BOOLEAN :
           key \in Keys /\ DataMessage(key, at, n, least, padded, partial)
    BY <1>2, ReceiveEffect
  <2>3. PICK at \in Starting(key) : \E n \in Nat, least \in 1 .. 3, padded, partial \in BOOLEAN :
           key \in Keys /\ DataMessage(key, at, n, least, padded, partial)
    BY <2>2
  <2>4. PICK n \in Nat, least \in 1 .. 3, padded, partial \in BOOLEAN :
           key \in Keys /\ DataMessage(key, at, n, least, padded, partial)
    BY <2>3
  <2>5. PICK p, s : p = pd' /\ s = sent'
    OBVIOUS
  <2>6. pc' = "handled" => Right(p, s)
    BY <2>1, <2>4, <2>5, DataIsRight
  <2> QED
    BY ONLY <2>1, <2>5, <2>6, RightNext
<1>3. CASE ReceiveDecompressed
  <2>1. UNCHANGED <<mode, window, subset, req>>
    BY <1>3 DEF ReceiveDecompressed, matching
  <2>2. PICK p, s : p = pd' /\ s = sent'
    OBVIOUS
  <2>3. Right(p, s)
    BY <1>3, <2>2, DecompressedIsRight
  <2> QED
    BY ONLY <2>1, <2>2, <2>3, RightNext
<1>4. CASE ReceiveFiller \/ Release
  <2>1. pc' # "handled"
    BY <1>4 DEF ReceiveFiller, Release
  <2> QED
    BY <2>1 DEF PacketRight
<1>5. CASE UNCHANGED vars
  <2>1. UNCHANGED <<mode, window, subset, req, pc, pd, sent>>
    BY <1>5 DEF vars, chanVars, matching
  <2>2. PICK p, s : p = pd' /\ s = sent'
    OBVIOUS
  <2>3. pc' = "handled" => Right(p, s)
    <3>1. pc = "handled" => Right(pd, sent)
      BY DEF PacketRight, Right
    <3>2. p = pd /\ s = sent /\ pc' = pc
      BY <2>1, <2>2
    <3> QED
      BY ONLY <3>1, <3>2
  <2> QED
    BY ONLY <2>1, <2>2, <2>3, RightNext
<1> QED
  BY <1>1, <1>2, <1>3, <1>4, <1>5 DEF Next

HandlingIInv == ChanTypes /\ MetaOK /\ Selecting /\ HandlingOK

LEMMA HandlingInductive == Spec => []HandlingIInv
<1>1. Init => HandlingIInv
  BY ChanTypesInit, MetaInit, SelectingInit, HandlingInit DEF HandlingIInv
<1>2. HandlingIInv /\ [Next]_vars => HandlingIInv'
  BY ChanTypesNext, MetaNext, SelectingNext, HandlingNext DEF HandlingIInv
<1> QED
  BY <1>1, <1>2, PTL DEF Spec

\* nmxp_processCompressedData() and nmxp_data_trim(): for every series of samples and
\* however it is divided into fields and bundles, what is handled in the DAP flow are
\* the samples recorded in the window, for every window that starts before its end,
\* and what main() gets in the PDS flow, before it cuts at a saved time, are the
\* samples of the packet: all of them, each at its time and under the name of its
\* channel, with the values on both sides of the cut.  A window that does not start
\* before its end may leave a packet whole.
THEOREM HandledIsRight == Spec => []PacketRight
<1>1. Init => PacketRight
  BY DEF Init, ChanInit, PacketRight
<1>2. HandlingIInv /\ PacketRight /\ [Next]_vars => PacketRight'
  BY PacketNext DEF HandlingIInv
<1> QED
  BY <1>1, <1>2, HandlingInductive, PTL DEF Spec

\* nmxp_processCompressedData(): no packet whose bundles are whole, or have a null
\* bundle before the part of one, and fit into MAX_OUTDATA values ends the program,
\* whatever their fields hold, unless it is a filler packet.
THEOREM EndsRight == Spec => []EndsOnlyIfUnreadable
<1>1. Init => EndsOnlyIfUnreadable
  BY DEF Init, ChanInit, EndsOnlyIfUnreadable
<1>2. HandlingIInv /\ EndsOnlyIfUnreadable /\ [Next]_vars => EndsOnlyIfUnreadable'
  BY EndsNext DEF HandlingIInv
<1> QED
  BY <1>1, <1>2, HandlingInductive, PTL DEF Spec
=============================================================================
