---------------------------- MODULE RawStreamProofs ----------------------------
(***************************************************************************)
(* What RawStream guarantees for every buffer size, every time-out, every  *)
(* set of sequence numbers and every number of copies.                     *)
(***************************************************************************)
EXTENDS RawStream, FunctionTheorems, SequenceTheorems, TLAPS

\* Nothing is in the buffer before the first packet has set last_seq_no_sent.
EmptyBeforeFirst == last = -1 => pdlist = <<>>

\* No packet handled is newer than last_seq_no_sent.
HandledUpToLast == \A i \in DOMAIN delivered : delivered[i] <= last

\* A packet received that is newer than last_seq_no_sent is in the buffer,
\* whatever was given up.
NewerAreBuffered ==
  phase = "receiving" =>
    \A s \in SeqNos :
      received[s] > 0 /\ s > last => \E i \in 1 .. Len(pdlist) : pdlist[i] = s

\* As long as nothing was given up, the packets handled are those up to
\* last_seq_no_sent, without a gap.
HandledAreRun ==
  gaveUp = {} =>
    \A i \in 1 .. Len(delivered) : delivered[i] = last - Len(delivered) + i

\* The inductive invariant.
IInv ==
  /\ TypeOK
  /\ BufferWaitsForGap
  /\ BufferBounded
  /\ EmptyBeforeFirst
  /\ HandledUpToLast
  /\ DeliveredInOrder
  /\ TwiceOnlyByForcedNull
  /\ NewerAreBuffered
  /\ HandledAreRun
  /\ LastTimeIsEndOfHandled

-----------------------------------------------------------------------------
\* A sequence number is a natural number.
LEMMA SeqNosAreNat == \A s \in SeqNos : s \in Nat /\ s \in Int /\ s >= 0
BY SeqNosAssumption DEF SeqNosAssumption

\* Sorting returns the packets it was given, in order.
LEMMA QSortFacts ==
  ASSUME NEW s \in Seq(SeqNos), NEW q \in QSort(s)
  PROVE  /\ q \in Seq(SeqNos)
         /\ Len(q) = Len(s)
         /\ Sorted(q)
         /\ \A i \in 1 .. Len(q) : \E k \in 1 .. Len(s) : q[i] = s[k]
         /\ \A k \in 1 .. Len(s) : \E i \in 1 .. Len(q) : q[i] = s[k]
<1>1. PICK p \in Bijection(DOMAIN s, DOMAIN s) : q = [i \in DOMAIN s |-> s[p[i]]]
  BY DEF QSort
<1>2. DOMAIN s = 1 .. Len(s)
  OBVIOUS
<1>3. /\ p \in [1 .. Len(s) -> 1 .. Len(s)]
      /\ \A k \in 1 .. Len(s) : \E i \in 1 .. Len(s) : p[i] = k
  <2>1. p \in Bijection(1 .. Len(s), 1 .. Len(s))
    BY <1>2
  <2> QED
    BY <2>1 DEF Bijection, Injection, Surjection
<1>4. q = [i \in 1 .. Len(s) |-> s[p[i]]]
  BY <1>1, <1>2
<1>5. ASSUME NEW i \in 1 .. Len(s)
      PROVE  s[p[i]] \in SeqNos
  <2>1. p[i] \in 1 .. Len(s)
    BY <1>3
  <2> QED
    BY <2>1
<1>6. q \in Seq(SeqNos) /\ Len(q) = Len(s)
  BY <1>4, <1>5
<1>7. Sorted(q)
  BY DEF QSort
<1> QED
  BY <1>3, <1>4, <1>6, <1>7

\* What is sorted fits the buffer; it is the new packet and what the buffer
\* held, without its first packet if that one was forced.
LEMMA HeldFacts ==
  ASSUME pdlist \in Seq(SeqNos), BufferBounded,
         NEW pd \in SeqNos \cup {NoPacket}, NEW late \in BOOLEAN
  PROVE  LET h == Held(pd, late) IN
         /\ h \in Seq(SeqNos)
         /\ Len(h) <= MaxItems
         /\ MustForce(late) => pdlist # <<>>
         /\ \A k \in 1 .. Len(h) :
              \/ h[k] = pd /\ pd # NoPacket
              \/ \E i \in 1 .. Len(pdlist) :
                   h[k] = pdlist[i] /\ (MustForce(late) => i > 1)
<1> DEFINE a == IF MustForce(late) THEN Tail(pdlist) ELSE pdlist
           b == IF pd = NoPacket THEN <<>> ELSE <<pd>>
<1> USE SeqNosAssumption, MaxItemsAssumption
<1>1. MustForce(late) => pdlist # <<>>
  BY DEF MustForce
<1>2. /\ a \in Seq(SeqNos)
      /\ Len(a) = IF MustForce(late) THEN Len(pdlist) - 1 ELSE Len(pdlist)
      /\ \A k \in 1 .. Len(a) :
           a[k] = IF MustForce(late) THEN pdlist[k + 1] ELSE pdlist[k]
  <2>1. CASE MustForce(late)
    BY <1>1, <2>1
  <2>2. CASE ~MustForce(late)
    BY <2>2
  <2> QED
    BY <2>1, <2>2
<1>3. /\ b \in Seq(SeqNos)
      /\ Len(b) = IF pd = NoPacket THEN 0 ELSE 1
      /\ \A k \in 1 .. Len(b) : b[k] = pd
  <2>1. CASE pd = NoPacket
    BY <2>1
  <2>2. CASE pd # NoPacket
    BY <2>2
  <2> QED
    BY <2>1, <2>2
<1>4. Held(pd, late) = a \o b
  BY DEF Held
<1> HIDE DEF a, b
<1>5. /\ a \o b \in Seq(SeqNos)
      /\ Len(a \o b) = Len(a) + Len(b)
      /\ \A k \in 1 .. Len(a) + Len(b) :
           (a \o b)[k] = IF k <= Len(a) THEN a[k] ELSE b[k - Len(a)]
  <2>1. a \in Seq(SeqNos) /\ b \in Seq(SeqNos)
    BY <1>2, <1>3
  <2> QED
    BY ONLY <2>1, ConcatProperties
<1>6. Len(a \o b) <= MaxItems
  <2>1. CASE MustForce(late)
    BY <2>1, <1>1, <1>2, <1>3, <1>5 DEF BufferBounded
  <2>2. CASE ~MustForce(late)
    BY <2>2, <1>2, <1>3, <1>5 DEF MustForce
  <2> QED
    BY <2>1, <2>2
<1>7. ASSUME NEW k \in 1 .. Len(a \o b)
      PROVE  \/ (a \o b)[k] = pd /\ pd # NoPacket
             \/ \E i \in 1 .. Len(pdlist) :
                  (a \o b)[k] = pdlist[i] /\ (MustForce(late) => i > 1)
  <2>1. CASE k <= Len(a)
    <3>1. (a \o b)[k] = a[k] /\ k \in 1 .. Len(a)
      BY <2>1, <1>2, <1>3
    <3>2. CASE MustForce(late)
      BY <3>1, <3>2, <1>2
    <3>3. CASE ~MustForce(late)
      BY <3>1, <3>3, <1>2
    <3> QED
      BY <3>2, <3>3
  <2>2. CASE k > Len(a)
    <3>1. (a \o b)[k] = b[k - Len(a)] /\ k - Len(a) \in 1 .. Len(b)
      <4>1. Len(a) \in Nat /\ Len(b) \in Nat
        BY <1>2, <1>3
      <4> QED
        BY <2>2, <4>1, <1>5
    <3> QED
      BY <3>1, <1>3
  <2>3. k <= Len(a) \/ k > Len(a)
    <3>1. k \in Int /\ Len(a) \in Int
      BY <1>2
    <3> QED
      BY <3>1
  <2> QED
    BY <2>1, <2>2, <2>3
<1> QED
  BY <1>1, <1>4, <1>5, <1>6, <1>7

\* Nothing but the forced packet is left out of what is sorted.
LEMMA HeldKeeps ==
  ASSUME pdlist \in Seq(SeqNos), BufferBounded,
         NEW pd \in SeqNos \cup {NoPacket}, NEW late \in BOOLEAN
  PROVE  LET h == Held(pd, late) IN
         /\ pd # NoPacket => \E k \in 1 .. Len(h) : h[k] = pd
         /\ \A i \in 1 .. Len(pdlist) :
              (MustForce(late) => i > 1) => \E k \in 1 .. Len(h) : h[k] = pdlist[i]
<1> DEFINE a == IF MustForce(late) THEN Tail(pdlist) ELSE pdlist
           b == IF pd = NoPacket THEN <<>> ELSE <<pd>>
<1>1. MustForce(late) => pdlist # <<>>
  BY HeldFacts
<1>2. a \in Seq(SeqNos) /\ b \in Seq(SeqNos)
  BY <1>1
<1>3. Held(pd, late) = a \o b
  BY DEF Held
<1>4. ASSUME pd # NoPacket
      PROVE  Len(b) = 1 /\ b[1] = pd
  BY <1>4
<1>5. ASSUME NEW i \in 1 .. Len(pdlist), MustForce(late) => i > 1
      PROVE  \E k \in 1 .. Len(a) : a[k] = pdlist[i]
  <2>1. CASE MustForce(late)
    <3>1. i - 1 \in 1 .. Len(a) /\ a[i - 1] = pdlist[i]
      BY <1>1, <1>5, <2>1
    <3> QED
      BY <3>1
  <2>2. CASE ~MustForce(late)
    BY <2>2
  <2> QED
    BY <2>1, <2>2
<1> HIDE DEF a, b
<1>6. /\ Len(a) \in Nat /\ Len(b) \in Nat /\ Len(a \o b) = Len(a) + Len(b)
      /\ \A k \in 1 .. Len(a) + Len(b) :
           (a \o b)[k] = IF k <= Len(a) THEN a[k] ELSE b[k - Len(a)]
  BY <1>2, ConcatProperties
<1>7. ASSUME pd # NoPacket
      PROVE  \E k \in 1 .. Len(a \o b) : (a \o b)[k] = pd
  <2>0. /\ Len(a) + 1 \in 1 .. Len(a) + Len(b) /\ ~(Len(a) + 1 <= Len(a))
        /\ (Len(a) + 1) - Len(a) = 1
    <3>1. Len(a) \in Nat /\ Len(b) = 1
      BY <1>4, <1>6, <1>7
    <3> QED
      BY <3>1
  <2>1. Len(a) + 1 \in 1 .. Len(a \o b) /\ (a \o b)[Len(a) + 1] = b[1]
    BY <2>0, <1>6
  <2> QED
    BY <2>1, <1>4, <1>7
<1>8. ASSUME NEW k \in 1 .. Len(a)
      PROVE  k \in 1 .. Len(a \o b) /\ (a \o b)[k] = a[k]
  BY <1>6
<1> QED
  BY <1>3, <1>5, <1>7, <1>8

\* What remains of the sorted array is sorted.
LEMMA SubSeqFacts ==
  ASSUME NEW q \in Seq(SeqNos), Sorted(q), NEW j \in 0 .. Len(q)
  PROVE  LET r == SubSeq(q, j + 1, Len(q)) IN
         /\ r \in Seq(SeqNos)
         /\ Len(r) = Len(q) - j
         /\ \A k \in 1 .. Len(r) : r[k] = q[j + k]
         /\ Sorted(r)
<1> DEFINE r == SubSeq(q, j + 1, Len(q))
<1>1. \A i \in (j + 1) .. Len(q) : q[i] \in SeqNos
  OBVIOUS
<1>2. /\ r \in Seq(SeqNos)
      /\ Len(r) = IF j + 1 <= Len(q) THEN Len(q) - (j + 1) + 1 ELSE 0
      /\ \A k \in 1 .. (Len(q) - (j + 1) + 1) : r[k] = q[j + 1 + k - 1]
  BY <1>1, SubSeqProperties
<1> HIDE DEF r
<1>3. Len(r) = Len(q) - j
  BY <1>2
<1>4. \A k \in 1 .. Len(r) : r[k] = q[j + k]
  BY <1>2, <1>3
<1>5. Sorted(r)
  <2>1. DOMAIN r = 1 .. Len(r) /\ DOMAIN q = 1 .. Len(q)
    BY <1>2
  <2> SUFFICES ASSUME NEW i \in DOMAIN r, NEW k \in DOMAIN r, i < k
               PROVE  r[i] <= r[k]
    BY DEF Sorted
  <2>2. j + i \in DOMAIN q /\ j + k \in DOMAIN q /\ j + i < j + k
    BY <2>1, <1>3
  <2>3. q[j + i] <= q[j + k]
    BY <2>2 DEF Sorted
  <2> QED
    BY <2>1, <2>3, <1>4
<1> QED
  BY <1>2, <1>3, <1>4, <1>5 DEF r

Strict(q) == \A i, j \in DOMAIN q : i < j => q[i] < q[j]

\* Appending packets none of which is older than those before.
LEMMA ConcatSorted ==
  ASSUME NEW s \in Seq(SeqNos), NEW t \in Seq(SeqNos),
         \A i \in 1 .. Len(s), k \in 1 .. Len(t) : s[i] <= t[k]
  PROVE  /\ s \o t \in Seq(SeqNos)
         /\ Sorted(s) /\ Sorted(t) => Sorted(s \o t)
         /\ Strict(s) /\ Strict(t)
              /\ (\A i \in 1 .. Len(s), k \in 1 .. Len(t) : s[i] < t[k])
              => Strict(s \o t)
         /\ \A i \in 1 .. Len(s \o t) :
              \/ \E k \in 1 .. Len(s) : (s \o t)[i] = s[k]
              \/ \E k \in 1 .. Len(t) : (s \o t)[i] = t[k]
<1> USE SeqNosAssumption
<1> DEFINE u == s \o t
<1>1. /\ u \in Seq(SeqNos)
      /\ Len(u) = Len(s) + Len(t)
      /\ \A i \in 1 .. Len(s) + Len(t) :
           u[i] = IF i <= Len(s) THEN s[i] ELSE t[i - Len(s)]
  BY ConcatProperties
<1> HIDE DEF u
<1>2. /\ Len(s) \in Nat /\ Len(t) \in Nat
      /\ DOMAIN s = 1 .. Len(s) /\ DOMAIN t = 1 .. Len(t)
      /\ DOMAIN u = 1 .. (Len(s) + Len(t))
  BY <1>1
<1>3. \A i \in 1 .. Len(s) : s[i] \in Int
  <2>1. \A i \in 1 .. Len(s) : s[i] \in SeqNos
    OBVIOUS
  <2> QED
    BY <2>1, SeqNosAreNat
<1>4. \A i \in 1 .. Len(t) : t[i] \in Int
  <2>1. \A i \in 1 .. Len(t) : t[i] \in SeqNos
    OBVIOUS
  <2> QED
    BY <2>1, SeqNosAreNat
<1>5. ASSUME NEW i \in DOMAIN u
      PROVE  \/ i \in 1 .. Len(s) /\ u[i] = s[i]
             \/ i - Len(s) \in 1 .. Len(t) /\ u[i] = t[i - Len(s)] /\ i > Len(s)
  BY <1>1, <1>2
<1>6. ASSUME Sorted(s), Sorted(t) PROVE Sorted(u)
  <2> SUFFICES ASSUME NEW i \in DOMAIN u, NEW k \in DOMAIN u, i < k
               PROVE  u[i] <= u[k]
    BY DEF Sorted
  <2> QED
    BY <1>2, <1>3, <1>4, <1>5, <1>6 DEF Sorted
<1>7. ASSUME Strict(s), Strict(t),
             \A i \in 1 .. Len(s), k \in 1 .. Len(t) : s[i] < t[k]
      PROVE  Strict(u)
  <2> SUFFICES ASSUME NEW i \in DOMAIN u, NEW k \in DOMAIN u, i < k
               PROVE  u[i] < u[k]
    BY DEF Strict
  <2> QED
    BY <1>2, <1>3, <1>4, <1>5, <1>7 DEF Strict
<1>8. \A i \in 1 .. Len(u) :
        \/ \E k \in 1 .. Len(s) : u[i] = s[k]
        \/ \E k \in 1 .. Len(t) : u[i] = t[k]
  BY <1>1, <1>2, <1>5
<1> QED
  BY <1>1, <1>6, <1>7, <1>8 DEF u

-----------------------------------------------------------------------------
\* Before sorting: the buffer's packets are newer than the last one handled,
\* so a packet that must be forced is handled, and moves last_seq_no_sent on.
LEMMA BeforeSort ==
  ASSUME IInv, NEW pd \in SeqNos \cup {NoPacket}, NEW late \in BOOLEAN
  PROVE  /\ Started(pd) \in Int /\ Started(pd) >= -1
         /\ AfterForce(pd, late) \in Int
         /\ MustForce(late) =>
              /\ ForceHandles(pd, late)
              /\ AfterForce(pd, late) = pdlist[1]
              /\ pdlist[1] > Started(pd)
         /\ ~MustForce(late) => AfterForce(pd, late) = Started(pd)
         /\ pdlist # <<>> => Started(pd) = last /\ last >= 0
         /\ \A i \in 1 .. Len(pdlist) :
              pdlist[i] \in SeqNos /\ pdlist[i] > Started(pd) + 1 /\ pdlist[i] >= pdlist[1]
         /\ \A i \in 1 .. Len(delivered) : delivered[i] <= Started(pd)
<1>1. last \in Int /\ last >= -1
  <2>1. last \in Nat \/ last = -1
    BY DEF IInv, TypeOK
  <2> QED
    BY <2>1
<1>a. pdlist \in Seq(SeqNos) /\ delivered \in Seq(SeqNos)
  BY DEF IInv, TypeOK
<1>b. /\ BufferWaitsForGap /\ BufferBounded
      /\ EmptyBeforeFirst /\ HandledUpToLast
  BY DEF IInv
<1>2. Started(pd) \in Int /\ Started(pd) >= -1
  <2>1. timeoutrecv \in Nat
    BY TimeoutRecvsAssumption DEF TimeoutRecvsAssumption, IInv, TypeOK
  <2> QED
    BY <2>1, <1>1, SeqNosAreNat DEF Started, FirstTime, NoPacket
<1>3. pdlist # <<>> => Started(pd) = last /\ last >= 0
  BY <1>1, <1>b DEF EmptyBeforeFirst, Started, FirstTime
<1>4. ASSUME NEW i \in 1 .. Len(pdlist)
      PROVE  pdlist[i] \in SeqNos /\ pdlist[i] > Started(pd) + 1 /\ pdlist[i] >= pdlist[1]
  <2>1. pdlist # <<>> /\ 1 \in 1 .. Len(pdlist) /\ pdlist[i] \in SeqNos /\ pdlist[1] \in SeqNos
    BY <1>a
  <2>2. pdlist[i] \in Int /\ pdlist[1] \in Int
    BY <2>1, SeqNosAreNat
  <2>3. pdlist[1] > last + 1
    BY <1>b, <2>1 DEF BufferWaitsForGap
  <2>4. pdlist[i] >= pdlist[1]
    <3>1. DOMAIN pdlist = 1 .. Len(pdlist)
      BY <1>a
    <3> QED
      BY <1>b, <2>1, <2>2, <3>1 DEF BufferWaitsForGap, Sorted
  <2> QED
    BY <1>1, <1>3, <2>1, <2>2, <2>3, <2>4
<1>5. MustForce(late) => pdlist # <<>> /\ Head(pdlist) = pdlist[1] /\ 1 \in 1 .. Len(pdlist)
  BY <1>a, <1>b, HeldFacts
<1>6. MustForce(late) =>
        /\ ForceHandles(pd, late)
        /\ AfterForce(pd, late) = pdlist[1]
        /\ pdlist[1] > Started(pd)
        /\ pdlist[1] \in Int
  BY <1>2, <1>4, <1>5, SeqNosAreNat DEF ForceHandles, AfterForce
<1>7. ~MustForce(late) => AfterForce(pd, late) = Started(pd)
  BY DEF AfterForce, ForceHandles
<1>8. ASSUME NEW i \in 1 .. Len(delivered)
      PROVE  delivered[i] <= Started(pd)
  <2>1. delivered[i] \in SeqNos /\ delivered[i] <= last
    BY <1>a, <1>b DEF HandledUpToLast
  <2>2. ~FirstTime(pd)
    BY <1>1, <2>1, SeqNosAreNat DEF FirstTime
  <2> QED
    BY <2>1, <2>2 DEF Started
<1>9. AfterForce(pd, late) \in Int
  BY <1>2, <1>6, <1>7
<1> QED
  BY <1>2, <1>3, <1>4, <1>6, <1>7, <1>8, <1>9

\* After sorting: where the main loop starts, l, and where it ends, m.
LEMMA AfterSort ==
  ASSUME IInv, NEW pd \in SeqNos \cup {NoPacket}, NEW late \in BOOLEAN,
         NEW q \in QSort(Held(pd, late)), NEW j \in 0 .. Len(q),
         NEW m \in {AfterTimeout(pd, late, q)} \cup {q[i] : i \in 1 .. j},
         Drains(q, AfterTimeout(pd, late, q), j, m)
  PROVE  LET l == AfterTimeout(pd, late, q) IN
         /\ q \in Seq(SeqNos) /\ Sorted(q) /\ Len(q) <= MaxItems
         /\ l \in Int /\ m \in Int /\ m >= l
         /\ l >= Started(pd) /\ l + 1 >= AfterForce(pd, late)
         /\ m >= AfterForce(pd, late) /\ m >= -1
         /\ "forced null" \notin Reasons(pd, late, q) => l >= AfterForce(pd, late)
         /\ m = -1 => j = Len(q)
<1> DEFINE l == AfterTimeout(pd, late, q)
           l1 == Started(pd)
           l2 == AfterForce(pd, late)
           h == Held(pd, late)
<1>a. pdlist \in Seq(SeqNos) /\ BufferBounded
  BY DEF IInv, TypeOK
<1>1. /\ h \in Seq(SeqNos) /\ Len(h) <= MaxItems
      /\ \A k \in 1 .. Len(h) :
           \/ h[k] = pd /\ pd # NoPacket
           \/ \E i \in 1 .. Len(pdlist) :
                h[k] = pdlist[i] /\ (MustForce(late) => i > 1)
  BY <1>a, HeldFacts
<1> HIDE DEF h
<1>2. /\ q \in Seq(SeqNos) /\ Len(q) = Len(h) /\ Sorted(q)
      /\ \A i \in 1 .. Len(q) : \E k \in 1 .. Len(h) : q[i] = h[k]
  BY <1>1, QSortFacts DEF h
<1>3. \A i \in 1 .. Len(q) : q[i] \in SeqNos /\ q[i] \in Int /\ q[i] >= 0
  <2>1. \A i \in 1 .. Len(q) : q[i] \in SeqNos
    BY <1>2
  <2> QED
    BY <2>1, SeqNosAreNat
<1>4. /\ l1 \in Int /\ l1 >= -1 /\ l2 \in Int
      /\ MustForce(late) => l2 = pdlist[1] /\ l2 > l1
      /\ ~MustForce(late) => l2 = l1
      /\ pdlist # <<>> => l1 = last /\ last >= 0
      /\ \A i \in 1 .. Len(pdlist) :
           pdlist[i] \in SeqNos /\ pdlist[i] > l1 + 1 /\ pdlist[i] >= pdlist[1]
  BY BeforeSort
<1>5. l2 >= l1
  BY <1>4
<1>6. Len(q) \in Nat /\ j \in Int
  BY <1>2
<1>7. /\ m >= l
      /\ \A i \in 1 .. j : q[i] <= m
      /\ j < Len(q) => q[j + 1] > m + 1
  BY DEF Drains
<1>b. m = l \/ \E i \in 1 .. Len(q) : m = q[i]
  BY <1>6
<1> DEFINE Bounds ==
             /\ l \in Int /\ m \in Int
             /\ l >= l1 /\ l + 1 >= l2 /\ m >= l2 /\ m >= -1
             /\ "forced null" \notin Reasons(pd, late, q) => l >= l2
             /\ m = -1 => j = Len(q)
<1> HIDE DEF l1, l2, l
\* A call with a packet, or on an empty buffer, starts at l2.
<1>8. ASSUME pd # NoPacket \/ q = <<>>
      PROVE  Bounds
  <2>1. l = l2
    BY <1>8 DEF AfterTimeout, l, l2
  <2>2. l \in Int
    BY <2>1, <1>4
  <2>3. m \in Int
    BY <2>2, <1>3, <1>b
  <2>4. m = -1 => j = Len(q)
    <3>1. CASE q = <<>>
      BY <3>1
    <3>2. CASE q # <<>> /\ last # -1
      <4>1. l1 = last
        BY <3>2 DEF Started, FirstTime, l1
      <4>2. l1 >= 0
        BY <3>2, <4>1, <1>4
      <4> QED
        BY <4>2, <1>4, <1>5, <1>7, <2>1, <2>2, <2>3
    <3>3. CASE q # <<>> /\ last = -1
      <4>1. pdlist = <<>> /\ ~MustForce(late) /\ pd # NoPacket
        BY <3>3, <1>8, <1>a, HeldFacts DEF IInv, EmptyBeforeFirst
      <4>2. h = <<pd>>
        BY <4>1 DEF Held, h
      <4>3. Len(q) = 1 /\ q[1] = pd
        BY <4>2, <1>2
      <4>4. l1 = pd - 1 \/ l1 = 0
        <5>1. timeoutrecv \in Nat
          BY TimeoutRecvsAssumption DEF TimeoutRecvsAssumption, IInv, TypeOK
        <5> QED
          BY <5>1, <4>1, <3>3 DEF Started, FirstTime, l1
      <4>5. pd \in Int /\ pd >= 0
        BY <4>3, <1>3
      <4> QED
        BY <4>3, <4>4, <4>5, <1>4, <1>5, <1>6, <1>7, <2>1, <2>2, <2>3
    <3> QED
      BY <3>1, <3>2, <3>3
  <2> QED
    <3>1. l >= l1 /\ l + 1 >= l2 /\ m >= l2 /\ m >= -1 /\ l >= l2
      BY <2>1, <2>3, <1>4, <1>5, <1>7
    <3> QED
      BY <2>2, <2>3, <2>4, <3>1
\* A NULL packet starts before the first packet of the sorted array, which
\* comes from the buffer and is therefore newer than the last one handled.
<1>9. ASSUME pd = NoPacket, q # <<>>
      PROVE  Bounds
  <2>1. l = q[1] - 1 /\ 1 \in 1 .. Len(q)
    BY <1>9, <1>2 DEF AfterTimeout, l
  <2>2. q[1] \in Int /\ q[1] >= 0
    BY <2>1, <1>3
  <2>3. PICK i \in 1 .. Len(pdlist) : q[1] = pdlist[i]
    BY <2>1, <1>1, <1>2, <1>9
  <2>4. q[1] > l1 + 1 /\ q[1] >= pdlist[1]
    <3>1. pdlist[i] > l1 + 1 /\ pdlist[i] >= pdlist[1]
      BY <1>4
    <3> QED
      BY <2>3, <3>1
  <2>5. m \in Int
    BY <2>1, <2>2, <1>3, <1>b
  <2>6. m >= q[1]
    <3>1. CASE j = 0
      BY <3>1, <2>1, <2>2, <2>5, <1>6, <1>7
    <3>2. CASE j # 0
      BY <3>2, <2>1, <2>2, <2>5, <1>6, <1>7
    <3> QED
      BY <3>1, <3>2
  <2>7. q[1] >= l2
    BY <2>2, <2>4, <1>4
  <2>8. "forced null" \notin Reasons(pd, late, q) => ~MustForce(late)
    BY <1>9 DEF Reasons
  <2>9. ~MustForce(late) => l >= l2
    BY <2>1, <2>2, <2>4, <1>4
  <2> QED
    <3>1. l \in Int /\ l >= l1 /\ l + 1 >= l2 /\ m >= l2 /\ m >= -1 /\ m # -1
      BY <2>1, <2>2, <2>4, <2>5, <2>6, <2>7, <1>4
    <3> QED
      BY <2>5, <2>8, <2>9, <3>1
<1>10. Bounds
  BY <1>8, <1>9
<1>11. Len(q) <= MaxItems
  BY <1>1, <1>2
<1> QED
  BY <1>2, <1>7, <1>10, <1>11 DEF l, l1, l2

\* The packets handled by a call: the forced one and the run that follows.
LEMMA HandledFacts ==
  ASSUME IInv, NEW pd \in SeqNos \cup {NoPacket}, NEW late \in BOOLEAN,
         NEW q \in QSort(Held(pd, late)), NEW j \in 0 .. Len(q),
         NEW m \in {AfterTimeout(pd, late, q)} \cup {q[i] : i \in 1 .. j},
         Drains(q, AfterTimeout(pd, late, q), j, m)
  PROVE  LET f == IF ForceHandles(pd, late) THEN <<Head(pdlist)>> ELSE <<>>
             hs == f \o Run(AfterTimeout(pd, late, q), m)
         IN  /\ hs \in Seq(SeqNos) /\ Sorted(hs)
             /\ "forced null" \notin Reasons(pd, late, q) => Strict(hs)
             /\ \A i \in 1 .. Len(hs) : hs[i] > Started(pd) /\ hs[i] <= m
<1> DEFINE l == AfterTimeout(pd, late, q)
           f == IF ForceHandles(pd, late) THEN <<Head(pdlist)>> ELSE <<>>
           r == Run(l, m)
           l1 == Started(pd)
           l2 == AfterForce(pd, late)
<1> DEFINE NotForcedNull == "forced null" \notin Reasons(pd, late, q)
<1>0. /\ q \in Seq(SeqNos)
      /\ l \in Int /\ m \in Int /\ m >= l /\ l >= l1 /\ l + 1 >= l2 /\ m >= l2
      /\ NotForcedNull => l >= l2
  BY AfterSort
<1> HIDE DEF NotForcedNull
<1>1. /\ q \in Seq(SeqNos)
      /\ l \in Int /\ m \in Int /\ m >= l /\ l >= l1 /\ l + 1 >= l2 /\ m >= l2
  BY <1>0
<1>2. \A s \in (l + 1) .. m : \E i \in 1 .. j : q[i] = s
  BY DEF Drains
<1>3. /\ l1 \in Int /\ l2 \in Int
      /\ MustForce(late) => ForceHandles(pd, late) /\ l2 = pdlist[1] /\ l2 > l1
  BY BeforeSort
<1>4. ForceHandles(pd, late) => MustForce(late)
  BY DEF ForceHandles
<1>5. MustForce(late) => pdlist # <<>> /\ Head(pdlist) = pdlist[1] /\ pdlist[1] \in SeqNos
  <2>1. pdlist \in Seq(SeqNos) /\ BufferBounded
    BY DEF IInv, TypeOK
  <2> QED
    BY <2>1, HeldFacts
<1>6. /\ f \in Seq(SeqNos)
      /\ DOMAIN f = 1 .. Len(f) /\ Len(f) \in 0 .. 1
      /\ \A i \in 1 .. Len(f) : f[i] = l2 /\ l2 > l1
  <2>1. CASE ForceHandles(pd, late)
    <3>1. f = <<pdlist[1]>> /\ pdlist[1] \in SeqNos /\ pdlist[1] = l2 /\ l2 > l1
      BY <2>1, <1>3, <1>4, <1>5
    <3> HIDE DEF f, l1, l2
    <3>2. /\ <<pdlist[1]>> \in Seq(SeqNos) /\ Len(<<pdlist[1]>>) = 1
          /\ DOMAIN <<pdlist[1]>> = 1 .. 1 /\ <<pdlist[1]>>[1] = pdlist[1]
      BY <3>1
    <3>3. f \in Seq(SeqNos) /\ Len(f) = 1 /\ DOMAIN f = 1 .. 1 /\ f[1] = pdlist[1]
      BY <3>1, <3>2
    <3> QED
      BY <3>1, <3>3
  <2>2. CASE ~ForceHandles(pd, late)
    BY <2>2
  <2> QED
    BY <2>1, <2>2
<1> HIDE DEF l, f, l1, l2
<1>7. /\ r \in Seq(SeqNos)
      /\ DOMAIN r = 1 .. Len(r) /\ Len(r) = m - l
      /\ \A i \in 1 .. Len(r) : r[i] = l + i
  <2>1. m - l \in Nat
    BY <1>1
  <2>2. \A i \in 1 .. (m - l) : l + i \in SeqNos
    <3> TAKE i \in 1 .. (m - l)
    <3>1. l + i \in (l + 1) .. m
      BY <1>1
    <3>2. PICK k \in 1 .. j : q[k] = l + i
      BY <3>1, <1>2
    <3>3. k \in 1 .. Len(q)
      BY <1>1
    <3> QED
      BY <3>2, <3>3, <1>1
  <2> QED
    BY <2>1, <2>2 DEF Run
<1> HIDE DEF r
<1>8. Sorted(f) /\ Strict(f)
  BY <1>6 DEF Sorted, Strict
<1>9. Sorted(r) /\ Strict(r)
  <2>1. \A i, k \in DOMAIN r : i < k => r[i] <= r[k] /\ r[i] < r[k]
    BY <1>1, <1>7
  <2> QED
    BY <2>1 DEF Sorted, Strict
<1>10. \A i \in 1 .. Len(f), k \in 1 .. Len(r) :
         /\ f[i] <= r[k]
         /\ NotForcedNull => f[i] < r[k]
  <2> TAKE i \in 1 .. Len(f), k \in 1 .. Len(r)
  <2>1. f[i] = l2 /\ r[k] = l + k /\ k \in Int /\ k >= 1
    BY <1>1, <1>6, <1>7
  <2>2. f[i] <= r[k]
    BY <2>1, <1>1, <1>3
  <2>3. l >= l2 => f[i] < r[k]
    BY <2>1, <1>1, <1>3
  <2> QED
    BY <2>2, <2>3, <1>0
<1>11. /\ f \o r \in Seq(SeqNos) /\ Sorted(f \o r)
       /\ NotForcedNull => Strict(f \o r)
       /\ \A i \in 1 .. Len(f \o r) :
            \/ \E k \in 1 .. Len(f) : (f \o r)[i] = f[k]
            \/ \E k \in 1 .. Len(r) : (f \o r)[i] = r[k]
  BY <1>6, <1>7, <1>8, <1>9, <1>10, ConcatSorted
<1>12. \A k \in 1 .. Len(f) : f[k] > l1 /\ f[k] <= m
  BY <1>1, <1>3, <1>6
<1>13. \A k \in 1 .. Len(r) : r[k] > l1 /\ r[k] <= m
  BY <1>1, <1>3, <1>7
<1>14. \A i \in 1 .. Len(f \o r) : (f \o r)[i] > l1 /\ (f \o r)[i] <= m
  BY <1>11, <1>12, <1>13
<1> QED
  BY <1>11, <1>14 DEF f, r, l, l1, NotForcedNull

\* The last packet that a call handles is where last_seq_no_sent ends, and a
\* call that gives up nothing handles the run from where it began.
LEMMA LastHandled ==
  ASSUME IInv, NEW pd \in SeqNos \cup {NoPacket}, NEW late \in BOOLEAN,
         NEW q \in QSort(Held(pd, late)), NEW j \in 0 .. Len(q),
         NEW m \in {AfterTimeout(pd, late, q)} \cup {q[i] : i \in 1 .. j},
         Drains(q, AfterTimeout(pd, late, q), j, m)
  PROVE  LET l == AfterTimeout(pd, late, q)
             f == IF ForceHandles(pd, late) THEN <<Head(pdlist)>> ELSE <<>>
             hs == f \o Run(l, m)
         IN  /\ hs # <<>> => Len(hs) \in Nat \ {0} /\ hs[Len(hs)] = m
             /\ Reasons(pd, late, q) = {} =>
                  /\ Len(hs) = m - Started(pd)
                  /\ \A i \in 1 .. Len(hs) : hs[i] = Started(pd) + i
<1> DEFINE l == AfterTimeout(pd, late, q)
           f == IF ForceHandles(pd, late) THEN <<Head(pdlist)>> ELSE <<>>
           r == Run(l, m)
           hs == f \o r
<1>1. /\ q \in Seq(SeqNos) /\ l \in Int /\ m \in Int /\ m >= l /\ hs \in Seq(SeqNos)
  BY AfterSort, HandledFacts
<1>2. /\ MustForce(late) => AfterForce(pd, late) = pdlist[1] /\ pdlist # <<>>
      /\ ~MustForce(late) => AfterForce(pd, late) = Started(pd)
      /\ pdlist \in Seq(SeqNos)
  <2>1. pdlist \in Seq(SeqNos) /\ BufferBounded
    BY DEF IInv, TypeOK
  <2> QED
    BY <2>1, BeforeSort, HeldFacts
<1>3. m = l => l = AfterForce(pd, late)
  <2> SUFFICES ASSUME m = l, l # AfterForce(pd, late) PROVE FALSE
    OBVIOUS
  <2>1. q # <<>> /\ l = q[1] - 1
    BY DEF AfterTimeout
  <2>2. Len(q) \in Nat /\ 1 \in 1 .. Len(q) /\ q[1] \in Int
    BY <1>1, <2>1, SeqNosAreNat
  <2>3. /\ \A i \in 1 .. j : q[i] <= m
        /\ j < Len(q) => q[j + 1] > m + 1
    BY DEF Drains
  <2> HIDE DEF l
  <2>4. CASE j = 0
    BY <2>1, <2>2, <2>3, <2>4
  <2>5. CASE j # 0
    <3>1. q[1] <= m
      BY <2>2, <2>3, <2>5
    <3> QED
      BY <3>1, <2>1, <2>2
  <2> QED
    BY <2>4, <2>5
<1>4. f \in Seq(SeqNos) /\ (f # <<>> => f = <<pdlist[1]>> /\ MustForce(late))
  <2>1. CASE ForceHandles(pd, late)
    <3>1. MustForce(late) /\ f = <<Head(pdlist)>> /\ pdlist # <<>>
      BY <1>2, <2>1 DEF ForceHandles
    <3>2. Head(pdlist) = pdlist[1] /\ pdlist[1] \in SeqNos
      BY <1>2, <3>1
    <3> QED
      BY <3>1, <3>2
  <2>2. CASE ~ForceHandles(pd, late)
    BY <2>2
  <2> QED
    BY <2>1, <2>2
<1>5. r = [i \in 1 .. (m - l) |-> l + i] /\ m - l \in Nat
  BY <1>1 DEF Run
<1> HIDE DEF l, f
<1>6. /\ r \in Seq(Int) /\ Len(r) = m - l /\ \A i \in 1 .. Len(r) : r[i] = l + i
  BY <1>1, <1>5
<1> HIDE DEF r
<1>7. f \in Seq(Int)
  <2>1. \A i \in 1 .. Len(f) : f[i] \in Int
    BY <1>4, SeqNosAreNat
  <2> QED
    BY <1>4, <2>1
<1>8. /\ Len(hs) = Len(f) + Len(r) /\ Len(f) \in Nat /\ Len(r) \in Nat
      /\ \A i \in 1 .. (Len(f) + Len(r)) :
           hs[i] = IF i <= Len(f) THEN f[i] ELSE r[i - Len(f)]
  <2>1. Len(f) \in Nat /\ Len(r) \in Nat
    BY <1>6, <1>7
  <2>2. /\ Len(f \o r) = Len(f) + Len(r)
        /\ \A i \in 1 .. Len(f) + Len(r) :
             (f \o r)[i] = IF i <= Len(f) THEN f[i] ELSE r[i - Len(f)]
    BY <1>6, <1>7, ConcatProperties
  <2> QED
    BY <2>1, <2>2
<1>9. ASSUME hs # <<>>
      PROVE  Len(hs) \in Nat \ {0} /\ hs[Len(hs)] = m
  <2>1. Len(hs) \in Nat /\ Len(hs) # 0
    BY <1>1, <1>9
  <2> HIDE DEF hs
  <2>2. CASE m = l
    <3>1. Len(r) = 0 /\ f # <<>>
      BY <2>1, <2>2, <1>1, <1>6, <1>8
    <3>2. Len(f) = 1 /\ f[1] = m
      BY <3>1, <2>2, <1>2, <1>3, <1>4
    <3> QED
      BY <2>1, <3>1, <3>2, <1>8
  <2>3. CASE m # l
    <3>1. Len(r) >= 1 /\ Len(r) \in 1 .. Len(r)
      BY <2>3, <1>1, <1>6, <1>8
    <3>2. /\ Len(hs) \in 1 .. (Len(f) + Len(r)) /\ ~(Len(hs) <= Len(f))
          /\ Len(hs) - Len(f) = Len(r)
      BY <3>1, <1>8
    <3>3. hs[Len(hs)] = r[Len(r)] /\ r[Len(r)] = l + Len(r)
      BY <3>1, <3>2, <1>6, <1>8
    <3> QED
      BY <2>1, <3>3, <1>1, <1>6
  <2> QED
    BY <2>2, <2>3
<1>10. ASSUME Reasons(pd, late, q) = {}
       PROVE  /\ Len(hs) = m - Started(pd)
              /\ \A i \in 1 .. Len(hs) : hs[i] = Started(pd) + i
  <2>1. ~MustForce(late) /\ (pd # NoPacket \/ q = <<>>)
    BY <1>10 DEF Reasons
  <2>2. f = <<>> /\ l = Started(pd)
    BY <2>1, <1>2, <1>4 DEF AfterTimeout, l
  <2>3. hs = r
    BY <2>2, <1>6, ConcatEmptySeq
  <2> QED
    BY <2>2, <2>3, <1>6
<1> QED
  BY <1>9, <1>10 DEF hs, r, l, f

-----------------------------------------------------------------------------
\* One call of nmxp_raw_stream_manage() preserves what concerns the buffer
\* and the packets handled.
LEMMA ManageStep ==
  ASSUME IInv, NEW pd \in SeqNos \cup {NoPacket}, NEW late \in BOOLEAN,
         Manage(pd, late)
  PROVE  /\ timeoutrecv' = timeoutrecv
         /\ last' \in Nat \cup {-1} /\ lastTime' \in Nat \cup {-1}
         /\ pdlist' \in Seq(SeqNos) /\ delivered' \in Seq(SeqNos)
         /\ gaveUp' \subseteq {"force", "null", "forced null"}
         /\ BufferWaitsForGap' /\ BufferBounded' /\ EmptyBeforeFirst'
         /\ HandledUpToLast' /\ DeliveredInOrder' /\ TwiceOnlyByForcedNull'
         /\ HandledAreRun' /\ LastTimeIsEndOfHandled'
         /\ phase = "receiving" =>
              \A s \in SeqNos :
                (s = pd \/ received[s] > 0) /\ s > last' =>
                  \E i \in 1 .. Len(pdlist') : pdlist'[i] = s
<1>1. PICK q \in QSort(Held(pd, late)) : \E j \in 0 .. Len(q) :
        \E m \in {AfterTimeout(pd, late, q)} \cup {q[i] : i \in 1 .. j} :
          ManageTo(pd, late, q, j, m)
  BY DEF Manage
<1>2. PICK j \in 0 .. Len(q) :
        \E m \in {AfterTimeout(pd, late, q)} \cup {q[i] : i \in 1 .. j} :
          ManageTo(pd, late, q, j, m)
  BY <1>1
<1>a. PICK m \in {AfterTimeout(pd, late, q)} \cup {q[i] : i \in 1 .. j} :
          ManageTo(pd, late, q, j, m)
  BY <1>2
<1> DEFINE l == AfterTimeout(pd, late, q)
<1> DEFINE hs == (IF ForceHandles(pd, late)
                  THEN <<Head(pdlist)>> ELSE <<>>) \o Run(l, m)
           NotForcedNull == "forced null" \notin Reasons(pd, late, q)
<1>3. /\ Drains(q, l, j, m)
      /\ pdlist' = SubSeq(q, j + 1, Len(q))
      /\ last' = m
      /\ delivered' = delivered \o hs
      /\ lastTime' = TimeAfter(pd, hs, m)
      /\ gaveUp' = gaveUp \cup Reasons(pd, late, q)
      /\ timeoutrecv' = timeoutrecv
  BY <1>a DEF ManageTo
<1>4. /\ q \in Seq(SeqNos) /\ Sorted(q) /\ Len(q) <= MaxItems
      /\ m \in Int /\ m >= -1 /\ m >= AfterForce(pd, late)
      /\ m = -1 => j = Len(q)
  BY <1>3, AfterSort
<1>5. /\ hs \in Seq(SeqNos) /\ Sorted(hs)
      /\ NotForcedNull => Strict(hs)
      /\ \A i \in 1 .. Len(hs) : hs[i] > Started(pd) /\ hs[i] <= m
  BY <1>3, HandledFacts
<1>6. /\ Started(pd) \in Int /\ AfterForce(pd, late) \in Int
      /\ AfterForce(pd, late) >= Started(pd)
      /\ \A i \in 1 .. Len(delivered) : delivered[i] <= Started(pd)
  <2>1. /\ Started(pd) \in Int /\ AfterForce(pd, late) \in Int
        /\ MustForce(late) => AfterForce(pd, late) = pdlist[1] /\ pdlist[1] > Started(pd)
        /\ ~MustForce(late) => AfterForce(pd, late) = Started(pd)
        /\ \A i \in 1 .. Len(delivered) : delivered[i] <= Started(pd)
    BY BeforeSort
  <2> QED
    BY <2>1
<1>7. /\ Drains(q, l, j, m) => (j < Len(q) => q[j + 1] > m + 1)
      /\ Drains(q, l, j, m) => \A i \in 1 .. j : q[i] <= m
  BY DEF Drains
<1>b. /\ hs # <<>> => Len(hs) \in Nat \ {0} /\ hs[Len(hs)] = m
      /\ Reasons(pd, late, q) = {} =>
           /\ Len(hs) = m - Started(pd)
           /\ \A i \in 1 .. Len(hs) : hs[i] = Started(pd) + i
  BY <1>3, LastHandled
<1> HIDE DEF hs, l, NotForcedNull
<1>8. delivered \in Seq(SeqNos) /\ Sorted(delivered) /\ DOMAIN delivered = 1 .. Len(delivered)
  <2>1. delivered \in Seq(SeqNos)
    BY DEF IInv, TypeOK
  <2> QED
    BY <2>1 DEF IInv, DeliveredInOrder
<1>9. \A i \in 1 .. Len(delivered) : delivered[i] \in Int
  <2>1. \A i \in 1 .. Len(delivered) : delivered[i] \in SeqNos
    BY <1>8
  <2> QED
    BY <2>1, SeqNosAreNat
<1>10. \A i \in 1 .. Len(hs) : hs[i] \in Int
  <2>1. \A i \in 1 .. Len(hs) : hs[i] \in SeqNos
    BY <1>5
  <2> QED
    BY <2>1, SeqNosAreNat
<1>11. \A i \in 1 .. Len(delivered), k \in 1 .. Len(hs) :
         delivered[i] <= hs[k] /\ delivered[i] < hs[k]
  BY <1>5, <1>6, <1>9, <1>10
<1>12. /\ delivered' \in Seq(SeqNos)
       /\ Sorted(delivered')
       /\ Strict(delivered) /\ Strict(hs) => Strict(delivered')
       /\ \A i \in 1 .. Len(delivered') :
            \/ \E k \in 1 .. Len(delivered) : delivered'[i] = delivered[k]
            \/ \E k \in 1 .. Len(hs) : delivered'[i] = hs[k]
  <2>1. \A i \in 1 .. Len(delivered), k \in 1 .. Len(hs) : delivered[i] <= hs[k]
    BY <1>11
  <2>2. \A i \in 1 .. Len(delivered), k \in 1 .. Len(hs) : delivered[i] < hs[k]
    BY <1>11
  <2>3. delivered \in Seq(SeqNos) /\ hs \in Seq(SeqNos) /\ Sorted(delivered) /\ Sorted(hs)
    BY <1>5, <1>8
  <2>4. /\ delivered \o hs \in Seq(SeqNos)
        /\ Sorted(delivered \o hs)
        /\ Strict(delivered) /\ Strict(hs) => Strict(delivered \o hs)
        /\ \A i \in 1 .. Len(delivered \o hs) :
             \/ \E k \in 1 .. Len(delivered) : (delivered \o hs)[i] = delivered[k]
             \/ \E k \in 1 .. Len(hs) : (delivered \o hs)[i] = hs[k]
    BY ONLY <2>1, <2>2, <2>3, ConcatSorted
  <2> QED
    BY <2>4, <1>3
<1>13. DeliveredInOrder'
  BY <1>12 DEF DeliveredInOrder
<1>14. TwiceOnlyByForcedNull'
  <2>1. TwiceOnlyByForcedNull <=> ("forced null" \notin gaveUp => Strict(delivered))
    BY DEF TwiceOnlyByForcedNull, Strict
  <2>2. TwiceOnlyByForcedNull' <=> ("forced null" \notin gaveUp' => Strict(delivered'))
    BY DEF TwiceOnlyByForcedNull, Strict
  <2>3. "forced null" \notin gaveUp' => "forced null" \notin gaveUp /\ NotForcedNull
    BY <1>3 DEF NotForcedNull
  <2> QED
    BY <2>1, <2>2, <2>3, <1>5, <1>12 DEF IInv
<1>15. HandledUpToLast'
  <2>1. \A k \in 1 .. Len(delivered) : delivered[k] <= m
    BY <1>4, <1>6, <1>9
  <2>2. DOMAIN delivered' = 1 .. Len(delivered')
    BY <1>12
  <2> QED
    BY <2>1, <2>2, <1>3, <1>5, <1>12 DEF HandledUpToLast
<1>16. /\ pdlist' \in Seq(SeqNos) /\ Sorted(pdlist')
       /\ Len(pdlist') = Len(q) - j
       /\ \A k \in 1 .. Len(pdlist') : pdlist'[k] = q[j + k]
  BY <1>3, <1>4, SubSeqFacts
<1>17. Len(q) \in Nat /\ j \in Int /\ j >= 0 /\ j <= Len(q)
  BY <1>4
<1>18. BufferWaitsForGap'
  <2>1. ASSUME pdlist' # <<>> PROVE pdlist'[1] > last' + 1
    <3>1. Len(pdlist') # 0 /\ Len(pdlist') \in Nat
      BY <2>1, <1>16
    <3>2. j < Len(q) /\ 1 \in 1 .. Len(pdlist')
      BY <3>1, <1>16, <1>17
    <3> QED
      BY <3>2, <1>3, <1>7, <1>16
  <2> QED
    BY <2>1, <1>16 DEF BufferWaitsForGap
<1>19. BufferBounded'
  BY <1>4, <1>16, <1>17, MaxItemsAssumption DEF BufferBounded
<1>20. EmptyBeforeFirst'
  <2>1. ASSUME last' = -1 PROVE pdlist' = <<>>
    <3>1. Len(pdlist') = 0
      BY <2>1, <1>3, <1>4, <1>16, <1>17
    <3> QED
      BY <3>1, <1>16
  <2> QED
    BY <2>1 DEF EmptyBeforeFirst
<1>21. last' \in Nat \cup {-1}
  BY <1>3, <1>4
<1>22. lastTime' \in Nat \cup {-1}
  <2>1. lastTime \in Nat \/ lastTime = -1
    BY DEF IInv, TypeOK
  <2>2. lastTime' = 10 + m + 1 \/ lastTime' = 0 \/ lastTime' = lastTime
    BY <1>3 DEF TimeAfter, EndTime, StartTime
  <2> QED
    BY <2>1, <2>2, <1>4
<1>23. gaveUp' \subseteq {"force", "null", "forced null"}
  BY <1>3 DEF Reasons, IInv, TypeOK
<1>24. /\ last \in Int /\ last >= -1
       /\ Started(pd) >= last /\ (delivered # <<>> => Started(pd) = last)
       /\ FirstTime(pd) => delivered = <<>>
  <2>0. last \in Nat \/ last = -1
    BY DEF IInv, TypeOK
  <2>1. last \in Int /\ last >= -1
    BY <2>0
  <2>2. delivered # <<>> => last # -1
    <3>1. delivered # <<>> => 1 \in 1 .. Len(delivered)
      BY <1>8
    <3>2. delivered # <<>> => delivered[1] <= last /\ delivered[1] \in SeqNos
      BY <3>1, <1>8 DEF IInv, HandledUpToLast
    <3> QED
      BY <3>2, SeqNosAreNat
  <2>3. timeoutrecv \in Nat
    BY TimeoutRecvsAssumption DEF TimeoutRecvsAssumption, IInv, TypeOK
  <2>4. Started(pd) >= last /\ (~FirstTime(pd) => Started(pd) = last)
    BY <2>1, <2>3, SeqNosAreNat DEF Started, FirstTime, NoPacket
  <2> QED
    BY <2>1, <2>2, <2>4 DEF FirstTime
<1>25. HandledAreRun'
  <2> SUFFICES ASSUME gaveUp' = {}, NEW i \in 1 .. Len(delivered')
               PROVE  delivered'[i] = last' - Len(delivered') + i
    BY DEF HandledAreRun
  <2>1. gaveUp = {} /\ Reasons(pd, late, q) = {}
    BY <1>3
  <2>2. /\ Len(hs) = m - Started(pd)
        /\ \A k \in 1 .. Len(hs) : hs[k] = Started(pd) + k
    BY <1>b, <2>1
  <2>3. \A k \in 1 .. Len(delivered) : delivered[k] = last - Len(delivered) + k
    BY <2>1 DEF IInv, HandledAreRun
  <2>4. /\ Len(delivered) \in Nat /\ Len(hs) \in Nat /\ Len(delivered') = Len(delivered) + Len(hs)
        /\ \A k \in 1 .. Len(delivered) + Len(hs) :
             delivered'[k] = IF k <= Len(delivered) THEN delivered[k] ELSE hs[k - Len(delivered)]
    BY <1>3, <1>5, <1>8, ConcatProperties
  <2>5. CASE i <= Len(delivered)
    <3>1. delivered # <<>>
      BY <2>4, <2>5
    <3>2. delivered'[i] = last - Len(delivered) + i /\ Started(pd) = last
      BY <3>1, <2>3, <2>4, <2>5, <1>24
    <3>3. /\ last' = m /\ m \in Int /\ last \in Int /\ Len(hs) = m - last
          /\ Len(delivered) \in Nat /\ Len(delivered') = Len(delivered) + Len(hs)
      BY <3>2, <2>2, <2>4, <1>3, <1>4, <1>24
    <3> QED
      BY <3>2, <3>3
  <2>6. CASE ~(i <= Len(delivered))
    <3>1. i - Len(delivered) \in 1 .. Len(hs)
      BY <2>4, <2>6
    <3>2. delivered'[i] = Started(pd) + (i - Len(delivered))
      BY <3>1, <2>2, <2>4, <2>6
    <3>3. /\ last' = m /\ m \in Int /\ Started(pd) \in Int /\ Len(hs) = m - Started(pd)
          /\ Len(delivered) \in Nat /\ Len(delivered') = Len(delivered) + Len(hs)
      <4>1. last' = m
        BY <1>3
      <4>2. m \in Int /\ Started(pd) \in Int
        BY <1>4, <1>6
      <4> QED
        BY <4>1, <4>2, <2>2, <2>4, Zenon
    <3>4. i \in Int
      OBVIOUS
    <3> DEFINE a == Len(delivered)
               b == Started(pd)
               x == delivered'[i]
               y == last'
               z == Len(delivered')
    <3>5. x = b + (i - a) /\ y = m /\ m \in Int /\ a \in Int /\ b \in Int /\ z = a + (m - b)
      BY <3>2, <3>3
    <3> HIDE DEF a, b, x, y, z
    <3>6. x = y - z + i
      BY ONLY <3>4, <3>5
    <3> QED
      BY <3>6, Zenon DEF x, y, z
  <2> QED
    BY <2>5, <2>6
<1>26. LastTimeIsEndOfHandled'
  <2>1. LastTimeIsEndOfHandled
    BY DEF IInv
  <2>2. CASE hs # <<>>
    <3>1. /\ Len(hs) \in Nat \ {0} /\ hs[Len(hs)] = m /\ Len(delivered) \in Nat
      BY <1>8, <1>b, <2>2
    <3>2. /\ Len(delivered') = Len(delivered) + Len(hs)
          /\ \A k \in 1 .. Len(delivered) + Len(hs) :
               delivered'[k] = IF k <= Len(delivered) THEN delivered[k] ELSE hs[k - Len(delivered)]
      BY <1>3, <1>5, <1>8, ConcatProperties
    <3>3. /\ Len(delivered') \in 1 .. Len(delivered) + Len(hs)
          /\ ~(Len(delivered') <= Len(delivered))
          /\ Len(delivered') - Len(delivered) = Len(hs)
      BY <3>1, <3>2
    <3>4. delivered' # <<>> /\ delivered'[Len(delivered')] = m
      BY <3>1, <3>2, <3>3
    <3>5. lastTime' = EndTime(m)
      BY <1>3, <2>2 DEF TimeAfter
    <3> QED
      BY <3>4, <3>5 DEF LastTimeIsEndOfHandled, EndTime, StartTime
  <2>3. CASE hs = <<>>
    <3>1. delivered' = delivered
      BY <1>3, <1>8, <2>3, ConcatEmptySeq
    <3>2. CASE FirstTime(pd)
      BY <3>1, <3>2, <1>3, <1>24, <2>3 DEF TimeAfter, LastTimeIsEndOfHandled
    <3>3. CASE ~FirstTime(pd)
      BY <3>1, <3>3, <1>3, <2>1, <2>3 DEF TimeAfter, LastTimeIsEndOfHandled, EndTime, StartTime
    <3> QED
      BY <3>2, <3>3
  <2> QED
    BY <2>2, <2>3
<1>27. ASSUME phase = "receiving", NEW s \in SeqNos, s = pd \/ received[s] > 0, s > last'
       PROVE  \E i \in 1 .. Len(pdlist') : pdlist'[i] = s
  <2>1. s \in Int /\ s > m /\ s # NoPacket
    BY <1>3, <1>27, SeqNosAreNat DEF NoPacket
  <2>2. /\ pdlist \in Seq(SeqNos) /\ BufferBounded
        /\ MustForce(late) => AfterForce(pd, late) = pdlist[1]
    BY BeforeSort DEF IInv, TypeOK
  <2>3. \E k \in 1 .. Len(Held(pd, late)) : Held(pd, late)[k] = s
    <3>1. CASE s = pd
      BY <3>1, <2>1, <2>2, HeldKeeps
    <3>2. CASE s # pd
      <4>1. PICK i \in 1 .. Len(pdlist) : pdlist[i] = s
        <5>1. s > last
          BY <1>4, <1>6, <1>24, <2>1
        <5>2. NewerAreBuffered
          BY DEF IInv
        <5> QED
          BY <3>2, <5>1, <5>2, <1>27 DEF NewerAreBuffered
      <4>2. MustForce(late) => i > 1
        <5>1. MustForce(late) => pdlist[1] <= m /\ pdlist[1] \in Int /\ m \in Int
          BY <2>2, <1>4, <1>6
        <5> QED
          BY <4>1, <5>1, <2>1
      <4>3. \E k \in 1 .. Len(Held(pd, late)) : Held(pd, late)[k] = pdlist[i]
        <5>1. \A n \in 1 .. Len(pdlist) :
                (MustForce(late) => n > 1) =>
                  \E k \in 1 .. Len(Held(pd, late)) : Held(pd, late)[k] = pdlist[n]
          BY <2>2, HeldKeeps
        <5> QED
          BY <4>2, <5>1, Zenon
      <4> QED
        BY <4>1, <4>3
    <3> QED
      BY <3>1, <3>2
  <2>4. PICK k \in 1 .. Len(q) : q[k] = s
    <3>1. Held(pd, late) \in Seq(SeqNos)
      BY <2>2, HeldFacts
    <3>2. \A k \in 1 .. Len(Held(pd, late)) : \E i \in 1 .. Len(q) : q[i] = Held(pd, late)[k]
      BY <3>1, QSortFacts, Zenon
    <3> QED
      BY <3>2, <2>3
  <2>5. ~(k <= j)
    BY <2>1, <2>4, <1>3, <1>4, <1>7, <1>17
  <2>6. k - j \in 1 .. Len(pdlist') /\ pdlist'[k - j] = q[j + (k - j)] /\ j + (k - j) = k
    BY <2>5, <1>16, <1>17
  <2> QED
    BY <2>4, <2>6
<1> QED
  BY <1>3, <1>12, <1>13, <1>14, <1>15, <1>16, <1>18, <1>19, <1>20, <1>21, <1>22, <1>23,
     <1>25, <1>26, <1>27

-----------------------------------------------------------------------------
\* A channel that was just initialized satisfies the inductive invariant.
LEMMA InitIInv == Init => IInv
<1> SUFFICES ASSUME Init PROVE IInv
  OBVIOUS
<1>1. /\ timeoutrecv \in TimeoutRecvs
      /\ phase = "receiving" /\ last = -1 /\ lastTime = -1
      /\ pdlist = <<>> /\ delivered = <<>> /\ gaveUp = {}
      /\ received = [s \in SeqNos |-> 0]
  BY DEF Init, NoneReceived
<1>2. pdlist \in Seq(SeqNos) /\ delivered \in Seq(SeqNos)
  BY <1>1
<1>3. received \in [SeqNos -> 0 .. MaxCopies]
  BY <1>1, MaxCopiesAssumption DEF MaxCopiesAssumption
<1>4. TypeOK
  BY <1>1, <1>2, <1>3 DEF TypeOK
<1>5. Len(pdlist) = 0 /\ DOMAIN pdlist = {} /\ DOMAIN delivered = {}
  BY <1>1
<1>6. BufferWaitsForGap /\ EmptyBeforeFirst
  BY <1>1, <1>5 DEF BufferWaitsForGap, EmptyBeforeFirst, Sorted
<1>7. BufferBounded
  BY <1>5, MaxItemsAssumption DEF BufferBounded, MaxItemsAssumption
<1>8. HandledUpToLast /\ DeliveredInOrder /\ TwiceOnlyByForcedNull
  BY <1>5 DEF HandledUpToLast, DeliveredInOrder, TwiceOnlyByForcedNull, Sorted
<1>9. NewerAreBuffered /\ HandledAreRun /\ LastTimeIsEndOfHandled
  BY <1>1 DEF NewerAreBuffered, HandledAreRun, LastTimeIsEndOfHandled
<1> QED
  BY <1>4, <1>6, <1>7, <1>8, <1>9 DEF IInv

\* Every call, and what its callers do around it, preserves the invariant.
LEMMA NextIInv == IInv /\ [Next]_vars => IInv'
<1> SUFFICES ASSUME IInv, [Next]_vars PROVE IInv'
  OBVIOUS
<1>1. ASSUME NEW s \in SeqNos, ReceivePacket(s) PROVE IInv'
  <2>1. PICK late \in BOOLEAN : Manage(s, late)
    BY <1>1 DEF ReceivePacket
  <2>2. phase' \in {"receiving", "flushed", "freed"}
    BY <1>1 DEF ReceivePacket, IInv, TypeOK
  <2>3. received' \in [SeqNos -> 0 .. MaxCopies]
    <3>1. /\ received \in [SeqNos -> 0 .. MaxCopies]
          /\ received[s] < MaxCopies
          /\ received' = [received EXCEPT ![s] = received[s] + 1]
      BY <1>1 DEF ReceivePacket, IInv, TypeOK
    <3>2. received[s] + 1 \in 0 .. MaxCopies
      BY <3>1, MaxCopiesAssumption DEF MaxCopiesAssumption
    <3> QED
      BY <3>1, <3>2
  <2>4. NewerAreBuffered'
    <3>1. /\ phase = "receiving" /\ received \in [SeqNos -> 0 .. MaxCopies]
          /\ received' = [received EXCEPT ![s] = received[s] + 1]
      BY <1>1 DEF ReceivePacket, IInv, TypeOK
    <3>2. \A t \in SeqNos : received'[t] > 0 => t = s \/ received[t] > 0
      BY <3>1
    <3> QED
      BY <3>1, <3>2, <2>1, ManageStep DEF NewerAreBuffered
  <2> QED
    BY <2>1, <2>2, <2>3, <2>4, ManageStep DEF IInv, TypeOK
<1>2. ASSUME Timeout PROVE IInv'
  <2>1. PICK late \in BOOLEAN : Manage(NoPacket, late)
    BY <1>2 DEF Timeout
  <2>2. phase' = phase /\ received' = received
    BY <1>2 DEF Timeout
  <2>3. NewerAreBuffered'
    BY <2>1, <2>2, ManageStep DEF NewerAreBuffered
  <2> QED
    BY <2>1, <2>2, <2>3, ManageStep DEF IInv, TypeOK
<1>3. ASSUME Flush PROVE IInv'
  <2>1. PICK late \in BOOLEAN : Manage(NoPacket, late)
    BY <1>3 DEF Flush
  <2>2. phase' = "flushed" /\ received' = received
    BY <1>3 DEF Flush
  <2>3. NewerAreBuffered'
    BY <2>2 DEF NewerAreBuffered
  <2> QED
    BY <2>1, <2>2, <2>3, ManageStep DEF IInv, TypeOK
<1>4. ASSUME Free PROVE IInv'
  <2>1. /\ phase' = "freed" /\ pdlist' = <<>>
        /\ UNCHANGED <<timeoutrecv, last, lastTime, received, delivered, gaveUp>>
    BY <1>4 DEF Free
  <2>2. pdlist' \in Seq(SeqNos) /\ Len(pdlist') = 0 /\ DOMAIN pdlist' = {}
    BY <2>1
  <2>3. TypeOK'
    BY <2>1, <2>2 DEF IInv, TypeOK
  <2>4. BufferWaitsForGap' /\ EmptyBeforeFirst'
    BY <2>1, <2>2 DEF BufferWaitsForGap, EmptyBeforeFirst, Sorted
  <2>5. BufferBounded'
    BY <2>2, MaxItemsAssumption DEF BufferBounded, MaxItemsAssumption
  <2>6. HandledUpToLast' /\ DeliveredInOrder' /\ TwiceOnlyByForcedNull'
    BY <2>1 DEF IInv, HandledUpToLast, DeliveredInOrder, TwiceOnlyByForcedNull, Sorted
  <2>7. NewerAreBuffered' /\ HandledAreRun' /\ LastTimeIsEndOfHandled'
    BY <2>1 DEF IInv, NewerAreBuffered, HandledAreRun, LastTimeIsEndOfHandled, EndTime, StartTime
  <2> QED
    BY <2>3, <2>4, <2>5, <2>6, <2>7 DEF IInv
<1>5. ASSUME Reconnect PROVE IInv'
  <2>1. /\ phase' = "receiving" /\ last' = -1 /\ lastTime' = -1
        /\ pdlist' = <<>> /\ delivered' = <<>> /\ gaveUp' = {}
        /\ received' = [s \in SeqNos |-> 0]
        /\ timeoutrecv' = timeoutrecv
    BY <1>5 DEF Reconnect, NoneReceived
  <2>2. /\ pdlist' \in Seq(SeqNos) /\ Len(pdlist') = 0 /\ DOMAIN pdlist' = {}
        /\ delivered' \in Seq(SeqNos) /\ DOMAIN delivered' = {}
    BY <2>1
  <2>3. received' \in [SeqNos -> 0 .. MaxCopies]
    BY <2>1, MaxCopiesAssumption DEF MaxCopiesAssumption
  <2>4. TypeOK'
    BY <2>1, <2>2, <2>3 DEF IInv, TypeOK
  <2>5. BufferWaitsForGap' /\ EmptyBeforeFirst'
    BY <2>1, <2>2 DEF BufferWaitsForGap, EmptyBeforeFirst, Sorted
  <2>6. BufferBounded'
    BY <2>2, MaxItemsAssumption DEF BufferBounded, MaxItemsAssumption
  <2>7. HandledUpToLast' /\ DeliveredInOrder' /\ TwiceOnlyByForcedNull'
    BY <2>2 DEF HandledUpToLast, DeliveredInOrder, TwiceOnlyByForcedNull, Sorted
  <2>8. NewerAreBuffered' /\ HandledAreRun' /\ LastTimeIsEndOfHandled'
    BY <2>1, <2>2 DEF NewerAreBuffered, HandledAreRun, LastTimeIsEndOfHandled
  <2> QED
    BY <2>4, <2>5, <2>6, <2>7, <2>8 DEF IInv
<1>6. CASE UNCHANGED vars
  BY <1>6 DEF vars, IInv, TypeOK, BufferWaitsForGap, BufferBounded, EmptyBeforeFirst,
     HandledUpToLast, DeliveredInOrder, TwiceOnlyByForcedNull, Sorted,
     NewerAreBuffered, HandledAreRun, LastTimeIsEndOfHandled, EndTime, StartTime
<1> QED
  BY <1>1, <1>2, <1>3, <1>4, <1>5, <1>6 DEF Next

\* The inductive invariant holds: every theorem below is one of its parts.
THEOREM InductiveInvariant == Spec => []IInv
<1>1. Init => IInv
  BY InitIInv
<1>2. IInv /\ [Next]_vars => IInv'
  BY NextIInv
<1> QED
  BY <1>1, <1>2, PTL DEF Spec

-----------------------------------------------------------------------------
\* The state keeps its types: last_seq_no_sent is -1 or a sequence number,
\* the buffer and the packets handled are packets that NaqsServer may send.
THEOREM TypeCorrect == Spec => []TypeOK
<1>1. IInv => TypeOK
  BY DEF IInv
<1> QED
  BY <1>1, InductiveInvariant, PTL

\* Whatever comes in, and however often packets are forced or time out, the
\* buffer is sorted and waits for a missing packet: nmxp_raw_stream_manage()
\* never takes the branch it calls "SHOULD NOT OCCUR".
THEOREM BufferAlwaysWaits == Spec => []BufferWaitsForGap
<1>1. IInv => BufferWaitsForGap
  BY DEF IInv
<1> QED
  BY <1>1, InductiveInvariant, PTL

\* For every size of the array, n_pdlist stays within it.
THEOREM BufferNeverOverflows == Spec => []BufferBounded
<1>1. IInv => BufferBounded
  BY DEF IInv
<1> QED
  BY <1>1, InductiveInvariant, PTL

\* The output functions see the packets of a channel in chronological order.
THEOREM InOrder == Spec => []DeliveredInOrder
<1>1. IInv => DeliveredInOrder
  BY DEF IInv
<1> QED
  BY <1>1, InductiveInvariant, PTL

\* Without a NULL call on a full or late buffer no packet is handled twice.
THEOREM OnceUnlessForcedNull == Spec => []TwiceOnlyByForcedNull
<1>1. IInv => TwiceOnlyByForcedNull
  BY DEF IInv
<1> QED
  BY <1>1, InductiveInvariant, PTL

\* Until missing packets are given up nothing is lost: the packets handled are
\* consecutive, and those received since the first of them are handled or wait
\* in the buffer.
THEOREM Lossless == Spec => []LosslessUntilGivenUp
<1>1. IInv => LosslessUntilGivenUp
  <2> SUFFICES ASSUME IInv, gaveUp = {}, delivered # <<>>
               PROVE  /\ \A i \in DOMAIN delivered : delivered[i] = delivered[1] + i - 1
                      /\ phase = "receiving" =>
                           \A s \in SeqNos :
                             received[s] > 0 /\ s >= delivered[1] =>
                               s \in Handled \/ \E i \in DOMAIN pdlist : pdlist[i] = s
    BY DEF LosslessUntilGivenUp
  <2> DEFINE n == Len(delivered)
  <2>1. /\ delivered \in Seq(SeqNos) /\ pdlist \in Seq(SeqNos) /\ last \in Int
        /\ HandledAreRun /\ NewerAreBuffered
    BY DEF IInv, TypeOK
  <2>2. n \in Nat /\ 1 \in 1 .. n /\ DOMAIN delivered = 1 .. n
    BY <2>1
  <2>3. \A i \in 1 .. n : delivered[i] = last - n + i
    BY <2>1 DEF HandledAreRun
  <2> HIDE DEF n
  <2>4. delivered[1] = last - n + 1
    BY <2>2, <2>3
  <2>5. \A i \in DOMAIN delivered : delivered[i] = delivered[1] + i - 1
    BY <2>1, <2>2, <2>3, <2>4
  <2>6. ASSUME phase = "receiving", NEW s \in SeqNos, received[s] > 0, s >= delivered[1]
        PROVE  s \in Handled \/ \E i \in DOMAIN pdlist : pdlist[i] = s
    <3>1. s \in Int
      BY SeqNosAreNat
    <3>2. CASE s > last
      BY <3>2, <2>1, <2>6 DEF NewerAreBuffered
    <3>3. CASE ~(s > last)
      <4>1. s - (last - n) \in 1 .. n
        BY <3>1, <3>3, <2>1, <2>2, <2>4, <2>6
      <4>2. delivered[s - (last - n)] = s
        BY <4>1, <3>1, <2>1, <2>2, <2>3
      <4> QED
        BY <4>1, <4>2, <2>2 DEF Handled
    <3> QED
      BY <3>2, <3>3
  <2> QED
    BY <2>5, <2>6
<1> QED
  BY <1>1, InductiveInvariant, PTL

\* last_sample_time, which the state file keeps, is the end of the last packet
\* handled, whatever was forced, discarded or given up since.
THEOREM TimeOfLast == Spec => []LastTimeIsEndOfHandled
<1>1. IInv => LastTimeIsEndOfHandled
  BY DEF IInv
<1> QED
  BY <1>1, InductiveInvariant, PTL
=============================================================================
