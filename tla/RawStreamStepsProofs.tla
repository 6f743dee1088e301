-------------------------- MODULE RawStreamStepsProofs --------------------------
(***************************************************************************)
(* What the steps of nmxp_raw_stream_manage() do to the array of pointers  *)
(* and to the heap, for arrays of any size.                                *)
(***************************************************************************)
EXTENDS RawStreamSteps, FiniteSetTheorems, SequenceTheorems, TLAPS

\* A packet on the heap is at one of the first n_pdlist places, or it is the copy
\* that the call has not put there yet.
HeapOK ==
  \A a \in Addresses :
    heap[a] # NotAllocated <=> (\E k \in 0 .. (n - 1) : slots[k] = a) \/ (pc = "force" /\ pd = a)

\* No packet is at two places.
DistinctOK ==
  /\ \A k, m \in 0 .. (n - 1) : slots[k] = slots[m] /\ slots[k] # Null => k = m
  /\ pc = "force" /\ pd # Null => \A k \in 0 .. (n - 1) : slots[k] # pd

\* The places that hold a packet.  While the loop that shifts runs, they are those
\* it has filled, those it has to free, and those it has still to move.
PlacesOK ==
  /\ pc \in {"idle", "force", "sort", "handle"} => \A k \in 0 .. (n - 1) : slots[k] # Null
  /\ pc \in {"force", "compact", "sort"} => j = 0
  /\ pc = "force" => i = 0
  /\ pc = "compact" => i <= n /\ \A k \in 0 .. (i - 1) : slots[k] # Null
  /\ pc = "handle" => j <= n
  /\ pc = "shift" =>
       /\ i <= n /\ j <= n
       /\ \A k \in 0 .. (n - 1) :
            slots[k] # Null <=> (k < i /\ k < n - j) \/ (i <= k /\ k < j) \/ i + j <= k

StepTypes == TypeOK /\ timeoutrecv \in TimeoutRecvs

IInv == StepTypes /\ HeapOK /\ DistinctOK /\ PlacesOK

-----------------------------------------------------------------------------
(* How far a call of RawStream has come                                    *)

NoPacket == -1

\* Between two calls: nothing is in the buffer before the first packet, nor after
\* nmxp_raw_stream_free().
StreamOK ==
  /\ last \in Nat \cup {-1} /\ delivered \in Seq(SeqNos)
  /\ phase = "freed" => pc = "idle" /\ n = 0
  /\ pc = "idle" /\ last = -1 => n = 0

\* The call is one that RawStream allows in the state before it.
Called(arg) ==
  /\ before.timeoutrecv = timeoutrecv /\ before.phase = "receiving"
  /\ before.last \in Nat \cup {-1} /\ before.delivered \in Seq(SeqNos) /\ before.pdlist \in Seq(SeqNos)
  /\ before.last = -1 => before.pdlist = <<>>
  /\ pd = Null <=> arg = NoPacket
  /\ \/ /\ arg \in SeqNos /\ phase = "receiving" /\ before.received[arg] < MaxCopies
        /\ received = [before.received EXCEPT ![arg] = @ + 1]
     \/ /\ arg = NoPacket /\ received = before.received /\ phase = "receiving" /\ timeoutrecv > 0
        /\ \E s \in SeqNos : received[s] > 0
     \/ arg = NoPacket /\ received = before.received /\ phase = "flushed"

\* The packet is copied, and last_seq_no_sent is that of "First time".
AtForce(arg) ==
  /\ before.pdlist = Buffered /\ forced = FALSE
  /\ pd # Null => heap[pd] = arg
  /\ last = Atomic!Started(arg) /\ delivered = before.delivered /\ gaveUp = before.gaveUp
  /\ lastTime = IF ~Atomic!FirstTime(arg) THEN before.lastTime
                 ELSE IF timeoutrecv = 0 THEN StartTime(arg) ELSE 0

\* The packet that the call has forced out.
Forced(arg, late) ==
  IF Atomic!ForceHandles(arg, late) THEN <<Head(before.pdlist)>> ELSE <<>>

Live == {k \in 0 .. (n - 1) : slots[k] # Null}

\* The places hold what RawStream sorts, in some order.
AtSort(arg, late) ==
  /\ forced <=> Atomic!MustForce(late)
  /\ last = Atomic!AfterForce(arg, late)
  /\ delivered = before.delivered \o Forced(arg, late)
  /\ gaveUp = before.gaveUp \cup (IF forced THEN {"force"} ELSE {})
  /\ ~Atomic!ForceHandles(arg, late) /\ ~Atomic!FirstTime(arg) => lastTime = before.lastTime
  /\ ~Atomic!ForceHandles(arg, late) /\ Atomic!FirstTime(arg) /\ timeoutrecv > 0 => lastTime = 0
  /\ Atomic!ForceHandles(arg, late) => lastTime = EndTime(last)
  /\ LET held == Atomic!Held(arg, late) IN
     \E f \in Bijection(Live, 1 .. Len(held)) : \A k \in Live : heap[slots[k]] = held[f[k]]

\* The main loop has looked at the first j packets of q.
AtHandle(arg, late, q) ==
  LET l == Atomic!AfterTimeout(arg, late, q)
      handled == Forced(arg, late) \o Atomic!Run(l, last)
  IN  /\ last >= l
      /\ \A x \in 1 .. j : q[x] <= last
      /\ \A s \in (l + 1) .. last : \E x \in 1 .. j : q[x] = s
      /\ delivered = before.delivered \o handled
      /\ gaveUp = before.gaveUp \cup Atomic!Reasons(arg, late, q)
      /\ lastTime = Atomic!TimeAfter(arg, handled, last) \/ (j = 0 /\ n > 0 /\ q[1] = last + 1)

\* The loop that shifts has moved i packets of those that are left.
AtShift(q) ==
  /\ j < n => q[j + 1] > last + 1
  /\ \A k \in 0 .. (n - 1) :
       /\ k < i /\ k < n - j => heap[slots[k]] = q[k + j + 1]
       /\ i + j <= k => heap[slots[k]] = q[k + 1]

CallOK(arg) ==
  \/ pc = "force" /\ AtForce(arg)
  \/ pc \in {"compact", "sort"} /\ \E late \in BOOLEAN : AtSort(arg, late)
  \/ \E late \in BOOLEAN : \E q \in Atomic!QSort(Atomic!Held(arg, late)) :
       /\ Len(q) = n /\ AtHandle(arg, late, q)
       /\ (pc = "handle" /\ q = Buffered) \/ (pc = "shift" /\ AtShift(q))

RefinementInv ==
  StreamOK /\ (pc # "idle" => \E arg \in SeqNos \cup {NoPacket} : Called(arg) /\ CallOK(arg))

-----------------------------------------------------------------------------
(* Types                                                                   *)

LEMMA Numbers ==
  /\ MaxItems \in Nat /\ MaxItems > 0
  /\ \A t \in TimeoutRecvs : t \in Nat
  /\ \A s \in SeqNos : s \in Nat
  /\ Null \notin Addresses
  BY BufferAssumption DEF Null, Addresses

LEMMA StepTypesAre ==
  ASSUME StepTypes
  PROVE  /\ n \in Nat /\ n <= MaxItems /\ i \in Nat /\ j \in Nat /\ i <= MaxItems /\ j <= MaxItems
         /\ \A k \in 0 .. (n - 1) : k \in Nat /\ k \in Indexes /\ slots[k] \in Addresses \cup {Null}
         /\ \A k \in Indexes : k \in Nat /\ slots[k] \in Addresses \cup {Null}
  BY Numbers DEF StepTypes, TypeOK, Indexes

LEMMA FirstPlaces ==
  ASSUME NEW a \in Nat, NEW b \in Nat, a <= b
  PROVE  \A k \in 0 .. (a - 1) : k \in 0 .. (b - 1)
  OBVIOUS

\* As long as no call runs there is room on the heap for one more packet.
LEMMA RoomOnHeap ==
  ASSUME StepTypes, HeapOK, pc # "force"
  PROVE  Malloc \in FreeAddresses
<1> DEFINE S == 1 .. n
<1>1. n \in Nat /\ n <= MaxItems /\ MaxItems \in Nat
  BY StepTypesAre, Numbers
<1>2. SUFFICES ASSUME FreeAddresses = {} PROVE FALSE
  BY DEF Malloc
<1>3. \A a \in Addresses : \E k \in S : slots[k - 1] = a
  <2>1. ASSUME NEW a \in Addresses
        PROVE  \E k \in S : slots[k - 1] = a
    <3>1. PICK k \in 0 .. (n - 1) : slots[k] = a
      BY <1>2, <2>1 DEF HeapOK, FreeAddresses
    <3>2. k + 1 \in S /\ (k + 1) - 1 = k
      BY <1>1
    <3> QED
      BY <3>1, <3>2
  <2> QED
    BY <2>1
<1> DEFINE f == [a \in Addresses |-> CHOOSE k \in S : slots[k - 1] = a]
<1>4. f \in [Addresses -> S] /\ \A a \in Addresses : slots[f[a] - 1] = a
  BY <1>3
<1>5. IsFiniteSet(Addresses) /\ Cardinality(Addresses) = MaxItems + 1
  BY <1>1, FS_Interval DEF Addresses
<1>6. IsFiniteSet(S) /\ Cardinality(S) <= n
  BY <1>1, FS_Interval
<1> HIDE DEF S, f
<1>7. Cardinality(S) < Cardinality(Addresses)
  BY <1>1, <1>5, <1>6, FS_CardinalityType
<1>8. PICK a, b \in Addresses : a # b /\ f[a] = f[b]
  BY <1>4, <1>5, <1>6, <1>7, FS_PigeonHole
<1> QED
  BY <1>4, <1>8

LEMMA InitIInv == Init => IInv
<1> SUFFICES ASSUME Init PROVE IInv
  OBVIOUS
<1>1. slots = [k \in Indexes |-> Null] /\ heap = [a \in Addresses |-> NotAllocated] /\ n = 0
      /\ i = 0 /\ j = 0 /\ pc = "idle" /\ pd = Null /\ forced = FALSE /\ timeoutrecv \in TimeoutRecvs
  BY DEF Init
<1>2. slots \in [Indexes -> Addresses \cup {Null}] /\ heap \in [Addresses -> SeqNos \cup {NotAllocated}]
  BY <1>1
<1>3. 0 \in 0 .. MaxItems
  BY Numbers
<1>4. StepTypes
  BY <1>1, <1>2, <1>3 DEF StepTypes, TypeOK
<1>5. \A a \in Addresses : heap[a] = NotAllocated
  BY <1>1
<1> QED
  BY <1>1, <1>4, <1>5 DEF IInv, HeapOK, DistinctOK, PlacesOK

-----------------------------------------------------------------------------
(* The steps                                                               *)

\* The facts about a state that the steps below start from.
LEMMA Facts ==
  ASSUME IInv
  PROVE  /\ n \in Nat /\ n <= MaxItems /\ i \in Nat /\ j \in Nat /\ i <= MaxItems /\ j <= MaxItems
         /\ MaxItems \in Nat /\ MaxItems > 0
         /\ timeoutrecv \in TimeoutRecvs /\ timeoutrecv \in Nat
         /\ slots \in [Indexes -> Addresses \cup {Null}]
         /\ heap \in [Addresses -> SeqNos \cup {NotAllocated}]
         /\ pd \in Addresses \cup {Null} /\ forced \in BOOLEAN
         /\ pc \in {"idle", "force", "compact", "sort", "handle", "shift"}
         /\ \A k \in 0 .. (n - 1) : k \in Nat /\ k \in Indexes /\ slots[k] \in Addresses \cup {Null}
  BY Numbers, StepTypesAre DEF IInv, StepTypes, TypeOK

LEMMA CallKeeps ==
  ASSUME IInv, Enter, UNCHANGED <<slots, n>>,
         \/ pd' = Null /\ heap' = heap
         \/ \E s \in SeqNos : pd' = Malloc /\ heap' = [heap EXCEPT ![pd'] = s]
  PROVE  IInv'
<1>1. pc = "idle" /\ pc' = "force" /\ i' = 0 /\ j' = 0 /\ forced' = FALSE /\ timeoutrecv' = timeoutrecv
  BY DEF Enter
<1>2. Malloc \in Addresses /\ heap[Malloc] = NotAllocated
  BY <1>1, RoomOnHeap DEF IInv, FreeAddresses
<1>3. /\ pd' \in Addresses \cup {Null} /\ heap' \in [Addresses -> SeqNos \cup {NotAllocated}]
      /\ \A a \in Addresses : heap'[a] # NotAllocated <=> heap[a] # NotAllocated \/ a = pd'
      /\ pd' # Null => heap[pd'] = NotAllocated
  <2>1. CASE pd' = Null /\ heap' = heap
    BY <2>1, Facts, Numbers
  <2>2. ASSUME NEW s \in SeqNos, pd' = Malloc, heap' = [heap EXCEPT ![pd'] = s]
        PROVE  /\ pd' \in Addresses \cup {Null} /\ heap' \in [Addresses -> SeqNos \cup {NotAllocated}]
               /\ \A a \in Addresses : heap'[a] # NotAllocated <=> heap[a] # NotAllocated \/ a = pd'
               /\ pd' # Null => heap[pd'] = NotAllocated
    <3>1. s # NotAllocated
      BY Numbers DEF NotAllocated
    <3> QED
      BY <1>2, <2>2, <3>1, Facts
  <2> QED
    BY <2>1, <2>2
<1>4. StepTypes'
  <2>1. n \in 0 .. MaxItems /\ 0 \in 0 .. MaxItems
    BY Facts
  <2> QED
    BY <1>1, <1>3, <2>1, Facts DEF StepTypes, TypeOK
<1>5. HeapOK'
  BY <1>1, <1>3 DEF IInv, HeapOK
<1>6. DistinctOK'
  <2>1. \A k \in 0 .. (n - 1) : slots[k] \in Addresses => heap[slots[k]] # NotAllocated
    BY Facts DEF IInv, HeapOK
  <2>2. \A k \in 0 .. (n - 1) : slots[k] # Null /\ slots[k] \in Addresses
    BY <1>1, Facts DEF IInv, PlacesOK
  <2> QED
    BY <1>1, <1>3, <2>1, <2>2 DEF IInv, DistinctOK
<1>7. PlacesOK'
  BY <1>1 DEF IInv, PlacesOK
<1> QED
  BY <1>4, <1>5, <1>6, <1>7 DEF IInv

LEMMA ForceFirstKeeps ==
  ASSUME IInv, NEW late \in BOOLEAN, MustForce(late), ForceFirst
  PROVE  IInv'
<1>1. /\ pc = "force" /\ pc' = "compact" /\ forced' = TRUE
      /\ heap' = [heap EXCEPT ![slots[0]] = NotAllocated] /\ slots' = [slots EXCEPT ![0] = pd]
      /\ UNCHANGED <<timeoutrecv, n, pd, i, j>>
  BY DEF ForceFirst
<1>2. n > 0 /\ 0 \in 0 .. (n - 1) /\ 0 \in Indexes
  BY Facts DEF MustForce, Indexes
<1>3. slots[0] \in Addresses /\ i = 0 /\ j = 0 /\ \A k \in 0 .. (n - 1) : slots[k] \in Addresses
  BY <1>1, <1>2, Facts DEF IInv, PlacesOK
<1>4. \A k \in 0 .. (n - 1) : slots'[k] = IF k = 0 THEN pd ELSE slots[k]
  BY <1>1, Facts
<1>5. \A a \in Addresses : heap'[a] # NotAllocated <=> heap[a] # NotAllocated /\ a # slots[0]
  BY <1>1, <1>3, Facts
<1>6. /\ \A k, m \in 0 .. (n - 1) : slots[k] = slots[m] => k = m
      /\ pd # Null => \A k \in 0 .. (n - 1) : slots[k] # pd
  BY <1>1, <1>3, Numbers DEF IInv, DistinctOK
<1>7. StepTypes'
  <2>1. slots' \in [Indexes -> Addresses \cup {Null}] /\ heap' \in [Addresses -> SeqNos \cup {NotAllocated}]
    BY <1>1, Facts
  <2>2. n \in 0 .. MaxItems /\ 0 \in 0 .. MaxItems
    BY Facts
  <2> QED
    BY <1>1, <1>3, <2>1, <2>2, Facts DEF StepTypes, TypeOK
<1>8. HeapOK'
  <2>1. ASSUME NEW a \in Addresses
        PROVE  heap'[a] # NotAllocated <=> \E k \in 0 .. (n - 1) : slots'[k] = a
    <3>1. heap[a] # NotAllocated <=> (\E k \in 0 .. (n - 1) : slots[k] = a) \/ pd = a
      BY <1>1 DEF IInv, HeapOK
    <3>2. CASE a = pd
      BY <1>2, <1>3, <1>4, <1>5, <1>6, <3>1, <3>2, Numbers
    <3>3. CASE a # pd
      BY <1>2, <1>4, <1>5, <1>6, <3>1, <3>3
    <3> QED
      BY <3>2, <3>3
  <2> QED
    BY <1>1, <2>1 DEF HeapOK
<1>9. DistinctOK'
  BY <1>1, <1>4, <1>6 DEF DistinctOK
<1>10. PlacesOK'
  BY <1>1, <1>3, Facts DEF PlacesOK
<1> QED
  BY <1>7, <1>8, <1>9, <1>10 DEF IInv

LEMMA AddLastKeeps ==
  ASSUME IInv, NEW late \in BOOLEAN, ~MustForce(late), AddLast
  PROVE  IInv'
<1>1. /\ pc = "force" /\ pc' = "compact" /\ UNCHANGED <<timeoutrecv, heap, pd, i, j, forced>>
      /\ IF pd # Null THEN slots' = [slots EXCEPT ![n] = pd] /\ n' = n + 1 ELSE UNCHANGED <<slots, n>>
  BY DEF AddLast
<1>2. n < MaxItems /\ n \in Indexes
  BY Facts DEF MustForce, Indexes
<1>3. i = 0 /\ j = 0 /\ \A k \in 0 .. (n - 1) : slots[k] \in Addresses
  BY <1>1, <1>2, Facts DEF IInv, PlacesOK
<1>4. /\ \A k, m \in 0 .. (n - 1) : slots[k] = slots[m] => k = m
      /\ pd # Null => \A k \in 0 .. (n - 1) : slots[k] # pd
  BY <1>1, <1>3, Numbers DEF IInv, DistinctOK
<1>5. CASE pd = Null
  <2>1. UNCHANGED <<slots, n>>
    BY <1>1, <1>5
  <2>2. StepTypes'
    BY <1>1, <2>1 DEF IInv, StepTypes, TypeOK
  <2>3. HeapOK'
    BY <1>1, <1>5, <2>1, Numbers DEF IInv, HeapOK
  <2> QED
    BY <1>1, <1>3, <1>4, <2>1, <2>2, <2>3, Facts DEF IInv, DistinctOK, PlacesOK
<1>6. CASE pd # Null
  <2>1. slots' = [slots EXCEPT ![n] = pd] /\ n' = n + 1 /\ pd \in Addresses
    BY <1>1, <1>6, Facts
  <2>2. slots'[n] = pd /\ \A k \in 0 .. (n - 1) : slots'[k] = slots[k]
    BY <1>2, <2>1, Facts
  <2>3. \A k \in 0 .. (n' - 1) : k = n \/ k \in 0 .. (n - 1)
    BY <2>1, Facts
  <2>4. n \in 0 .. (n' - 1) /\ \A k \in 0 .. (n - 1) : k \in 0 .. (n' - 1)
    BY <2>1, Facts
  <2>5. StepTypes'
    <3>1. slots' \in [Indexes -> Addresses \cup {Null}]
      BY <2>1, Facts
    <3>2. n' \in 0 .. MaxItems /\ 0 \in 0 .. MaxItems
      BY <1>2, <2>1, Facts
    <3> QED
      BY <1>1, <1>3, <3>1, <3>2, Facts DEF StepTypes, TypeOK
  <2>6. HeapOK'
    <3>1. ASSUME NEW a \in Addresses
          PROVE  heap[a] # NotAllocated <=> \E k \in 0 .. (n' - 1) : slots'[k] = a
      <4>1. heap[a] # NotAllocated <=> (\E k \in 0 .. (n - 1) : slots[k] = a) \/ pd = a
        BY <1>1 DEF IInv, HeapOK
      <4> QED
        BY <2>2, <2>3, <2>4, <4>1
    <3> QED
      BY <1>1, <3>1 DEF HeapOK
  <2>7. DistinctOK'
    BY <1>1, <1>4, <1>6, <2>2, <2>3 DEF DistinctOK
  <2>8. PlacesOK'
    BY <1>1, <1>3, <2>1, Facts DEF PlacesOK
  <2> QED
    BY <2>5, <2>6, <2>7, <2>8 DEF IInv
<1> QED
  BY <1>5, <1>6

LEMMA CompactKeeps ==
  ASSUME IInv, Compact
  PROVE  IInv'
<1>1. pc = "compact" /\ j = 0 /\ i <= n /\ \A k \in 0 .. (i - 1) : slots[k] # Null
  BY DEF IInv, PlacesOK, Compact
<1>2. UNCHANGED <<timeoutrecv, heap, pd, j, forced>>
  BY DEF Compact
<1>3. CASE /\ i < n /\ slots[i] = Null
           /\ slots' = [k \in Indexes |-> IF k \in i .. (n - 2) THEN slots[k + 1] ELSE slots[k]]
           /\ n' = n - 1 /\ UNCHANGED <<pc, i>>
  <2>1. n' \in Nat /\ n' < n /\ n' <= MaxItems /\ i <= n'
    BY <1>1, <1>3, Facts
  <2>2. \A k \in 0 .. (n' - 1) : slots'[k] = IF k < i THEN slots[k] ELSE slots[k + 1]
    <3>1. \A k \in 0 .. (n' - 1) : k \in Indexes /\ (k \in i .. (n - 2) <=> ~(k < i))
      BY <1>3, <2>1, Facts DEF Indexes
    <3> QED
      BY <1>3, <3>1
  <2>3. slots' \in [Indexes -> Addresses \cup {Null}]
    <3>1. \A k \in Indexes : (IF k \in i .. (n - 2) THEN slots[k + 1] ELSE slots[k]) \in Addresses \cup {Null}
      <4>1. \A k \in i .. (n - 2) : k + 1 \in Indexes
        BY Facts DEF Indexes
      <4> QED
        BY <4>1, Facts
    <3> QED
      BY <1>3, <3>1
  <2>4. StepTypes'
    <3>1. n' \in 0 .. MaxItems
      BY <2>1, Facts
    <3> QED
      BY <1>2, <1>3, <2>3, <3>1 DEF IInv, StepTypes, TypeOK
  <2>5. HeapOK'
    <3>1. ASSUME NEW a \in Addresses, NEW k \in 0 .. (n - 1), slots[k] = a
          PROVE  \E m \in 0 .. (n' - 1) : slots'[m] = a
      <4>1. k # i
        BY <1>3, <3>1, Numbers
      <4>2. CASE k < i
        <5>1. k \in 0 .. (n' - 1)
          BY <1>1, <1>3, <2>1, <4>2, Facts
        <5> QED
          BY <2>2, <3>1, <4>2, <5>1
      <4>3. CASE k > i
        <5>1. k - 1 \in 0 .. (n' - 1) /\ ~(k - 1 < i) /\ (k - 1) + 1 = k
          BY <1>3, <4>3, Facts
        <5> QED
          BY <2>2, <3>1, <5>1
      <4> QED
        BY <4>1, <4>2, <4>3, Facts
    <3>2. \A k \in 0 .. (n' - 1) : \E m \in 0 .. (n - 1) : slots[m] = slots'[k]
      <4>1. \A k \in 0 .. (n' - 1) : k \in 0 .. (n - 1) /\ k + 1 \in 0 .. (n - 1)
        BY <1>3, <2>1, Facts
      <4> QED
        BY <2>2, <4>1
    <3> QED
      BY <1>1, <1>2, <1>3, <3>1, <3>2 DEF IInv, HeapOK
  <2>6. DistinctOK'
    <3> DEFINE o(k) == IF k < i THEN k ELSE k + 1
    <3>1. \A k \in 0 .. (n' - 1) : o(k) \in 0 .. (n - 1) /\ slots'[k] = slots[o(k)]
      BY <1>3, <2>1, <2>2, Facts
    <3>2. \A k, m \in 0 .. (n' - 1) : o(k) = o(m) => k = m
      BY <1>3, <2>1, Facts
    <3> HIDE DEF o
    <3> QED
      BY <1>1, <1>3, <3>1, <3>2 DEF IInv, DistinctOK
  <2>7. PlacesOK'
    <3>1. \A k \in 0 .. (i - 1) : slots'[k] # Null
      BY <1>1, <1>3, <2>1, <2>2, Facts
    <3> QED
      BY <1>1, <1>2, <1>3, <2>1, <3>1 DEF PlacesOK
  <2> QED
    BY <2>4, <2>5, <2>6, <2>7 DEF IInv
<1>4. CASE i < n /\ slots[i] # Null /\ i' = i + 1 /\ UNCHANGED <<pc, slots, n>>
  <2>1. i' \in 0 .. MaxItems /\ i' <= n
    BY <1>4, Facts
  <2>2. \A k \in 0 .. (i' - 1) : slots[k] # Null
    BY <1>1, <1>4, Facts
  <2>3. StepTypes'
    BY <1>2, <1>4, <2>1 DEF IInv, StepTypes, TypeOK
  <2> QED
    BY <1>1, <1>2, <1>4, <2>1, <2>2, <2>3 DEF IInv, HeapOK, DistinctOK, PlacesOK
<1>5. CASE i >= n /\ pc' = "sort" /\ UNCHANGED <<i, slots, n>>
  <2>1. \A k \in 0 .. (n - 1) : slots[k] # Null
    BY <1>1, <1>5, Facts
  <2>2. StepTypes'
    BY <1>2, <1>5 DEF IInv, StepTypes, TypeOK
  <2> QED
    BY <1>1, <1>2, <1>5, <2>1, <2>2 DEF IInv, HeapOK, DistinctOK, PlacesOK
<1> QED
  BY <1>3, <1>4, <1>5 DEF Compact

LEMMA SortKeeps ==
  ASSUME IInv, Sort
  PROVE  IInv'
<1>1. /\ pc = "sort" /\ pc' = "handle" /\ UNCHANGED <<timeoutrecv, n, heap, pd, i, j, forced>>
      /\ \A k \in 0 .. (n - 1) : slots[k] # Null
      /\ j = 0
  BY DEF Sort, IInv, PlacesOK
<1>2. PICK p \in Bijection(0 .. (n - 1), 0 .. (n - 1)) :
        slots' = [k \in Indexes |-> IF k < n THEN slots[p[k]] ELSE slots[k]]
  BY DEF Sort
<1>3. /\ \A k \in 0 .. (n - 1) : p[k] \in 0 .. (n - 1)
      /\ \A k, m \in 0 .. (n - 1) : p[k] = p[m] => k = m
      /\ \A m \in 0 .. (n - 1) : \E k \in 0 .. (n - 1) : p[k] = m
  BY DEF Bijection, Injection, Surjection, IsInjective
<1>4. \A k \in 0 .. (n - 1) : slots'[k] = slots[p[k]]
  BY <1>2, Facts
<1>5. slots' \in [Indexes -> Addresses \cup {Null}]
  <2>1. \A k \in Indexes : k < n => k \in 0 .. (n - 1)
    BY Facts DEF Indexes
  <2> QED
    BY <1>2, <1>3, <2>1, Facts
<1>6. StepTypes'
  BY <1>1, <1>5 DEF IInv, StepTypes, TypeOK
<1> DEFINE S == 0 .. (n - 1)
<1>. HIDE DEF S
<1>7. /\ \A k \in S : p[k] \in S /\ slots'[k] = slots[p[k]]
      /\ \A k, m \in S : p[k] = p[m] => k = m
      /\ \A m \in S : \E k \in S : p[k] = m
  BY <1>3, <1>4 DEF S
<1>8. HeapOK'
  <2>1. ASSUME NEW a \in Addresses
        PROVE  heap[a] # NotAllocated <=> \E k \in S : slots'[k] = a
    <3>1. heap[a] # NotAllocated <=> \E k \in S : slots[k] = a
      BY <1>1 DEF IInv, HeapOK, S
    <3> QED
      BY ONLY <1>7, <3>1
  <2> QED
    BY <1>1, <2>1 DEF HeapOK, S
<1>9. DistinctOK'
  <2>1. \A k, m \in S : slots[k] = slots[m] /\ slots[k] # Null => k = m
    BY DEF IInv, DistinctOK, S
  <2>2. \A k, m \in S : slots'[k] = slots'[m] /\ slots'[k] # Null => k = m
    BY ONLY <1>7, <2>1
  <2> QED
    BY <1>1, <2>2 DEF DistinctOK, S
<1>10. PlacesOK'
  <2>1. \A k \in 0 .. (n - 1) : slots'[k] # Null
    BY <1>1, <1>3, <1>4
  <2>2. j' <= n'
    BY <1>1, Facts
  <2> QED
    BY <1>1, <2>1, <2>2 DEF PlacesOK
<1> QED
  BY <1>6, <1>8, <1>9, <1>10 DEF IInv

LEMMA HandleKeeps ==
  ASSUME IInv, Handle
  PROVE  IInv'
<1>1. /\ pc = "handle" /\ j <= n /\ UNCHANGED <<timeoutrecv, slots, n, heap, pd, forced>>
      /\ \A k \in 0 .. (n - 1) : slots[k] # Null
  BY DEF Handle, IInv, PlacesOK, memory
<1>2. \/ j < n /\ j' = j + 1 /\ UNCHANGED <<pc, i>>
      \/ pc' = "shift" /\ i' = 0 /\ j' = j
  BY DEF Handle
<1>3. j' \in 0 .. MaxItems /\ j' <= n /\ i' \in 0 .. MaxItems
  BY <1>1, <1>2, Facts
<1>4. StepTypes'
  BY <1>1, <1>2, <1>3 DEF IInv, StepTypes, TypeOK
<1>5. PlacesOK'
  <2>1. CASE pc' = "handle"
    BY <1>1, <1>3, <2>1 DEF PlacesOK
  <2>2. CASE pc' = "shift" /\ i' = 0 /\ j' = j
    <3>1. \A k \in 0 .. (n - 1) :
            slots[k] # Null <=> (k < 0 /\ k < n - j) \/ (0 <= k /\ k < j) \/ 0 + j <= k
      BY <1>1, Facts
    <3>2. 0 <= n
      BY Facts
    <3> QED
      BY <1>1, <2>2, <3>1, <3>2 DEF PlacesOK
  <2> QED
    BY <1>1, <1>2, <2>1, <2>2
<1> QED
  BY <1>1, <1>2, <1>4, <1>5 DEF IInv, HeapOK, DistinctOK

\* A turn of the loop that shifts fills the place i from the place i + j.
LEMMA ShiftTurn ==
  ASSUME IInv, Shift, j > 0, i < n
  PROVE  /\ heap' = IF i < j THEN [heap EXCEPT ![slots[i]] = NotAllocated] ELSE heap
         /\ i' = i + 1 /\ UNCHANGED <<pc, n>>
         /\ i \in Indexes /\ i \in 0 .. (n - 1) /\ i + j # i
         /\ i + j < n => i + j \in Indexes /\ i + j \in 0 .. (n - 1)
         /\ \A k \in 0 .. (n - 1) :
              slots'[k] = CASE k = i /\ i + j < n    -> slots[i + j]
                            [] k = i /\ ~(i + j < n) -> Null
                            [] k # i /\ k = i + j    -> Null
                            [] k # i /\ k # i + j    -> slots[k]
         /\ slots[i] # Null <=> i < j
         /\ slots' \in [Indexes -> Addresses \cup {Null}]
<1>1. /\ pc = "shift" /\ n \in Nat /\ i \in Nat /\ j \in Nat
      /\ \A k \in 0 .. (n - 1) :
           slots[k] # Null <=> (k < i /\ k < n - j) \/ (i <= k /\ k < j) \/ i + j <= k
  BY Facts DEF Shift, IInv, PlacesOK
<1>2. /\ heap' = IF i < j THEN [heap EXCEPT ![slots[i]] = NotAllocated] ELSE heap
      /\ slots' = IF i + j < n
                  THEN [slots EXCEPT ![i] = slots[i + j], ![i + j] = Null]
                  ELSE [slots EXCEPT ![i] = Null]
      /\ i' = i + 1 /\ UNCHANGED <<pc, n>>
  BY <1>1 DEF Shift
<1>3. i \in Indexes /\ i \in 0 .. (n - 1) /\ i + j # i
  BY <1>1, Facts DEF Indexes
<1>4. /\ i + j < n => i + j \in Indexes /\ i + j \in 0 .. (n - 1)
      /\ \A k \in 0 .. (n - 1) :
           slots'[k] = CASE k = i /\ i + j < n    -> slots[i + j]
                         [] k = i /\ ~(i + j < n) -> Null
                         [] k # i /\ k = i + j    -> Null
                         [] k # i /\ k # i + j    -> slots[k]
  <2>1. CASE i + j < n
    <3>1. i + j \in Indexes /\ i + j \in 0 .. (n - 1)
      BY <2>1, Facts DEF Indexes
    <3>2. slots' = [slots EXCEPT ![i] = slots[i + j], ![i + j] = Null]
      BY <1>2, <2>1
    <3> QED
      BY <1>3, <2>1, <3>1, <3>2, Facts
  <2>2. CASE ~(i + j < n)
    <3>1. slots' = [slots EXCEPT ![i] = Null]
      BY <1>2, <2>2
    <3>2. \A k \in 0 .. (n - 1) : k # i + j
      BY <2>2, Facts
    <3> QED
      BY <1>3, <2>2, <3>1, <3>2, Facts
  <2> QED
    BY <2>1, <2>2
<1>5. slots[i] # Null <=> i < j
  BY <1>1, <1>3
<1>6. slots' \in [Indexes -> Addresses \cup {Null}]
  BY <1>2, <1>3, <1>4, Facts
<1> QED
  BY <1>2, <1>3, <1>4, <1>5, <1>6

LEMMA ShiftKeeps ==
  ASSUME IInv, Shift
  PROVE  IInv'
<1>1. /\ pc = "shift" /\ i <= n /\ j <= n /\ UNCHANGED <<timeoutrecv, pd, j, forced>>
      /\ \A k \in 0 .. (n - 1) :
           slots[k] # Null <=> (k < i /\ k < n - j) \/ (i <= k /\ k < j) \/ i + j <= k
  BY DEF Shift, IInv, PlacesOK
<1>2. CASE j = 0 \/ i >= n
  <2>1. n' = n - j /\ pc' = "idle" /\ UNCHANGED <<i, slots, heap>>
    BY <1>1, <1>2, Facts DEF Shift
  <2>2. n' \in 0 .. MaxItems /\ n' \in Nat /\ n' <= n
    BY <1>1, <2>1, Facts
  <2>3. \A k \in 0 .. (n - 1) : slots[k] # Null <=> k \in 0 .. (n' - 1)
    BY <1>1, <1>2, <2>1, Facts
  <2>4. \A k \in 0 .. (n' - 1) : k \in 0 .. (n - 1)
    <3>1. n \in Nat
      BY Facts
    <3> QED
      BY <2>2, <3>1, FirstPlaces
  <2>5. StepTypes'
    BY <1>1, <2>1, <2>2 DEF IInv, StepTypes, TypeOK
  <2>6. HeapOK'
    BY <1>1, <2>1, <2>3, <2>4, Numbers DEF IInv, HeapOK
  <2>7. DistinctOK'
    BY <2>1, <2>4 DEF IInv, DistinctOK
  <2>8. PlacesOK'
    BY <2>1, <2>3, <2>4 DEF PlacesOK
  <2> QED
    BY <2>5, <2>6, <2>7, <2>8 DEF IInv
<1>3. CASE j > 0 /\ i < n
  <2>1. i' \in 0 .. MaxItems /\ i' <= n
    <3>1. i' = i + 1
      BY <1>1, <1>3, ShiftTurn
    <3> QED
      BY <1>3, <3>1, Facts
  <2>2. /\ heap' = IF i < j THEN [heap EXCEPT ![slots[i]] = NotAllocated] ELSE heap
        /\ i' = i + 1 /\ UNCHANGED <<pc, n>>
        /\ i \in 0 .. (n - 1) /\ i + j # i
        /\ i' \in 0 .. MaxItems /\ i' <= n
    BY <1>1, <1>3, <2>1, ShiftTurn
  <2>3. /\ i + j < n => i + j \in 0 .. (n - 1)
        /\ \A k \in 0 .. (n - 1) :
             slots'[k] = CASE k = i /\ i + j < n    -> slots[i + j]
                           [] k = i /\ ~(i + j < n) -> Null
                           [] k # i /\ k = i + j    -> Null
                           [] k # i /\ k # i + j    -> slots[k]
    BY <1>1, <1>3, ShiftTurn
  <2>4. slots[i] # Null <=> i < j
    BY <1>1, <1>3, ShiftTurn
  <2>5. slots' \in [Indexes -> Addresses \cup {Null}]
    BY <1>1, <1>3, ShiftTurn
  <2>6. /\ heap' \in [Addresses -> SeqNos \cup {NotAllocated}]
        /\ \A a \in Addresses : heap'[a] # NotAllocated <=> heap[a] # NotAllocated /\ a # slots[i]
    <3>1. CASE i < j
      BY <2>2, <2>4, <3>1, Facts
    <3>2. CASE ~(i < j)
      BY <2>2, <2>4, <3>2, Facts, Numbers
    <3> QED
      BY <3>1, <3>2
  <2>7. StepTypes'
    BY <1>1, <2>2, <2>5, <2>6 DEF IInv, StepTypes, TypeOK
  <2>8. \A k, m \in 0 .. (n - 1) : slots[k] = slots[m] /\ slots[k] # Null => k = m
    BY DEF IInv, DistinctOK
  <2>9. HeapOK'
    <3>1. ASSUME NEW a \in Addresses
          PROVE  heap'[a] # NotAllocated <=> \E k \in 0 .. (n - 1) : slots'[k] = a
      <4>1. heap[a] # NotAllocated <=> \E k \in 0 .. (n - 1) : slots[k] = a
        BY <1>1 DEF IInv, HeapOK
      <4>2. a # Null
        BY Numbers
      <4>3. ASSUME NEW k \in 0 .. (n - 1), slots[k] = a, a # slots[i]
            PROVE  \E m \in 0 .. (n - 1) : slots'[m] = a
        <5>1. k # i
          BY <4>3
        <5>2. CASE k = i + j
          <6>1. i + j < n
            BY <5>2, Facts
          <6>2. slots'[i] = slots[i + j]
            BY <2>2, <2>3, <6>1
          <6> QED
            BY <2>2, <4>3, <5>2, <6>2
        <5>3. CASE k # i + j
          BY <2>3, <4>3, <5>1, <5>3
        <5> QED
          BY <5>2, <5>3
      <4>4. ASSUME NEW k \in 0 .. (n - 1), slots'[k] = a
            PROVE  a # slots[i] /\ \E m \in 0 .. (n - 1) : slots[m] = a
        <5>1. CASE k = i
          <6>1. i + j < n /\ slots[i + j] = a
            BY <2>3, <4>2, <4>4, <5>1
          <6> QED
            BY <2>2, <2>3, <2>8, <4>2, <6>1
        <5>2. CASE k # i
          <6>1. slots[k] = a
            BY <2>3, <4>2, <4>4, <5>2
          <6> QED
            BY <2>2, <2>8, <4>2, <5>2, <6>1
        <5> QED
          BY <5>1, <5>2
      <4> QED
        BY <2>6, <4>1, <4>3, <4>4
    <3> QED
      BY <1>1, <2>2, <3>1 DEF HeapOK
  <2>10. DistinctOK'
    <3>1. ASSUME NEW k \in 0 .. (n - 1), NEW m \in 0 .. (n - 1), slots'[k] = slots'[m], slots'[k] # Null
          PROVE  k = m
      <4>1. CASE k = i /\ m # i
        <5>1. i + j < n /\ slots'[k] = slots[i + j]
          BY <2>3, <3>1, <4>1
        <5>2. m # i + j /\ slots'[m] = slots[m]
          BY <2>3, <3>1, <4>1
        <5> QED
          BY <2>3, <2>8, <3>1, <5>1, <5>2
      <4>2. CASE m = i /\ k # i
        <5>1. i + j < n /\ slots'[m] = slots[i + j]
          BY <2>3, <3>1, <4>2
        <5>2. k # i + j /\ slots'[k] = slots[k]
          BY <2>3, <3>1, <4>2
        <5> QED
          BY <2>3, <2>8, <3>1, <5>1, <5>2
      <4>3. CASE k # i /\ m # i
        <5>1. slots'[k] = slots[k] /\ slots'[m] = slots[m]
          BY <2>3, <3>1, <4>3
        <5> QED
          BY <2>8, <3>1, <5>1
      <4> QED
        BY <4>1, <4>2, <4>3
    <3> QED
      BY <1>1, <2>2, <3>1 DEF DistinctOK
  <2>11. PlacesOK'
    <3>1. ASSUME NEW k \in 0 .. (n - 1)
          PROVE  slots'[k] # Null <=> (k < i' /\ k < n - j) \/ (i' <= k /\ k < j) \/ i' + j <= k
      <4>1. CASE k = i
        <5>1. slots'[k] # Null <=> i + j < n
          <6>1. i + j < n => slots[i + j] # Null
            BY <1>1, <2>3, Facts
          <6> QED
            BY <2>3, <4>1, <6>1
        <5> QED
          BY <1>3, <2>2, <4>1, <5>1, Facts
      <4>2. CASE k # i /\ k = i + j
        <5>1. slots'[k] = Null
          BY <2>3, <4>2
        <5> QED
          BY <1>3, <2>2, <4>2, <5>1, Facts
      <4>3. CASE k # i /\ k # i + j
        <5>1. slots'[k] = slots[k]
          BY <2>3, <4>3
        <5>2. slots[k] # Null <=> (k < i /\ k < n - j) \/ (i <= k /\ k < j) \/ i + j <= k
          BY <1>1
        <5> QED
          BY <1>3, <2>2, <4>3, <5>1, <5>2, Facts
      <4> QED
        BY <4>1, <4>2, <4>3
    <3> QED
      BY <1>1, <2>2, <3>1 DEF PlacesOK
  <2> QED
    BY <2>7, <2>9, <2>10, <2>11 DEF IInv
<1> QED
  BY <1>1, <1>2, <1>3, Facts

LEMMA FreeKeeps ==
  ASSUME IInv, FreeStream
  PROVE  IInv'
<1>1. /\ pc = "idle" /\ n' = 0 /\ slots' = [k \in Indexes |-> Null]
      /\ heap' = [a \in Addresses |-> IF \E k \in 0 .. (n - 1) : slots[k] = a THEN NotAllocated ELSE heap[a]]
      /\ UNCHANGED <<timeoutrecv, pc, pd, i, j, forced>>
  BY DEF FreeStream, call
<1>2. \A a \in Addresses : heap'[a] = NotAllocated
  BY <1>1 DEF IInv, HeapOK
<1>3. slots' \in [Indexes -> Addresses \cup {Null}] /\ heap' \in [Addresses -> SeqNos \cup {NotAllocated}]
  <2>1. \A a \in Addresses : heap[a] \in SeqNos \cup {NotAllocated}
    BY Facts
  <2> QED
    BY <1>1, <2>1
<1>4. n' \in 0 .. MaxItems
  BY <1>1, Numbers
<1>5. StepTypes'
  BY <1>1, <1>3, <1>4 DEF IInv, StepTypes, TypeOK
<1> QED
  BY <1>1, <1>2, <1>5 DEF IInv, HeapOK, DistinctOK, PlacesOK

-----------------------------------------------------------------------------
(* The theorems                                                            *)

LEMMA NextIInv == IInv /\ [Next]_vars => IInv'
<1> SUFFICES ASSUME IInv, [Next]_vars PROVE IInv'
  OBVIOUS
<1>1. ASSUME NEW s \in SeqNos, CallWithPacket(s) PROVE IInv'
  BY <1>1, CallKeeps DEF CallWithPacket
<1>2. CASE CallTimeout \/ CallFlush
  BY <1>2, CallKeeps DEF CallTimeout, CallFlush, CallWithNull, memory
<1>3. CASE ForceOrAdd
  BY <1>3, ForceFirstKeeps, AddLastKeeps DEF ForceOrAdd
<1>4. CASE Compact \/ Sort \/ Handle \/ Shift \/ FreeStream
  BY <1>4, CompactKeeps, SortKeeps, HandleKeeps, ShiftKeeps, FreeKeeps
<1>5. CASE InitStream \/ UNCHANGED vars
  <2>1. UNCHANGED <<timeoutrecv, slots, n, heap, pc, pd, i, j, forced>>
    BY <1>5 DEF InitStream, vars, memory, call
  <2> QED
    BY <2>1 DEF IInv, StepTypes, TypeOK, HeapOK, DistinctOK, PlacesOK
<1> QED
  BY <1>1, <1>2, <1>3, <1>4, <1>5 DEF Next

\* Every packet on the heap is at one place of the array, and the loops that remove
\* pointers, free and shift know which places are taken.
THEOREM InductiveInvariant == Spec => []IInv
  BY InitIInv, NextIInv, PTL DEF Spec

\* The loops stay within the array, and a call with a packet always finds the room
\* on the heap that the model gives it.
THEOREM TypeCorrect == Spec => []TypeOK
<1>1. IInv => TypeOK
  BY DEF IInv, StepTypes
<1> QED
  BY <1>1, InductiveInvariant, PTL

\* Between two calls the heap holds the packets of the buffer and no others: none is
\* leaked, freed too early or held twice, for an array of any size.
THEOREM HeapHoldsBuffer == Spec => []HeapIsBuffer
<1>1. IInv => HeapIsBuffer
  <2> SUFFICES ASSUME IInv, pc = "idle"
               PROVE  /\ {slots[k] : k \in 0 .. (n - 1)} = Allocated
                      /\ Cardinality(Allocated) = n
    BY DEF HeapIsBuffer
  <2> DEFINE f == [k \in 0 .. (n - 1) |-> slots[k]]
  <2>1. \A k \in 0 .. (n - 1) : slots[k] \in Addresses
    BY Facts DEF IInv, PlacesOK
  <2>2. {slots[k] : k \in 0 .. (n - 1)} = Allocated
    BY <2>1 DEF IInv, HeapOK, Allocated
  <2>3. f \in Bijection(0 .. (n - 1), Allocated)
    <3>1. f \in [0 .. (n - 1) -> Allocated]
      BY <2>2
    <3>2. \A k, m \in 0 .. (n - 1) : f[k] = f[m] => k = m
      BY <2>1, Numbers DEF IInv, DistinctOK
    <3>3. \A a \in Allocated : \E k \in 0 .. (n - 1) : f[k] = a
      BY <2>2
    <3> HIDE DEF f
    <3> QED
      BY <3>1, <3>2, <3>3 DEF Bijection, Injection, Surjection, IsInjective
  <2>4. IsFiniteSet(0 .. (n - 1)) /\ Cardinality(0 .. (n - 1)) = n
    <3>1. n \in Nat /\ 0 \in Int /\ n - 1 \in Int
      BY Facts
    <3>2. /\ IsFiniteSet(0 .. (n - 1))
          /\ Cardinality(0 .. (n - 1)) = IF 0 > n - 1 THEN 0 ELSE (n - 1) - 0 + 1
      BY <3>1, FS_Interval
    <3> QED
      BY <3>1, <3>2
  <2> HIDE DEF f
  <2>5. ExistsBijection(0 .. (n - 1), Allocated)
    BY <2>3 DEF ExistsBijection
  <2>6. Cardinality(Allocated) = n
    BY <2>4, <2>5, FS_Bijection
  <2> QED
    BY <2>2, <2>6
<1> QED
  BY <1>1, InductiveInvariant, PTL

\* Sorting and handling follow no pointer that is NULL or freed.
THEOREM PointersAreLive == Spec => []NoDanglingPointer
<1>1. IInv => NoDanglingPointer
  BY Facts DEF IInv, HeapOK, PlacesOK, NoDanglingPointer, Allocated
<1> QED
  BY <1>1, InductiveInvariant, PTL

-----------------------------------------------------------------------------
(* The calls are those of RawStream                                        *)

LEMMA IsBijection ==
  ASSUME NEW S, NEW T, NEW g \in [S -> T],
         \A x, y \in S : g[x] = g[y] => x = y, \A t \in T : \E x \in S : g[x] = t
  PROVE  g \in Bijection(S, T)
  BY DEF Bijection, Injection, Surjection, IsInjective

LEMMA BijectionIs ==
  ASSUME NEW S, NEW T, NEW g \in Bijection(S, T)
  PROVE  /\ g \in [S -> T] /\ \A x \in S : g[x] \in T
         /\ \A x, y \in S : g[x] = g[y] => x = y
         /\ \A t \in T : \E x \in S : g[x] = t
  BY DEF Bijection, Injection, Surjection, IsInjective

\* While a call runs RawStream still shows the state before it.
LEMMA SameCall ==
  ASSUME pc # "idle", pc' # "idle", UNCHANGED before, NEW arg, NEW late, NEW q, NEW m, NEW h
  PROVE  /\ Visible = before /\ Visible' = before
         /\ Atomic!FirstTime(arg)' = Atomic!FirstTime(arg)
         /\ Atomic!Started(arg)' = Atomic!Started(arg)
         /\ Atomic!MustForce(late)' = Atomic!MustForce(late)
         /\ Atomic!ForceHandles(arg, late)' = Atomic!ForceHandles(arg, late)
         /\ Atomic!AfterForce(arg, late)' = Atomic!AfterForce(arg, late)
         /\ Atomic!Held(arg, late)' = Atomic!Held(arg, late)
         /\ Atomic!AfterTimeout(arg, late, q)' = Atomic!AfterTimeout(arg, late, q)
         /\ Atomic!Reasons(arg, late, q)' = Atomic!Reasons(arg, late, q)
         /\ Atomic!TimeAfter(arg, h, m)' = Atomic!TimeAfter(arg, h, m)
         /\ Forced(arg, late)' = Forced(arg, late)
<1>1. Visible = before /\ Visible' = before
  BY DEF Visible
<1>2. /\ Atomic!FirstTime(arg)' = Atomic!FirstTime(arg)
      /\ Atomic!MustForce(late)' = Atomic!MustForce(late)
  BY <1>1 DEF Atomic!FirstTime, Atomic!MustForce
<1>3. Atomic!Started(arg)' = Atomic!Started(arg)
  BY <1>1, <1>2 DEF Atomic!Started
<1>4. Atomic!ForceHandles(arg, late)' = Atomic!ForceHandles(arg, late)
  BY <1>1, <1>2, <1>3 DEF Atomic!ForceHandles
<1>5. Atomic!AfterForce(arg, late)' = Atomic!AfterForce(arg, late)
  BY <1>1, <1>3, <1>4 DEF Atomic!AfterForce
<1>6. Atomic!Held(arg, late)' = Atomic!Held(arg, late)
  BY <1>1, <1>2 DEF Atomic!Held
<1>7. /\ Atomic!AfterTimeout(arg, late, q)' = Atomic!AfterTimeout(arg, late, q)
      /\ Atomic!Reasons(arg, late, q)' = Atomic!Reasons(arg, late, q)
  BY <1>2, <1>5 DEF Atomic!AfterTimeout, Atomic!Reasons
<1>8. Atomic!TimeAfter(arg, h, m)' = Atomic!TimeAfter(arg, h, m)
  BY <1>1, <1>2 DEF Atomic!TimeAfter
<1>9. Forced(arg, late)' = Forced(arg, late)
  BY <1>4 DEF Forced
<1> QED
  BY <1>1, <1>2, <1>3, <1>4, <1>5, <1>6, <1>7, <1>8, <1>9

\* What is sorted is what the buffer held, without a forced packet, and the new one.
LEMMA HeldIs ==
  ASSUME IInv, pc # "idle", before.pdlist \in Seq(SeqNos), before.timeoutrecv = timeoutrecv,
         NEW arg \in SeqNos \cup {NoPacket}, NEW late \in BOOLEAN
  PROVE  LET h == Atomic!Held(arg, late)
             b == before.pdlist
             cut == IF Atomic!MustForce(late) THEN 1 ELSE 0
         IN  /\ Len(b) \in Nat /\ h \in Seq(SeqNos)
             /\ Len(h) = Len(b) - cut + (IF arg = NoPacket THEN 0 ELSE 1)
             /\ \A k \in 1 .. (Len(b) - cut) : h[k] = b[k + cut]
             /\ arg # NoPacket => h[Len(h)] = arg
             /\ Atomic!MustForce(late) <=>
                  Len(b) >= MaxItems \/ (timeoutrecv = 0 /\ late /\ Len(b) > 0)
             /\ Atomic!MustForce(late) => Len(b) > 0
<1> DEFINE b == before.pdlist
           a == IF Atomic!MustForce(late) THEN Tail(b) ELSE b
           c == IF arg = NoPacket THEN <<>> ELSE <<arg>>
           cut == IF Atomic!MustForce(late) THEN 1 ELSE 0
<1>1. Visible = before
  BY DEF Visible
<1>2. b \in Seq(SeqNos) /\ Len(b) \in Nat /\ (b = <<>> <=> Len(b) = 0)
  OBVIOUS
<1>3. Atomic!MustForce(late) <=> Len(b) >= MaxItems \/ (timeoutrecv = 0 /\ late /\ Len(b) > 0)
  BY <1>1, <1>2 DEF Atomic!MustForce
<1>4. Atomic!MustForce(late) => Len(b) > 0
  BY <1>2, <1>3, Numbers
<1>5. a \in Seq(SeqNos) /\ Len(a) = Len(b) - cut /\ \A k \in 1 .. Len(a) : a[k] = b[k + cut]
  <2>1. CASE Atomic!MustForce(late)
    BY <1>2, <1>4, <2>1
  <2>2. CASE ~Atomic!MustForce(late)
    BY <1>2, <2>2
  <2> QED
    BY <2>1, <2>2
<1>6. c \in Seq(SeqNos) /\ Len(c) = (IF arg = NoPacket THEN 0 ELSE 1) /\ (arg # NoPacket => c[1] = arg)
  <2>1. CASE arg = NoPacket
    BY <2>1
  <2>2. CASE arg # NoPacket
    BY <2>2
  <2> QED
    BY <2>1, <2>2
<1>7. Atomic!Held(arg, late) = a \o c
  BY <1>1 DEF Atomic!Held, Atomic!NoPacket, NoPacket
<1> HIDE DEF a, c
<1>8. /\ a \o c \in Seq(SeqNos) /\ Len(a \o c) = Len(a) + Len(c)
      /\ \A k \in 1 .. Len(a) : (a \o c)[k] = a[k]
      /\ arg # NoPacket => (a \o c)[Len(a) + 1] = c[1]
  <2>1. /\ Len(a) \in Nat /\ Len(c) \in Nat /\ a \o c \in Seq(SeqNos) /\ Len(a \o c) = Len(a) + Len(c)
        /\ \A k \in 1 .. Len(a) + Len(c) : (a \o c)[k] = IF k <= Len(a) THEN a[k] ELSE c[k - Len(a)]
    <3>1. a \in Seq(SeqNos) /\ c \in Seq(SeqNos)
      BY <1>5, <1>6
    <3> QED
      BY ONLY <3>1, ConcatProperties
  <2>2. \A k \in 1 .. Len(a) : (a \o c)[k] = a[k]
    BY ONLY <2>1
  <2>3. arg # NoPacket => (a \o c)[Len(a) + 1] = c[1]
    <3>1. Len(c) = 1 => Len(a) + 1 \in 1 .. Len(a) + Len(c) /\ ~(Len(a) + 1 <= Len(a)) /\ (Len(a) + 1) - Len(a) = 1
      BY ONLY <2>1
    <3> QED
      BY <1>6, <2>1, <3>1
  <2> QED
    BY <2>1, <2>2, <2>3
<1> QED
  BY <1>2, <1>3, <1>4, <1>5, <1>6, <1>7, <1>8

LEMMA LivePackets ==
  ASSUME IInv
  PROVE  \A k \in 0 .. (n - 1) : slots[k] # Null => slots[k] \in Addresses /\ heap[slots[k]] \in SeqNos
<1> SUFFICES ASSUME NEW k \in 0 .. (n - 1), slots[k] # Null
             PROVE  slots[k] \in Addresses /\ heap[slots[k]] \in SeqNos
  OBVIOUS
<1>1. slots[k] \in Addresses
  BY Facts
<1>2. heap[slots[k]] # NotAllocated
  BY <1>1 DEF IInv, HeapOK
<1> QED
  BY <1>1, <1>2, Facts

LEMMA BufferedIs ==
  ASSUME IInv, \A k \in 0 .. (n - 1) : slots[k] # Null
  PROVE  /\ Buffered \in Seq(SeqNos) /\ Len(Buffered) = n
         /\ \A k \in 0 .. (n - 1) : heap[slots[k]] = Buffered[k + 1]
         /\ n = 0 => Buffered = <<>>
<1>1. n \in Nat
  BY Facts
<1>2. \A x \in 1 .. n : heap[slots[x - 1]] \in SeqNos
  <2>1. \A x \in 1 .. n : x - 1 \in 0 .. (n - 1)
    BY <1>1
  <2> QED
    BY <2>1, LivePackets
<1>3. Buffered \in Seq(SeqNos) /\ Len(Buffered) = n
  BY <1>1, <1>2 DEF Buffered
<1>4. \A k \in 0 .. (n - 1) : k + 1 \in 1 .. n /\ (k + 1) - 1 = k
  BY <1>1
<1>5. \A k \in 0 .. (n - 1) : heap[slots[k]] = Buffered[k + 1]
  BY <1>4 DEF Buffered
<1> QED
  BY <1>3, <1>5

\* A call copies its packet, and RawStream has not moved yet.
LEMMA CallRefines ==
  ASSUME IInv, IInv', RefinementInv, Enter, UNCHANGED <<slots, n, delivered, gaveUp>>,
         NEW arg \in SeqNos \cup {NoPacket},
         IF arg = NoPacket
           THEN /\ pd' = Null /\ UNCHANGED <<last, lastTime, received, heap>>
                /\ \/ phase = "receiving" /\ phase' = "receiving" /\ timeoutrecv > 0 /\ \E s \in SeqNos : received[s] > 0
                   \/ phase = "receiving" /\ phase' = "flushed"
           ELSE CallWithPacket(arg)
  PROVE  RefinementInv' /\ UNCHANGED Visible
<1>1. /\ pc = "idle" /\ pc' = "force" /\ before' = Abstract /\ timeoutrecv' = timeoutrecv
      /\ timeoutrecv \in Nat
  BY Facts DEF Enter
<1>2. Visible = Abstract /\ Visible' = Abstract
  BY <1>1 DEF Visible
<1>3. /\ last \in Nat \cup {-1} /\ delivered \in Seq(SeqNos) /\ (last = -1 => n = 0)
  BY <1>1 DEF RefinementInv, StreamOK
<1>4. \A k \in 0 .. (n - 1) : slots[k] # Null
  BY <1>1 DEF IInv, PlacesOK
<1>5. phase = "receiving" /\ phase' \in {"receiving", "flushed"}
  BY DEF CallWithPacket
<1>6. Buffered' = Buffered
  <2>1. CASE arg = NoPacket
    BY <2>1 DEF Buffered
  <2>2. CASE arg # NoPacket
    <3>1. heap' = [heap EXCEPT ![pd'] = arg] /\ pd' = Malloc
      BY <2>2 DEF CallWithPacket
    <3>2. heap[pd'] = NotAllocated
      BY <1>1, <3>1, RoomOnHeap DEF IInv, FreeAddresses
    <3>3. \A k \in 0 .. (n - 1) : heap'[slots[k]] = heap[slots[k]]
      <4>1. \A k \in 0 .. (n - 1) : slots[k] \in Addresses /\ slots[k] # pd'
        BY <1>4, <3>2, LivePackets, Numbers DEF NotAllocated
      <4> QED
        BY <3>1, <4>1, Facts
    <3>4. \A x \in 1 .. n : x - 1 \in 0 .. (n - 1)
      BY Facts
    <3> QED
      BY <3>3, <3>4 DEF Buffered
  <2> QED
    BY <2>1, <2>2
<1>7. pd' = Null <=> arg = NoPacket
  <2>1. ASSUME arg # NoPacket PROVE pd' # Null
    BY <1>1, <2>1, RoomOnHeap, Numbers DEF CallWithPacket, IInv, FreeAddresses
  <2> QED
    BY <2>1
<1>8. StreamOK'
  <2>1. last' \in Nat \cup {-1}
    <3>1. CASE arg = NoPacket
      BY <1>3, <3>1
    <3>2. CASE arg # NoPacket
      <4>1. arg \in Nat /\ last' \in {last, 0, arg - 1}
        BY <3>2, Numbers DEF CallWithPacket
      <4> QED
        BY <1>3, <4>1
    <3> QED
      BY <3>1, <3>2
  <2> QED
    BY <1>1, <1>3, <1>5, <2>1 DEF StreamOK
<1>9. Called(arg)'
  <2>1. /\ before'.timeoutrecv = timeoutrecv /\ before'.phase = phase /\ before'.last = last
        /\ before'.delivered = delivered /\ before'.pdlist = Buffered /\ before'.received = received
    BY <1>1 DEF Abstract
  <2>2. Buffered \in Seq(SeqNos) /\ (last = -1 => Buffered = <<>>)
    BY <1>3, <1>4, BufferedIs
  <2>3. CASE arg = NoPacket
    BY <1>1, <1>3, <1>5, <1>7, <2>1, <2>2, <2>3 DEF Called
  <2>4. CASE arg # NoPacket
    <3>1. /\ arg \in SeqNos /\ phase' = "receiving" /\ received[arg] < MaxCopies
          /\ received' = [received EXCEPT ![arg] = @ + 1]
      BY <1>5, <2>4 DEF CallWithPacket
    <3> QED
      BY <1>1, <1>3, <1>5, <1>7, <2>1, <2>2, <3>1 DEF Called
  <2> QED
    BY <2>3, <2>4
<1>10. AtForce(arg)'
  <2>1. /\ before'.pdlist = Buffered' /\ delivered' = before'.delivered /\ gaveUp' = before'.gaveUp
        /\ before'.lastTime = lastTime /\ forced' = FALSE
    BY <1>1, <1>6 DEF Abstract, Enter
  <2>2. pd' # Null => heap'[pd'] = arg
    <3>1. CASE pd' = Null
      BY <3>1
    <3>2. CASE pd' # Null
      <4>1. heap' = [heap EXCEPT ![pd'] = arg] /\ pd' = Malloc /\ Malloc \in Addresses
        BY <1>1, <1>7, <3>2, RoomOnHeap DEF CallWithPacket, IInv, FreeAddresses
      <4> QED
        BY <4>1, Facts
    <3> QED
      BY <3>1, <3>2
  <2>3. Atomic!FirstTime(arg)' <=> last = -1 /\ arg # NoPacket
    BY <1>2 DEF Atomic!FirstTime, Abstract, NoPacket, Atomic!NoPacket
  <2>4. /\ ~Atomic!FirstTime(arg)' => Atomic!Started(arg)' = last
        /\ Atomic!FirstTime(arg)' /\ timeoutrecv = 0 => Atomic!Started(arg)' = arg - 1
        /\ Atomic!FirstTime(arg)' /\ timeoutrecv > 0 => Atomic!Started(arg)' = 0
    <3>1. Visible'.timeoutrecv = timeoutrecv /\ Visible'.last = last
      BY <1>2 DEF Abstract
    <3> QED
      BY <1>1, <3>1 DEF Atomic!Started
  <2>5. /\ last' = Atomic!Started(arg)'
        /\ lastTime' = IF ~Atomic!FirstTime(arg)' THEN before'.lastTime
                       ELSE IF timeoutrecv' = 0 THEN StartTime(arg) ELSE 0
    <3>1. CASE arg = NoPacket
      BY <2>1, <2>3, <2>4, <3>1
    <3>2. CASE arg # NoPacket /\ last # -1
      <4>1. UNCHANGED <<last, lastTime>>
        BY <3>2 DEF CallWithPacket
      <4> QED
        BY <2>1, <2>3, <2>4, <3>2, <4>1
    <3>3. CASE arg # NoPacket /\ last = -1 /\ timeoutrecv = 0
      <4>1. last' = arg - 1 /\ lastTime' = StartTime(arg)
        BY <3>3 DEF CallWithPacket
      <4> QED
        BY <1>1, <2>3, <2>4, <3>3, <4>1
    <3>4. CASE arg # NoPacket /\ last = -1 /\ timeoutrecv > 0
      <4>1. last' = 0 /\ lastTime' = 0
        BY <3>4 DEF CallWithPacket
      <4> QED
        BY <1>1, <2>3, <2>4, <3>4, <4>1
    <3> QED
      BY <1>1, <3>1, <3>2, <3>3, <3>4
  <2> QED
    BY <2>1, <2>2, <2>5 DEF AtForce
<1> QED
  BY <1>1, <1>2, <1>8, <1>9, <1>10 DEF RefinementInv, CallOK

\* The steps of a call change neither what it was called with nor the state before it.
LEMMA CallStays ==
  ASSUME UNCHANGED <<before, timeoutrecv, phase, received, pd>>, NEW arg, Called(arg)
  PROVE  Called(arg)'
  BY DEF Called

LEMMA MustForceIs ==
  ASSUME IInv, NEW late \in BOOLEAN
  PROVE  MustForce(late) <=> n >= MaxItems \/ (timeoutrecv = 0 /\ late /\ n > 0)
<1>1. n \in Nat /\ MaxItems \in Nat /\ timeoutrecv \in Nat
  BY Facts
<1> QED
  BY <1>1 DEF MustForce

LEMMA ForceFirstRefines ==
  ASSUME IInv, IInv', RefinementInv, NEW late \in BOOLEAN, MustForce(late), ForceFirst,
         NEW arg \in SeqNos \cup {NoPacket}, Called(arg), AtForce(arg)
  PROVE  StreamOK' /\ AtSort(arg, late)'
<1>1. /\ pc = "force" /\ pc' = "compact" /\ forced' = TRUE
      /\ heap' = [heap EXCEPT ![slots[0]] = NotAllocated] /\ slots' = [slots EXCEPT ![0] = pd]
      /\ gaveUp' = gaveUp \cup {"force"}
      /\ UNCHANGED <<timeoutrecv, phase, received, n, pd, i, j, before>>
  BY DEF ForceFirst
<1>2. n > 0 /\ n \in Nat /\ 0 \in 0 .. (n - 1) /\ 0 \in Indexes
  BY Facts DEF MustForce, Indexes
<1>3. \A k \in 0 .. (n - 1) : slots[k] # Null /\ slots[k] \in Addresses
  BY <1>1, LivePackets DEF IInv, PlacesOK
<1> DEFINE b == before.pdlist
           h == Atomic!Held(arg, late)
<1>4. /\ b \in Seq(SeqNos) /\ Len(b) = n /\ \A k \in 0 .. (n - 1) : heap[slots[k]] = b[k + 1]
      /\ before.timeoutrecv = timeoutrecv /\ before.delivered \in Seq(SeqNos)
  BY <1>3, BufferedIs DEF AtForce, Called
<1>5. /\ Len(h) = n - 1 + (IF arg = NoPacket THEN 0 ELSE 1)
      /\ \A k \in 1 .. (n - 1) : h[k] = b[k + 1]
      /\ arg # NoPacket => h[Len(h)] = arg
      /\ Atomic!MustForce(late)
  BY <1>1, <1>4, HeldIs, MustForceIs
<1>6. SeqNo(0) = Head(b) /\ SeqNo(0) = b[1] /\ b[1] \in SeqNos /\ b[1] \in Nat /\ b # <<>>
  <2>1. SeqNo(0) = b[1]
    BY <1>2, <1>4 DEF SeqNo
  <2>2. 1 \in 1 .. Len(b) /\ b # <<>>
    BY <1>2, <1>4
  <2> QED
    BY <1>4, <2>1, <2>2, Numbers
<1>7. Visible = before
  BY <1>1 DEF Visible
<1>8. last = Atomic!Started(arg) /\ delivered = before.delivered /\ gaveUp = before.gaveUp
  BY DEF AtForce
<1>9. Atomic!ForceHandles(arg, late) <=> SeqNo(0) - last > 0
  BY <1>5, <1>6, <1>7, <1>8 DEF Atomic!ForceHandles
<1> HIDE DEF h
<1>10. /\ last' = Atomic!AfterForce(arg, late)
       /\ delivered' = before.delivered \o Forced(arg, late)
       /\ Atomic!ForceHandles(arg, late) => lastTime' = EndTime(last')
       /\ ~Atomic!ForceHandles(arg, late) => lastTime' = lastTime
       /\ last' \in {last, SeqNo(0)}
       /\ delivered' \in Seq(SeqNos)
  <2>1. CASE SeqNo(0) - last > 0
    <3>1. /\ delivered' = Append(delivered, SeqNo(0)) /\ last' = SeqNo(0) /\ lastTime' = EndTime(SeqNo(0))
      BY <2>1 DEF ForceFirst, HandlePacket
    <3>2. Append(before.delivered, b[1]) = before.delivered \o <<b[1]>> /\ Append(before.delivered, b[1]) \in Seq(SeqNos)
      <4>1. before.delivered \in Seq(SeqNos) /\ b[1] \in SeqNos
        BY <1>4, <1>6
      <4> QED
        BY ONLY <4>1, AppendIsConcat, AppendProperties
    <3>3. Forced(arg, late) = <<b[1]>> /\ Atomic!AfterForce(arg, late) = b[1] /\ Atomic!ForceHandles(arg, late)
      BY <1>6, <1>7, <1>9, <2>1 DEF Forced, Atomic!AfterForce
    <3> QED
      BY <1>6, <1>8, <3>1, <3>2, <3>3
  <2>2. CASE ~(SeqNo(0) - last > 0)
    <3>1. UNCHANGED <<last, lastTime, delivered>>
      BY <2>2 DEF ForceFirst
    <3>2. before.delivered \o <<>> = before.delivered
      BY <1>4
    <3>3. Forced(arg, late) = <<>> /\ Atomic!AfterForce(arg, late) = last /\ ~Atomic!ForceHandles(arg, late)
      BY <1>8, <1>9, <2>2 DEF Forced, Atomic!AfterForce
    <3> QED
      BY <1>4, <1>8, <3>1, <3>2, <3>3
  <2> QED
    BY <2>1, <2>2
<1>11. ~Atomic!FirstTime(arg)
  <2>1. before.last = -1 => b = <<>>
    BY DEF Called
  <2> QED
    BY <1>6, <1>7, <2>1 DEF Atomic!FirstTime
<1>12. ~Atomic!ForceHandles(arg, late) => lastTime' = before.lastTime
  BY <1>10, <1>11 DEF AtForce
<1>13. \E f \in Bijection(Live', 1 .. Len(h)) : \A k \in Live' : heap'[slots'[k]] = h[f[k]]
  <2>1. \A k \in 0 .. (n - 1) : slots'[k] = IF k = 0 THEN pd ELSE slots[k]
    BY <1>1, Facts
  <2>2. \A k \in 1 .. (n - 1) : heap'[slots'[k]] = h[k]
    <3>1. ASSUME NEW k \in 1 .. (n - 1)
          PROVE  heap'[slots'[k]] = h[k]
      <4>1. k \in 0 .. (n - 1) /\ k # 0
        BY <1>2
      <4>2. slots[k] # slots[0] /\ slots'[k] = slots[k] /\ slots[k] \in Addresses
        BY <1>2, <1>3, <2>1, <4>1 DEF IInv, DistinctOK
      <4>3. heap'[slots[k]] = heap[slots[k]]
        BY <1>1, <4>2, Facts
      <4> QED
        BY <1>4, <1>5, <4>1, <4>2, <4>3
    <3> QED
      BY <3>1
  <2>3. CASE pd = Null
    <3>1. arg = NoPacket
      BY <2>3 DEF Called
    <3>2. Len(h) = n - 1
      BY <1>2, <1>5, <3>1
    <3>3. Live' = 1 .. (n - 1)
      <4>1. \A k \in 0 .. (n - 1) : slots'[k] # Null <=> k # 0
        BY <1>3, <2>1, <2>3
      <4>2. Live' = {k \in 0 .. (n - 1) : k # 0}
        BY <1>1, <4>1 DEF Live
      <4> QED
        BY <1>2, <4>2
    <3> DEFINE f == [k \in 1 .. (n - 1) |-> k]
    <3>4. f \in Bijection(1 .. (n - 1), 1 .. (n - 1))
      <4>1. f \in [1 .. (n - 1) -> 1 .. (n - 1)] /\ \A k \in 1 .. (n - 1) : f[k] = k
        OBVIOUS
      <4> HIDE DEF f
      <4> QED
        BY <4>1, IsBijection
    <3>5. \A k \in 1 .. (n - 1) : heap'[slots'[k]] = h[f[k]]
      BY <2>2
    <3> QED
      BY <3>2, <3>3, <3>4, <3>5
  <2>4. CASE pd # Null
    <3>1. arg # NoPacket /\ heap[pd] = arg /\ pd \in Addresses
      BY <2>4, Facts DEF Called, AtForce
    <3>2. Len(h) = n /\ h[n] = arg
      BY <1>2, <1>5, <3>1
    <3>3. heap'[slots'[0]] = arg
      <4>1. pd # slots[0]
        BY <1>1, <1>2, <2>4 DEF IInv, DistinctOK
      <4>2. slots'[0] = pd
        BY <1>2, <2>1
      <4> QED
        BY <1>1, <3>1, <4>1, <4>2, Facts
    <3>4. Live' = 0 .. (n - 1)
      <4>1. \A k \in 0 .. (n - 1) : slots'[k] # Null
        BY <1>3, <2>1, <2>4
      <4> QED
        BY <1>1, <4>1 DEF Live
    <3> DEFINE f == [k \in 0 .. (n - 1) |-> IF k = 0 THEN n ELSE k]
    <3>5. f \in Bijection(0 .. (n - 1), 1 .. n)
      <4>1. f \in [0 .. (n - 1) -> 1 .. n]
        BY <1>2
      <4>2. \A x, y \in 0 .. (n - 1) : f[x] = f[y] => x = y
        BY <1>2
      <4>3. \A t \in 1 .. n : \E x \in 0 .. (n - 1) : f[x] = t
        <5>1. ASSUME NEW t \in 1 .. n
              PROVE  \E x \in 0 .. (n - 1) : f[x] = t
          <6>1. CASE t = n
            BY <1>2, <6>1
          <6>2. CASE t # n
            <7>1. t \in 0 .. (n - 1) /\ t # 0
              BY <1>2, <6>2
            <7> QED
              BY <7>1
          <6> QED
            BY <6>1, <6>2
        <5> QED
          BY <5>1
      <4> HIDE DEF f
      <4> QED
        BY <4>1, <4>2, <4>3, IsBijection
    <3>6. \A k \in 0 .. (n - 1) : heap'[slots'[k]] = h[f[k]]
      <4>1. \A k \in 0 .. (n - 1) : k = 0 \/ k \in 1 .. (n - 1)
        BY <1>2
      <4> QED
        BY <2>2, <3>2, <3>3, <4>1
    <3> QED
      BY <3>2, <3>4, <3>5, <3>6
  <2> QED
    BY <2>3, <2>4
<1>14. StreamOK'
  <2>1. last' \in Nat \cup {-1}
    BY <1>6, <1>10 DEF RefinementInv, StreamOK
  <2> QED
    BY <1>1, <1>10, <2>1 DEF RefinementInv, StreamOK
<1>15. /\ pc' # "idle" /\ pc # "idle" /\ UNCHANGED before
  BY <1>1
<1>16. /\ Atomic!FirstTime(arg)' = Atomic!FirstTime(arg) /\ Atomic!MustForce(late)' = Atomic!MustForce(late)
       /\ Atomic!ForceHandles(arg, late)' = Atomic!ForceHandles(arg, late)
       /\ Atomic!AfterForce(arg, late)' = Atomic!AfterForce(arg, late)
       /\ Atomic!Held(arg, late)' = h /\ Forced(arg, late)' = Forced(arg, late)
  BY <1>15, SameCall DEF h
<1>17. gaveUp' = before'.gaveUp \cup {"force"} /\ before'.delivered = before.delivered /\ before'.lastTime = before.lastTime
  BY <1>1, <1>8
<1>18. AtSort(arg, late)'
  BY ONLY <1>1, <1>5, <1>10, <1>11, <1>12, <1>13, <1>16, <1>17 DEF AtSort
<1> QED
  BY <1>14, <1>18

LEMMA NextPlaces ==
  ASSUME NEW m \in Nat
  PROVE  [k \in 0 .. (m - 1) |-> k + 1] \in Bijection(0 .. (m - 1), 1 .. m)
<1> DEFINE f == [k \in 0 .. (m - 1) |-> k + 1]
<1>1. f \in [0 .. (m - 1) -> 1 .. m] /\ \A x, y \in 0 .. (m - 1) : f[x] = f[y] => x = y
  OBVIOUS
<1>2. \A t \in 1 .. m : \E x \in 0 .. (m - 1) : f[x] = t
  <2>1. \A t \in 1 .. m : t - 1 \in 0 .. (m - 1) /\ (t - 1) + 1 = t
    OBVIOUS
  <2> QED
    BY <2>1
<1> HIDE DEF f
<1>3. f \in Bijection(0 .. (m - 1), 1 .. m)
  BY <1>1, <1>2, IsBijection
<1> QED
  BY <1>3 DEF f

LEMMA AddLastRefines ==
  ASSUME IInv, IInv', RefinementInv, NEW late \in BOOLEAN, ~MustForce(late), AddLast,
         NEW arg \in SeqNos \cup {NoPacket}, Called(arg), AtForce(arg)
  PROVE  StreamOK' /\ AtSort(arg, late)'
<1>1. /\ pc = "force" /\ pc' = "compact" /\ forced' = FALSE
      /\ IF pd # Null THEN slots' = [slots EXCEPT ![n] = pd] /\ n' = n + 1 ELSE UNCHANGED <<slots, n>>
      /\ UNCHANGED <<timeoutrecv, phase, last, lastTime, received, delivered, gaveUp, heap, pd, before>>
  BY DEF AddLast, AtForce
<1>2. n \in Nat /\ n < MaxItems /\ n \in Indexes
  BY Facts DEF MustForce, Indexes
<1>3. \A k \in 0 .. (n - 1) : slots[k] # Null
  BY <1>1 DEF IInv, PlacesOK
<1> DEFINE b == before.pdlist
           h == Atomic!Held(arg, late)
<1>4. /\ b \in Seq(SeqNos) /\ Len(b) = n /\ \A k \in 0 .. (n - 1) : heap[slots[k]] = b[k + 1]
      /\ before.timeoutrecv = timeoutrecv /\ before.delivered \in Seq(SeqNos)
  BY <1>3, BufferedIs DEF AtForce, Called
<1>5. /\ ~Atomic!MustForce(late)
      /\ Len(h) = n + (IF arg = NoPacket THEN 0 ELSE 1)
      /\ \A k \in 1 .. n : h[k] = b[k]
      /\ arg # NoPacket => h[Len(h)] = arg
  <2>1. ~Atomic!MustForce(late)
    BY <1>1, <1>4, HeldIs, MustForceIs
  <2>2. pc # "idle"
    BY <1>1
  <2>3. /\ Len(h) = Len(b) - 0 + (IF arg = NoPacket THEN 0 ELSE 1)
        /\ \A k \in 1 .. (Len(b) - 0) : h[k] = b[k + 0]
        /\ arg # NoPacket => h[Len(h)] = arg
    BY <1>4, <2>1, <2>2, HeldIs
  <2>4. n - 0 = n /\ \A k \in 1 .. n : k + 0 = k
    BY <1>2
  <2> QED
    BY <1>4, <2>1, <2>3, <2>4
<1>6. ~Atomic!ForceHandles(arg, late)
  BY <1>5 DEF Atomic!ForceHandles
<1>7. /\ last' = Atomic!AfterForce(arg, late)
      /\ delivered' = before.delivered \o Forced(arg, late)
      /\ gaveUp' = before.gaveUp
  <2>1. last = Atomic!Started(arg) /\ delivered = before.delivered /\ gaveUp = before.gaveUp
    BY DEF AtForce
  <2>2. before.delivered \o <<>> = before.delivered
    BY <1>4
  <2>3. Forced(arg, late) = <<>> /\ Atomic!AfterForce(arg, late) = Atomic!Started(arg)
    BY <1>6 DEF Forced, Atomic!AfterForce
  <2> QED
    BY <1>1, <2>1, <2>2, <2>3
<1>8. /\ ~Atomic!FirstTime(arg) => lastTime' = before.lastTime
      /\ Atomic!FirstTime(arg) /\ timeoutrecv > 0 => lastTime' = 0
  <2>1. timeoutrecv \in Nat
    BY Facts
  <2> QED
    BY <1>1, <2>1 DEF AtForce
<1> HIDE DEF h
<1>9. \E f \in Bijection(Live', 1 .. Len(h)) : \A k \in Live' : heap'[slots'[k]] = h[f[k]]
  <2> DEFINE f == [k \in 0 .. (n' - 1) |-> k + 1]
  <2>1. /\ n' \in Nat /\ Len(h) = n' /\ \A k \in 0 .. (n' - 1) : slots'[k] # Null /\ heap'[slots'[k]] = h[k + 1]
    <3>1. CASE pd = Null
      <4>1. UNCHANGED <<slots, n>> /\ arg = NoPacket
        BY <1>1, <3>1 DEF Called
      <4>2. \A k \in 0 .. (n - 1) : k + 1 \in 1 .. n
        BY <1>2
      <4> QED
        BY <1>1, <1>2, <1>3, <1>4, <1>5, <4>1, <4>2
    <3>2. CASE pd # Null
      <4>1. slots' = [slots EXCEPT ![n] = pd] /\ n' = n + 1 /\ arg # NoPacket /\ heap[pd] = arg
        BY <1>1, <3>2 DEF Called, AtForce
      <4>2. Len(h) = n' /\ h[n + 1] = arg /\ n' \in Nat
        BY <1>2, <1>5, <4>1
      <4>3. ASSUME NEW k \in 0 .. (n' - 1)
            PROVE  slots'[k] # Null /\ heap'[slots'[k]] = h[k + 1]
        <5>1. CASE k = n
          <6>1. slots'[k] = pd
            BY <1>2, <4>1, <5>1, Facts
          <6> QED
            BY <1>1, <3>2, <4>1, <4>2, <5>1, <6>1
        <5>2. CASE k # n
          <6>1. k \in 0 .. (n - 1) /\ k + 1 \in 1 .. n
            BY <1>2, <4>1, <5>2
          <6>2. slots'[k] = slots[k]
            BY <4>1, <5>2, <6>1, Facts
          <6> QED
            BY <1>1, <1>3, <1>4, <1>5, <6>1, <6>2
        <5> QED
          BY <5>1, <5>2
      <4> QED
        BY <4>2, <4>3
    <3> QED
      BY <3>1, <3>2
  <2>2. Live' = 0 .. (n' - 1)
    BY <2>1 DEF Live
  <2>3. f \in Bijection(0 .. (n' - 1), 1 .. n')
    BY <2>1, NextPlaces
  <2>4. \A k \in 0 .. (n' - 1) : heap'[slots'[k]] = h[f[k]]
    BY <2>1
  <2> HIDE DEF f
  <2> QED
    BY <2>1, <2>2, <2>3, <2>4
<1>10. StreamOK'
  BY <1>1 DEF RefinementInv, StreamOK
<1>11. /\ Atomic!FirstTime(arg)' = Atomic!FirstTime(arg) /\ Atomic!MustForce(late)' = Atomic!MustForce(late)
       /\ Atomic!ForceHandles(arg, late)' = Atomic!ForceHandles(arg, late)
       /\ Atomic!AfterForce(arg, late)' = Atomic!AfterForce(arg, late)
       /\ Atomic!Held(arg, late)' = h /\ Forced(arg, late)' = Forced(arg, late)
  <2>1. pc' # "idle" /\ pc # "idle" /\ UNCHANGED before
    BY <1>1
  <2> QED
    BY <2>1, SameCall DEF h
<1>12. gaveUp' = before'.gaveUp \cup {} /\ before' = before /\ timeoutrecv' = timeoutrecv
  BY <1>1, <1>7
<1>13. AtSort(arg, late)'
  BY ONLY <1>1, <1>5, <1>6, <1>7, <1>8, <1>9, <1>11, <1>12 DEF AtSort
<1> QED
  BY <1>10, <1>13

\* Removing a NULL pointer moves packets, but neither loses nor changes one.
LEMMA CompactRefines ==
  ASSUME IInv, IInv', RefinementInv, Compact, NEW late \in BOOLEAN,
         NEW arg \in SeqNos \cup {NoPacket}, Called(arg), AtSort(arg, late)
  PROVE  StreamOK' /\ AtSort(arg, late)'
<1>1. /\ pc = "compact" /\ pc' \in {"compact", "sort"}
      /\ UNCHANGED <<timeoutrecv, phase, last, lastTime, received, delivered, gaveUp, heap, pd, j, forced, before>>
  BY DEF Compact
<1> DEFINE h == Atomic!Held(arg, late)
<1>2. PICK f \in Bijection(Live, 1 .. Len(h)) : \A k \in Live : heap[slots[k]] = h[f[k]]
  BY DEF AtSort
<1>3. \E g \in Bijection(Live', 1 .. Len(h)) : \A k \in Live' : heap'[slots'[k]] = h[g[k]]
  <2>1. CASE UNCHANGED <<slots, n>>
    <3>1. Live' = Live
      BY <2>1 DEF Live
    <3> QED
      BY <1>1, <1>2, <2>1, <3>1
  <2>2. CASE /\ i < n /\ slots[i] = Null
             /\ slots' = [k \in Indexes |-> IF k \in i .. (n - 2) THEN slots[k + 1] ELSE slots[k]]
             /\ n' = n - 1
    <3> DEFINE o(k) == IF k < i THEN k ELSE k + 1
    <3>1. n \in Nat /\ i \in Nat /\ n' \in Nat /\ n <= MaxItems /\ MaxItems \in Nat
      BY <2>2, Facts
    <3>2. \A k \in 0 .. (n' - 1) : o(k) \in 0 .. (n - 1) /\ slots'[k] = slots[o(k)]
      <4>1. \A k \in 0 .. (n' - 1) : k \in Indexes /\ (k \in i .. (n - 2) <=> ~(k < i)) /\ o(k) \in 0 .. (n - 1)
        BY <2>2, <3>1 DEF Indexes
      <4> QED
        BY <2>2, <4>1
    <3>3. \A x, y \in 0 .. (n' - 1) : o(x) = o(y) => x = y
      BY <3>1
    <3>4. \A m \in 0 .. (n - 1) : m # i => \E k \in 0 .. (n' - 1) : o(k) = m
      <4>1. ASSUME NEW m \in 0 .. (n - 1), m # i
            PROVE  \E k \in 0 .. (n' - 1) : o(k) = m
        <5>1. CASE m < i
          <6>1. m \in 0 .. (n' - 1)
            BY <2>2, <3>1, <5>1
          <6> QED
            BY <5>1, <6>1
        <5>2. CASE m > i
          <6>1. m - 1 \in 0 .. (n' - 1) /\ o(m - 1) = m
            BY <2>2, <3>1, <5>2
          <6> QED
            BY <6>1
        <5>3. m \in Int /\ i \in Int /\ m # i
          BY <3>1, <4>1
        <5>4. m < i \/ m > i
          BY ONLY <5>3
        <5> QED
          BY <5>1, <5>2, <5>4
      <4> QED
        BY <4>1
    <3> HIDE DEF o
    <3> DEFINE g == [k \in Live' |-> f[o(k)]]
    <3>5. \A k \in Live' : k \in 0 .. (n' - 1) /\ o(k) \in Live
      BY <3>2 DEF Live
    <3>6. \A m \in Live : \E k \in Live' : o(k) = m
      <4>1. ASSUME NEW m \in Live
            PROVE  \E k \in Live' : o(k) = m
        <5>1. m \in 0 .. (n - 1) /\ slots[m] # Null /\ m # i
          BY <2>2 DEF Live
        <5>2. PICK k \in 0 .. (n' - 1) : o(k) = m
          BY <3>4, <5>1
        <5>3. k \in Live'
          BY <3>2, <5>1, <5>2 DEF Live
        <5> QED
          BY <5>2, <5>3
      <4> QED
        BY <4>1
    <3> DEFINE T == 1 .. Len(h)
               S == Live
               S2 == Live'
    <3> HIDE DEF T, S, S2
    <3>7. /\ \A x \in S : f[x] \in T
          /\ \A x, y \in S : f[x] = f[y] => x = y
          /\ \A t \in T : \E x \in S : f[x] = t
      <4>1. f \in Bijection(S, T)
        BY <1>2 DEF S, T
      <4> QED
        BY ONLY <4>1, BijectionIs
    <3>8. /\ \A k \in S2 : o(k) \in S /\ \A x, y \in S2 : o(x) = o(y) => x = y
          /\ \A m \in S : \E k \in S2 : o(k) = m
      BY <3>3, <3>5, <3>6 DEF S, S2
    <3>9. /\ g \in [S2 -> T] /\ \A k \in S2 : g[k] = f[o(k)]
          /\ \A x, y \in S2 : g[x] = g[y] => x = y
          /\ \A t \in T : \E x \in S2 : g[x] = t
      BY <3>7, <3>8 DEF S2
    <3> HIDE DEF g
    <3>10. g \in Bijection(S2, T)
      BY <3>9, IsBijection
    <3>11. \A k \in S2 : heap'[slots'[k]] = h[g[k]]
      BY <1>1, <1>2, <3>2, <3>5, <3>8, <3>9 DEF S, S2
    <3> QED
      BY <3>10, <3>11 DEF S2, T
  <2> QED
    BY <2>1, <2>2 DEF Compact
<1> HIDE DEF h
<1>4. StreamOK'
  BY <1>1 DEF RefinementInv, StreamOK
<1>5. /\ Atomic!FirstTime(arg)' = Atomic!FirstTime(arg) /\ Atomic!MustForce(late)' = Atomic!MustForce(late)
      /\ Atomic!ForceHandles(arg, late)' = Atomic!ForceHandles(arg, late)
      /\ Atomic!AfterForce(arg, late)' = Atomic!AfterForce(arg, late)
      /\ Atomic!Held(arg, late)' = h /\ Forced(arg, late)' = Forced(arg, late)
  <2>1. pc' # "idle" /\ pc # "idle" /\ UNCHANGED before
    BY <1>1
  <2> QED
    BY <2>1, SameCall DEF h
<1>6. AtSort(arg, late)'
  BY <1>1, <1>3, <1>5 DEF AtSort
<1> QED
  BY <1>4, <1>6

\* What the result of sorting h is.
LEMMA SortedIs ==
  ASSUME NEW h \in Seq(SeqNos), NEW q \in Atomic!QSort(h)
  PROVE  /\ q \in Seq(SeqNos) /\ Len(q) = Len(h)
         /\ \A x \in 1 .. Len(q) : q[x] \in SeqNos /\ \E y \in 1 .. Len(h) : q[x] = h[y]
<1>1. DOMAIN h = 1 .. Len(h) /\ Len(h) \in Nat /\ \A y \in 1 .. Len(h) : h[y] \in SeqNos
  OBVIOUS
<1> DEFINE D == 1 .. Len(h)
<1>2. PICK r \in Atomic!Bijection(D, D) : q = [x \in D |-> h[r[x]]]
  BY <1>1 DEF Atomic!QSort
<1>3. r \in [D -> D]
  BY DEF Atomic!Bijection, Atomic!Injection
<1>4. \A x \in D : r[x] \in D /\ q[x] = h[r[x]] /\ q[x] \in SeqNos
  BY <1>1, <1>2, <1>3
<1>5. q = [x \in D |-> q[x]]
  BY <1>2
<1>6. q \in Seq(SeqNos) /\ Len(q) = Len(h)
  BY <1>1, <1>4, <1>5
<1> QED
  BY <1>4, <1>6

\* The sequences that are such a result.
LEMMA IsSorted ==
  ASSUME NEW h \in Seq(SeqNos), NEW r \in Bijection(1 .. Len(h), 1 .. Len(h)), NEW q,
         q = [x \in 1 .. Len(h) |-> h[r[x]]],
         \A x, y \in 1 .. Len(h) : x < y => q[x] <= q[y]
  PROVE  q \in Atomic!QSort(h)
<1>1. DOMAIN h = 1 .. Len(h)
  OBVIOUS
<1>2. r \in Atomic!Bijection(DOMAIN h, DOMAIN h)
  BY <1>1 DEF Bijection, Injection, Surjection, IsInjective,
              Atomic!Bijection, Atomic!Injection, Atomic!Surjection, Atomic!IsInjective
<1>3. DOMAIN q = 1 .. Len(h) /\ Atomic!Sorted(q)
  BY DEF Atomic!Sorted
<1> QED
  BY <1>1, <1>2, <1>3 DEF Atomic!QSort

\* Sorting permutes the places, and a permutation of the places of a permutation
\* of h is one of h.
LEMMA SortPermutes ==
  ASSUME NEW m \in Nat, NEW S, S = 0 .. (m - 1), NEW h \in Seq(SeqNos), NEW f \in Bijection(S, 1 .. Len(h)),
         NEW p \in Bijection(S, S), NEW g, g = [x \in 1 .. m |-> f[p[x - 1]]]
  PROVE  Len(h) = m /\ g \in Bijection(1 .. m, 1 .. m)
<1> DEFINE T == 1 .. Len(h)
<1>1. IsFiniteSet(S) /\ Cardinality(S) = m /\ IsFiniteSet(T) /\ Cardinality(T) = Len(h)
  <2>1. Len(h) \in Nat
    OBVIOUS
  <2>2. 0 \in Int /\ m - 1 \in Int /\ 1 \in Int /\ Len(h) \in Int
    BY <2>1
  <2>3. /\ IsFiniteSet(S) /\ Cardinality(S) = IF 0 > m - 1 THEN 0 ELSE (m - 1) - 0 + 1
        /\ IsFiniteSet(T) /\ Cardinality(T) = IF 1 > Len(h) THEN 0 ELSE Len(h) - 1 + 1
    BY <2>2, FS_Interval
  <2> HIDE DEF T
  <2> QED
    BY <2>1, <2>3
<1> HIDE DEF T
<1>2. f \in Bijection(S, T) /\ p \in Bijection(S, S)
  BY DEF T
<1>3. /\ f \in [S -> T]
      /\ \A x \in S : f[x] \in T
      /\ \A x, y \in S : f[x] = f[y] => x = y
      /\ \A t \in T : \E x \in S : f[x] = t
  BY ONLY <1>2 DEF Bijection, Injection, Surjection, IsInjective
<1>4. /\ \A x \in S : p[x] \in S
      /\ \A x, y \in S : p[x] = p[y] => x = y
      /\ \A t \in S : \E x \in S : p[x] = t
  BY ONLY <1>2 DEF Bijection, Injection, Surjection, IsInjective
<1>5. Cardinality(S) = Cardinality(T)
  <2>1. f \in Injection(S, T) /\ f \in Surjection(S, T)
    BY <1>2 DEF Bijection
  <2> QED
    BY <1>1, <2>1, FS_Injection
<1>6. Len(h) = m
  BY <1>1, <1>5
<1>7. /\ \A x \in 1 .. m : x - 1 \in S
      /\ \A x, y \in 1 .. m : x - 1 = y - 1 => x = y
      /\ \A k \in S : k + 1 \in 1 .. m /\ (k + 1) - 1 = k
  OBVIOUS
<1>8. \A x \in 1 .. m : g[x] = f[p[x - 1]]
  OBVIOUS
<1>9. g \in [1 .. m -> T] /\ \A x, y \in 1 .. m : g[x] = g[y] => x = y
  <2>1. \A x \in 1 .. m : p[x - 1] \in S /\ f[p[x - 1]] \in T
    BY ONLY <1>3, <1>4, <1>7
  <2>2. g \in [1 .. m -> T]
    BY <2>1
  <2>3. ASSUME NEW x \in 1 .. m, NEW y \in 1 .. m, g[x] = g[y]
        PROVE  x = y
    <3>1. p[x - 1] = p[y - 1]
      BY <1>3, <1>8, <2>1, <2>3
    <3>2. x - 1 = y - 1
      BY <1>4, <1>7, <3>1
    <3> QED
      BY <1>7, <3>2
  <2> QED
    BY <2>2, <2>3
<1>10. \A t \in T : \E x \in 1 .. m : g[x] = t
  <2>1. ASSUME NEW t \in T
        PROVE  \E x \in 1 .. m : g[x] = t
    <3>1. PICK k \in S : f[k] = t
      BY <1>3
    <3>2. PICK z \in S : p[z] = k
      BY <1>4
    <3> QED
      BY <1>7, <1>8, <3>1, <3>2
  <2> QED
    BY <2>1
<1>11. g \in Bijection(1 .. m, T)
  BY ONLY <1>9, <1>10, IsBijection
<1> QED
  BY <1>6, <1>11 DEF T

LEMMA SameSort ==
  ASSUME pc # "idle", pc' # "idle", UNCHANGED before, NEW arg, NEW late
  PROVE  Atomic!QSort(Atomic!Held(arg, late))' = Atomic!QSort(Atomic!Held(arg, late))
<1>1. Atomic!Held(arg, late)' = Atomic!Held(arg, late)
  BY SameCall
<1> QED
  BY <1>1 DEF Atomic!QSort, Atomic!Sorted, Atomic!Bijection, Atomic!Injection, Atomic!Surjection,
              Atomic!IsInjective

\* The first call with a packet finds an empty buffer.
LEMMA FirstIs ==
  ASSUME IInv, pc # "idle", NEW arg \in SeqNos \cup {NoPacket}, NEW late \in BOOLEAN,
         Called(arg), Atomic!FirstTime(arg)
  PROVE  /\ arg \in SeqNos /\ Atomic!Held(arg, late) = <<arg>>
         /\ ~Atomic!MustForce(late) /\ ~Atomic!ForceHandles(arg, late)
         /\ Atomic!AfterForce(arg, late) = IF timeoutrecv = 0 THEN arg - 1 ELSE 0
<1>1. Visible = before
  BY DEF Visible
<1>2. before.pdlist = <<>> /\ arg \in SeqNos /\ arg # NoPacket /\ before.timeoutrecv = timeoutrecv
  BY <1>1 DEF Atomic!FirstTime, Called, NoPacket, Atomic!NoPacket
<1>3. ~Atomic!MustForce(late)
  <2>1. before.pdlist \in Seq(SeqNos) /\ Len(before.pdlist) = 0
    BY <1>2
  <2> QED
    BY <1>2, <2>1, HeldIs
<1>4. Atomic!Held(arg, late) = <<>> \o <<arg>>
  BY <1>1, <1>2, <1>3 DEF Atomic!Held, NoPacket, Atomic!NoPacket
<1>5. <<>> \o <<arg>> = <<arg>>
  OBVIOUS
<1>6. Atomic!Started(arg) = IF timeoutrecv = 0 THEN arg - 1 ELSE 0
  <2>1. timeoutrecv = 0 \/ timeoutrecv > 0
    BY Facts
  <2> QED
    BY <1>1, <1>2, <2>1 DEF Atomic!Started
<1> QED
  BY <1>2, <1>3, <1>4, <1>5, <1>6 DEF Atomic!ForceHandles, Atomic!AfterForce

\* Where the main loop starts.
LEMMA StartIs ==
  ASSUME IInv, pc # "idle", NEW arg \in SeqNos \cup {NoPacket}, NEW late \in BOOLEAN,
         Called(arg), NEW q \in Atomic!QSort(Atomic!Held(arg, late))
  PROVE  /\ Atomic!Held(arg, late) \in Seq(SeqNos) /\ q \in Seq(SeqNos)
         /\ \A x \in 1 .. Len(q) : q[x] \in Nat
         /\ Atomic!AfterForce(arg, late) \in Nat \cup {-1}
         /\ Atomic!AfterTimeout(arg, late, q) \in Nat \cup {-1}
         /\ Atomic!AfterTimeout(arg, late, q) = -1 /\ Len(q) > 0 => q[1] = 0
<1>1. Visible = before
  BY DEF Visible
<1> DEFINE b == before.pdlist
           h == Atomic!Held(arg, late)
           l == Atomic!AfterTimeout(arg, late, q)
<1>2. /\ b \in Seq(SeqNos) /\ before.timeoutrecv = timeoutrecv /\ before.last \in Nat \cup {-1}
      /\ timeoutrecv \in Nat
  BY Facts DEF Called
<1>3. h \in Seq(SeqNos) /\ (Atomic!MustForce(late) => Len(b) > 0)
  BY <1>2, HeldIs
<1>4. q \in Seq(SeqNos) /\ Len(q) = Len(h)
  BY <1>3, SortedIs
<1>5. \A x \in 1 .. Len(q) : q[x] \in Nat
  BY <1>3, SortedIs, Numbers
<1>6. arg = NoPacket \/ arg \in Nat
  BY Numbers
<1>7. /\ Atomic!FirstTime(arg) => Atomic!AfterForce(arg, late) \in Nat \cup {-1}
      /\ Atomic!FirstTime(arg) /\ Atomic!AfterForce(arg, late) = -1 => arg = 0 /\ h = <<0>>
  <2>1. CASE Atomic!FirstTime(arg)
    <3>1. arg \in Nat /\ h = <<arg>> /\ Atomic!AfterForce(arg, late) = IF timeoutrecv = 0 THEN arg - 1 ELSE 0
      BY <2>1, FirstIs, Numbers
    <3> HIDE DEF h
    <3> QED
      BY <3>1
  <2> QED
    BY <2>1
<1>8. ~Atomic!FirstTime(arg) =>
         /\ Atomic!AfterForce(arg, late) \in Nat \cup {-1}
         /\ Atomic!AfterForce(arg, late) = -1 => arg = NoPacket
  <2>1. CASE ~Atomic!FirstTime(arg)
    <3>1. Atomic!Started(arg) = before.last
      BY <1>1, <2>1 DEF Atomic!Started
    <3>2. arg # NoPacket => before.last # -1
      BY <1>1, <2>1 DEF Atomic!FirstTime, NoPacket, Atomic!NoPacket
    <3>3. Atomic!ForceHandles(arg, late) => Head(b) \in Nat
      <4>1. Atomic!ForceHandles(arg, late) => Len(b) > 0
        BY <1>3 DEF Atomic!ForceHandles
      <4>2. Len(b) > 0 => Head(b) \in SeqNos
        BY <1>2
      <4> QED
        BY <4>1, <4>2, Numbers
    <3>4. Atomic!AfterForce(arg, late) = IF Atomic!ForceHandles(arg, late) THEN Head(b) ELSE before.last
      BY <1>1, <3>1 DEF Atomic!AfterForce
    <3> HIDE DEF b
    <3> QED
      BY <1>2, <3>2, <3>3, <3>4
  <2> QED
    BY <2>1
<1>9. Atomic!AfterForce(arg, late) \in Nat \cup {-1}
  BY <1>7, <1>8
<1>10. l = IF arg = NoPacket /\ Len(q) > 0 THEN q[1] - 1 ELSE Atomic!AfterForce(arg, late)
  <2>1. q # <<>> <=> Len(q) > 0
    BY <1>4
  <2> QED
    BY <2>1 DEF Atomic!AfterTimeout, NoPacket, Atomic!NoPacket
<1>11. Len(q) > 0 => q[1] \in Nat
  <2>1. Len(q) > 0 => 1 \in 1 .. Len(q)
    BY <1>4
  <2> QED
    BY <1>5, <2>1
<1>12. Len(q) > 0 /\ h = <<0>> => q[1] = 0
  <2>1. ASSUME Len(q) > 0, h = <<0>>
        PROVE  q[1] = 0
    <3>1. 1 \in 1 .. Len(q) /\ \A y \in 1 .. Len(h) : h[y] = 0
      BY <1>4, <2>1
    <3>2. \E y \in 1 .. Len(h) : q[1] = h[y]
      BY ONLY <1>3, <3>1, SortedIs
    <3> QED
      BY ONLY <3>1, <3>2
  <2> QED
    BY <2>1
<1> HIDE DEF h, l
<1>13. l \in Nat \cup {-1} /\ (l = -1 /\ Len(q) > 0 => q[1] = 0)
  BY <1>6, <1>7, <1>8, <1>9, <1>10, <1>11, <1>12
<1> QED
  BY <1>3, <1>4, <1>5, <1>9, <1>13 DEF h, l

LEMMA RunIs ==
  ASSUME NEW l \in Int, NEW m \in Int, m >= l
  PROVE  /\ Atomic!Run(l, l) = <<>> /\ Atomic!Run(l, m) \in Seq(Int)
         /\ Atomic!Run(l, m + 1) = Append(Atomic!Run(l, m), m + 1)
<1> DEFINE a == Atomic!Run(l, m)
           b == Atomic!Run(l, m + 1)
<1>1. l - l = 0 /\ m - l \in Nat /\ (m + 1) - l = (m - l) + 1
  OBVIOUS
<1> PICK k \in Nat : k = m - l
  BY <1>1
<1>2. a = [x \in 1 .. k |-> l + x] /\ b = [x \in 1 .. (k + 1) |-> l + x] /\ m + 1 = l + (k + 1)
  BY <1>1 DEF Atomic!Run
<1>3. a \in Seq(Int) /\ Len(a) = k
  BY <1>2
<1>4. b \in Seq(Int) /\ Len(b) = k + 1
  BY <1>2
<1>5. b = Append(a, m + 1)
  <2> HIDE DEF a, b
  <2>1. Append(a, m + 1) \in Seq(Int) /\ Len(Append(a, m + 1)) = k + 1
    BY <1>3
  <2>2. \A x \in 1 .. (k + 1) : Append(a, m + 1)[x] = b[x]
    BY <1>2, <1>3
  <2> QED
    BY <1>4, <2>1, <2>2, SeqEqual
<1>6. Atomic!Run(l, l) = <<>>
  BY <1>1 DEF Atomic!Run
<1> QED
  BY <1>3, <1>5, <1>6

LEMMA ForcedIs ==
  ASSUME IInv, pc # "idle", NEW arg \in SeqNos \cup {NoPacket}, NEW late \in BOOLEAN, Called(arg)
  PROVE  Forced(arg, late) \in Seq(SeqNos)
<1>1. before.pdlist \in Seq(SeqNos) /\ before.timeoutrecv = timeoutrecv
  BY DEF Called
<1>2. Atomic!ForceHandles(arg, late) => Len(before.pdlist) > 0
  BY <1>1, HeldIs DEF Atomic!ForceHandles
<1>3. Atomic!ForceHandles(arg, late) => Head(before.pdlist) \in SeqNos
  BY <1>1, <1>2
<1> QED
  BY <1>3 DEF Forced

\* The main loop has come to m.
LEMMA HandleStays ==
  ASSUME pc # "idle", pc' # "idle", before' = before, NEW arg, NEW late, NEW q,
         NEW l, l = Atomic!AfterTimeout(arg, late, q), NEW m, last' = m,
         NEW handled, handled = Forced(arg, late) \o Atomic!Run(l, m),
         m >= l, \A x \in 1 .. j' : q[x] <= m,
         \A s \in (l + 1) .. m : \E x \in 1 .. j' : q[x] = s,
         delivered' = before.delivered \o handled,
         gaveUp' = before.gaveUp \cup Atomic!Reasons(arg, late, q),
         lastTime' = Atomic!TimeAfter(arg, handled, m) \/ (j' = 0 /\ n' > 0 /\ q[1] = m + 1)
  PROVE  AtHandle(arg, late, q)'
<1>1. /\ Atomic!AfterTimeout(arg, late, q)' = Atomic!AfterTimeout(arg, late, q)
      /\ Atomic!Reasons(arg, late, q)' = Atomic!Reasons(arg, late, q)
      /\ Atomic!TimeAfter(arg, handled, m)' = Atomic!TimeAfter(arg, handled, m)
      /\ Forced(arg, late)' = Forced(arg, late)
  BY SameCall
<1>2. Atomic!Run(Atomic!AfterTimeout(arg, late, q), last)' = Atomic!Run(l, m)
  BY <1>1 DEF Atomic!Run
<1>3. /\ Atomic!Reasons(arg, late, q)' = Atomic!Reasons(arg, late, q)
      /\ Atomic!TimeAfter(arg, Forced(arg, late) \o Atomic!Run(Atomic!AfterTimeout(arg, late, q), last), last)'
           = Atomic!TimeAfter(arg, handled, m)
  BY <1>1, <1>2 DEF Atomic!TimeAfter
<1> QED
  BY <1>1, <1>2, <1>3 DEF AtHandle

\* qsort() makes of the places one of the results that RawStream allows.
LEMMA SortRefines ==
  ASSUME IInv, IInv', RefinementInv, Sort, NEW late \in BOOLEAN,
         NEW arg \in SeqNos \cup {NoPacket}, Called(arg), AtSort(arg, late)
  PROVE  StreamOK' /\ CallOK(arg)'
<1>1. /\ pc = "sort" /\ pc' = "handle" /\ j = 0 /\ j' = 0 /\ phase' = phase
      /\ UNCHANGED <<timeoutrecv, received, delivered, n, heap, pd, forced, before>>
  BY DEF Sort, IInv, PlacesOK
<1>2. PICK p \in Bijection(0 .. (n - 1), 0 .. (n - 1)) :
        /\ slots' = [k \in Indexes |-> IF k < n THEN slots[p[k]] ELSE slots[k]]
        /\ \A k, m \in 0 .. (n - 1) : k < m => heap[slots'[k]] <= heap[slots'[m]]
  BY DEF Sort
<1>3. n \in Nat /\ \A k \in 0 .. (n - 1) : slots[k] # Null /\ heap[slots[k]] \in SeqNos /\ k \in Indexes /\ k < n
  <2>1. \A k \in 0 .. (n - 1) : slots[k] # Null
    BY <1>1 DEF IInv, PlacesOK
  <2>2. n \in Nat
    BY Facts
  <2>3. \A k \in 0 .. (n - 1) : k < n
    BY <2>2
  <2> QED
    BY <2>1, <2>2, <2>3, LivePackets, Facts
<1> DEFINE h == Atomic!Held(arg, late)
<1> PICK q : q = [x \in 1 .. n |-> heap[slots'[x - 1]]]
  OBVIOUS
<1> PICK l : l = Atomic!AfterTimeout(arg, late, q)
  OBVIOUS
<1>4. h \in Seq(SeqNos)
  BY <1>1, HeldIs DEF Called
<1>5. PICK f \in Bijection(0 .. (n - 1), 1 .. Len(h)) : \A k \in 0 .. (n - 1) : heap[slots[k]] = h[f[k]]
  <2>1. Live = 0 .. (n - 1)
    BY <1>3 DEF Live
  <2> QED
    BY <2>1 DEF AtSort
<1> HIDE DEF h
<1> PICK r : r = [x \in 1 .. n |-> f[p[x - 1]]]
  OBVIOUS
<1>6. Len(h) = n /\ r \in Bijection(1 .. n, 1 .. n)
  <2> PICK S : S = 0 .. (n - 1)
    OBVIOUS
  <2>1. /\ n \in Nat /\ S = 0 .. (n - 1) /\ h \in Seq(SeqNos) /\ f \in Bijection(S, 1 .. Len(h))
        /\ p \in Bijection(S, S) /\ r = [x \in 1 .. n |-> f[p[x - 1]]]
    BY <1>3, <1>4
  <2> QED
    BY ONLY <2>1, SortPermutes
<1>7. \A x \in 1 .. n : x - 1 \in 0 .. (n - 1) /\ p[x - 1] \in 0 .. (n - 1)
  <2>1. \A k \in 0 .. (n - 1) : p[k] \in 0 .. (n - 1)
    BY ONLY p \in Bijection(0 .. (n - 1), 0 .. (n - 1)) DEF Bijection, Injection
  <2>2. \A x \in 1 .. n : x - 1 \in 0 .. (n - 1)
    BY <1>3
  <2> QED
    BY <2>1, <2>2
<1>8. \A x \in 1 .. n : q[x] = h[f[p[x - 1]]] /\ q[x] \in SeqNos
  <2>1. \A x \in 1 .. n : slots'[x - 1] = slots[p[x - 1]]
    BY <1>2, <1>3, <1>7
  <2> QED
    BY <1>3, <1>5, <1>7, <2>1
<1>9. q \in Atomic!QSort(h) /\ Len(q) = n
  <2>1. r \in Bijection(1 .. Len(h), 1 .. Len(h))
    BY <1>6
  <2>2. q = [x \in 1 .. Len(h) |-> h[r[x]]]
    BY <1>6, <1>8
  <2>3. \A x, y \in 1 .. Len(h) : x < y => q[x] <= q[y]
    <3>1. ASSUME NEW x \in 1 .. n, NEW y \in 1 .. n, x < y
          PROVE  q[x] <= q[y]
      <4>1. x - 1 < y - 1 /\ x - 1 \in 0 .. (n - 1) /\ y - 1 \in 0 .. (n - 1)
        BY <1>3, <3>1
      <4>2. heap[slots'[x - 1]] <= heap[slots'[y - 1]]
        BY ONLY <1>2, <4>1
      <4>3. q[x] = heap[slots'[x - 1]] /\ q[y] = heap[slots'[y - 1]]
        OBVIOUS
      <4> QED
        BY ONLY <4>2, <4>3
    <3> QED
      BY <1>6, <3>1
  <2>4. Len(q) = n
    BY <1>3
  <2> QED
    BY <1>4, <2>1, <2>2, <2>3, <2>4, IsSorted
<1>10. q = Buffered'
  BY <1>1 DEF Buffered
<1>11. n > 0 => q[1] = heap[slots'[0]] /\ q[1] \in SeqNos /\ q[1] \in Nat
  <2>1. n > 0 => 1 \in 1 .. n /\ 1 - 1 = 0
    BY <1>3
  <2> QED
    BY <1>8, <2>1, Numbers
<1>12. (arg = NoPacket /\ q # <<>>) <=> (pd = Null /\ n > 0)
  <2>1. q # <<>> <=> n > 0
    <3>1. q \in Seq(SeqNos)
      BY <1>1, <1>9, StartIs DEF h
    <3> QED
      BY <1>3, <1>9, <3>1
  <2> QED
    BY <2>1 DEF Called
<1>13. l \in Nat \cup {-1}
  <2>1. Atomic!AfterTimeout(arg, late, q) \in Nat \cup {-1}
    BY <1>1, <1>9, StartIs DEF h
  <2> QED
    BY <2>1
<1>14. /\ last = Atomic!AfterForce(arg, late) /\ delivered = before.delivered \o Forced(arg, late)
       /\ gaveUp = before.gaveUp \cup (IF forced THEN {"force"} ELSE {})
       /\ (forced <=> Atomic!MustForce(late))
  BY DEF AtSort
<1>15. last' = l /\ gaveUp' = before.gaveUp \cup Atomic!Reasons(arg, late, q)
  <2>1. CASE pd = Null /\ n > 0
    <3>1. last' = q[1] - 1 /\ gaveUp' = gaveUp \cup {"null"} \cup (IF forced THEN {"forced null"} ELSE {})
      BY <1>11, <2>1 DEF Sort
    <3>2. l = q[1] - 1
      BY <1>12, <2>1 DEF Atomic!AfterTimeout, NoPacket, Atomic!NoPacket
    <3>3. Atomic!Reasons(arg, late, q) =
            (IF forced THEN {"force"} ELSE {}) \cup {"null"} \cup (IF forced THEN {"forced null"} ELSE {})
      BY <1>12, <1>14, <2>1 DEF Atomic!Reasons, NoPacket, Atomic!NoPacket
    <3> QED
      BY <1>14, <3>1, <3>2, <3>3
  <2>2. CASE ~(pd = Null /\ n > 0)
    <3>1. UNCHANGED <<last, gaveUp>>
      BY <2>2 DEF Sort
    <3>2. l = Atomic!AfterForce(arg, late)
      BY <1>12, <2>2 DEF Atomic!AfterTimeout, NoPacket, Atomic!NoPacket
    <3>3. Atomic!Reasons(arg, late, q) = IF forced THEN {"force"} ELSE {}
      BY <1>12, <1>14, <2>2 DEF Atomic!Reasons, NoPacket, Atomic!NoPacket
    <3> QED
      BY <1>14, <3>1, <3>2, <3>3
  <2> QED
    BY <2>1, <2>2
<1>16. Atomic!Run(l, l) = <<>> /\ Forced(arg, late) \o Atomic!Run(l, l) = Forced(arg, late)
  <2>1. Atomic!Run(l, l) = <<>>
    BY <1>13, RunIs
  <2>2. Forced(arg, late) \in Seq(SeqNos)
    BY <1>1, ForcedIs
  <2>3. Forced(arg, late) \o <<>> = Forced(arg, late)
    BY <2>2
  <2> QED
    BY <2>1, <2>3
<1>17. lastTime' = Atomic!TimeAfter(arg, Forced(arg, late), last') \/ (j' = 0 /\ n' > 0 /\ q[1] = last' + 1)
  <2>1. CASE pd = Null /\ n > 0
    <3>1. last' = q[1] - 1
      BY <1>11, <2>1 DEF Sort
    <3> QED
      BY <1>1, <1>11, <2>1, <3>1
  <2>2. CASE ~(pd = Null /\ n > 0)
    <3>1. UNCHANGED <<last, lastTime>>
      BY <2>2 DEF Sort
    <3>2. Visible.lastTime = before.lastTime
      BY <1>1 DEF Visible
    <3>3. CASE Atomic!ForceHandles(arg, late)
      <4>1. lastTime = EndTime(last)
        BY <3>3 DEF AtSort
      <4>2. Forced(arg, late) # <<>>
        BY <3>3 DEF Forced
      <4> QED
        BY <3>1, <4>1, <4>2 DEF Atomic!TimeAfter, EndTime, StartTime, Atomic!EndTime, Atomic!StartTime
    <3>4. CASE ~Atomic!ForceHandles(arg, late)
      <4>1. Forced(arg, late) = <<>>
        BY <3>4 DEF Forced
      <4>2. CASE ~Atomic!FirstTime(arg)
        <5>1. lastTime = before.lastTime
          BY <3>4, <4>2 DEF AtSort
        <5> QED
          BY <3>1, <3>2, <4>1, <4>2, <5>1 DEF Atomic!TimeAfter
      <4>3. CASE Atomic!FirstTime(arg) /\ timeoutrecv > 0
        <5>1. lastTime = 0
          BY <3>4, <4>3 DEF AtSort
        <5> QED
          BY <3>1, <4>1, <4>3, <5>1 DEF Atomic!TimeAfter
      <4>4. CASE Atomic!FirstTime(arg) /\ timeoutrecv = 0
        <5>1. arg \in SeqNos /\ h = <<arg>> /\ last = arg - 1
          BY <1>1, <1>14, <4>4, FirstIs DEF h
        <5>2. n = 1
          BY <1>6, <5>1
        <5>3. q[1] = arg
          <6>1. 1 \in 1 .. Len(q) /\ \A y \in 1 .. Len(h) : h[y] = arg
            BY <1>9, <5>1, <5>2
          <6>2. q[1] \in SeqNos /\ \E y \in 1 .. Len(h) : q[1] = h[y]
            <7>1. h \in Seq(SeqNos) /\ q \in Atomic!QSort(h)
              BY <1>4, <1>9
            <7> QED
              BY ONLY <6>1, <7>1, SortedIs
          <6> QED
            BY ONLY <6>1, <6>2
        <5>4. arg \in Nat
          BY <5>1, Numbers
        <5>5. q[1] = last + 1
          BY <5>1, <5>3, <5>4
        <5> QED
          BY <1>1, <3>1, <5>2, <5>5
      <4>5. timeoutrecv = 0 \/ timeoutrecv > 0
        BY Facts
      <4> QED
        BY <4>2, <4>3, <4>4, <4>5
    <3> QED
      BY <3>3, <3>4
  <2> QED
    BY <2>1, <2>2
<1>18. StreamOK'
  BY <1>1, <1>13, <1>15 DEF RefinementInv, StreamOK
<1>19. AtHandle(arg, late, q)'
  <2>1. /\ l >= l /\ (\A x \in 1 .. j' : q[x] <= l)
        /\ \A s \in (l + 1) .. l : \E x \in 1 .. j' : q[x] = s
    <3>1. j' = 0 /\ l \in Int
      BY <1>1, <1>13
    <3> QED
      BY ONLY <3>1
  <2> PICK handled : handled = Forced(arg, late)
    OBVIOUS
  <2>2. handled = Forced(arg, late) \o Atomic!Run(l, l)
    BY <1>16
  <2>3. /\ delivered' = before.delivered \o handled
        /\ gaveUp' = before.gaveUp \cup Atomic!Reasons(arg, late, q)
        /\ lastTime' = Atomic!TimeAfter(arg, handled, l) \/ (j' = 0 /\ n' > 0 /\ q[1] = l + 1)
    BY <1>1, <1>14, <1>15, <1>17
  <2>4. pc # "idle" /\ pc' # "idle" /\ before' = before /\ last' = l /\ l = Atomic!AfterTimeout(arg, late, q)
    BY <1>1, <1>15
  <2> QED
    BY ONLY <2>1, <2>2, <2>3, <2>4, HandleStays, Zenon
<1>20. q \in Atomic!QSort(Atomic!Held(arg, late))'
  BY <1>1, <1>9, SameSort DEF h
<1>21. CallOK(arg)'
  BY <1>1, <1>9, <1>10, <1>19, <1>20 DEF CallOK
<1> QED
  BY <1>18, <1>21

LEMMA AppendToConcat ==
  ASSUME NEW S, NEW u \in Seq(S), NEW v \in Seq(S), NEW e \in S
  PROVE  u \o Append(v, e) = Append(u \o v, e) /\ Append(u \o v, e) # <<>> /\ u \o v \in Seq(S)
<1>1. Append(v, e) = v \o <<e>> /\ <<e>> \in Seq(S) /\ u \o v \in Seq(S)
  BY AppendIsConcat
<1>2. Append(u \o v, e) = (u \o v) \o <<e>> /\ Append(u \o v, e) # <<>>
  <2> DEFINE w == u \o v
  <2>1. w \in Seq(S) /\ e \in S
    BY <1>1
  <2> HIDE DEF w
  <2>2. Append(w, e) = w \o <<e>> /\ Append(w, e) # <<>>
    BY ONLY <2>1, AppendIsConcat, AppendProperties
  <2> QED
    BY <2>2 DEF w
<1>3. (u \o v) \o <<e>> = u \o (v \o <<e>>)
  BY <1>1, ConcatAssociative
<1> QED
  BY <1>1, <1>2, <1>3

\* A step that leaves what the main loop has done leaves the state it has come to.
LEMMA HandleKept ==
  ASSUME pc # "idle", pc' # "idle", UNCHANGED <<before, last, lastTime, delivered, gaveUp, j, n>>,
         NEW arg, NEW late, NEW q, AtHandle(arg, late, q)
  PROVE  AtHandle(arg, late, q)'
<1> PICK l : l = Atomic!AfterTimeout(arg, late, q)
  OBVIOUS
<1> PICK m : m = last
  OBVIOUS
<1> PICK a : a = Forced(arg, late) \o Atomic!Run(l, m)
  OBVIOUS
<1>1. /\ m >= l /\ (\A x \in 1 .. j' : q[x] <= m)
      /\ \A s \in (l + 1) .. m : \E x \in 1 .. j' : q[x] = s
      /\ delivered' = before.delivered \o a
      /\ gaveUp' = before.gaveUp \cup Atomic!Reasons(arg, late, q)
      /\ lastTime' = Atomic!TimeAfter(arg, a, m) \/ (j' = 0 /\ n' > 0 /\ q[1] = m + 1)
  BY DEF AtHandle
<1>2. /\ pc # "idle" /\ pc' # "idle" /\ before' = before /\ last' = m
      /\ l = Atomic!AfterTimeout(arg, late, q) /\ a = Forced(arg, late) \o Atomic!Run(l, m)
  OBVIOUS
<1> QED
  BY ONLY <1>1, <1>2, HandleStays, Zenon

\* A turn of the main loop, or its end.
LEMMA HandleRefines ==
  ASSUME IInv, IInv', RefinementInv, Handle, NEW arg \in SeqNos \cup {NoPacket}, NEW late \in BOOLEAN,
         Called(arg), NEW q \in Atomic!QSort(Atomic!Held(arg, late)), Len(q) = n, q = Buffered,
         AtHandle(arg, late, q)
  PROVE  StreamOK' /\ CallOK(arg)'
<1>1. /\ pc = "handle" /\ pc' \in {"handle", "shift"}
      /\ UNCHANGED <<timeoutrecv, phase, received, gaveUp, slots, n, heap, pd, forced, before>>
  BY DEF Handle, memory
<1>2. /\ n \in Nat /\ j \in Nat /\ j <= n
      /\ \A k \in 0 .. (n - 1) : heap[slots[k]] = q[k + 1] /\ q[k + 1] \in Nat
      /\ last \in Nat \cup {-1} /\ delivered \in Seq(SeqNos)
  <2>1. n \in Nat /\ j \in Nat /\ j <= n
    BY <1>1, Facts DEF IInv, PlacesOK
  <2>2. \A k \in 0 .. (n - 1) : heap[slots[k]] = q[k + 1]
    BY <1>1, BufferedIs DEF IInv, PlacesOK
  <2>3. \A x \in 1 .. n : q[x] \in Nat
    BY <1>1, StartIs
  <2>4. \A k \in 0 .. (n - 1) : k + 1 \in 1 .. n
    BY <2>1
  <2> QED
    BY <2>1, <2>2, <2>3, <2>4 DEF RefinementInv, StreamOK
<1>3. j < n => SeqNo(j) = q[j + 1] /\ q[j + 1] \in Nat /\ (SeqNo(j) \in SeqNos)
  <2>1. j < n => j \in 0 .. (n - 1)
    BY <1>2
  <2>2. \A k \in 0 .. (n - 1) : heap[slots[k]] \in SeqNos
    BY <1>1, LivePackets DEF IInv, PlacesOK
  <2> QED
    BY <1>2, <2>1, <2>2 DEF SeqNo
<1> PICK l : l = Atomic!AfterTimeout(arg, late, q)
  OBVIOUS
<1> PICK a : a = Forced(arg, late) \o Atomic!Run(l, last)
  OBVIOUS
<1>4. l \in Nat \cup {-1}
  <2>1. Atomic!AfterTimeout(arg, late, q) \in Nat \cup {-1}
    BY <1>1, StartIs
  <2> QED
    BY <2>1
<1>5. /\ last >= l /\ (\A x \in 1 .. j : q[x] <= last)
      /\ \A s \in (l + 1) .. last : \E x \in 1 .. j : q[x] = s
      /\ delivered = before.delivered \o a
      /\ gaveUp = before.gaveUp \cup Atomic!Reasons(arg, late, q)
      /\ lastTime = Atomic!TimeAfter(arg, a, last) \/ (j = 0 /\ n > 0 /\ q[1] = last + 1)
  BY DEF AtHandle
<1>6. /\ pc # "idle" /\ pc' # "idle" /\ before' = before
      /\ gaveUp' = before.gaveUp \cup Atomic!Reasons(arg, late, q)
      /\ q \in Atomic!QSort(Atomic!Held(arg, late))' /\ Len(q) = n' /\ q = Buffered'
  BY <1>1, <1>5, SameSort DEF Buffered
<1>7. CASE j < n /\ SeqNo(j) - last <= 0
  <2>1. pc' = "handle" /\ j' = j + 1 /\ UNCHANGED <<last, lastTime, delivered>>
    BY <1>2, <1>3, <1>7 DEF Handle
  <2> PICK m : m = last
    OBVIOUS
  <2>2. q[j + 1] <= m /\ m \in Int
    BY <1>2, <1>3, <1>7
  <2>3. (\A x \in 1 .. j : q[x] <= m) /\ \A s \in (l + 1) .. m : \E x \in 1 .. j : q[x] = s
    BY <1>5
  <2>4. (\A x \in 1 .. j' : q[x] <= m) /\ \A s \in (l + 1) .. m : \E x \in 1 .. j' : q[x] = s
    <3>1. \A x \in 1 .. j' : x \in 1 .. j \/ x = j + 1
      BY <1>2, <2>1
    <3>2. \A x \in 1 .. j : x \in 1 .. j'
      BY <1>2, <2>1
    <3> QED
      BY <2>2, <2>3, <3>1, <3>2
  <2>5. ~(j = 0 /\ q[1] = last + 1)
    <3>1. j = 0 => q[1] <= m
      BY <2>2
    <3> QED
      BY <2>2, <3>1
  <2>6. /\ delivered' = before.delivered \o a /\ lastTime' = Atomic!TimeAfter(arg, a, m)
        /\ last' = m /\ m >= l /\ a = Forced(arg, late) \o Atomic!Run(l, m)
    BY <1>5, <2>1, <2>5
  <2>7. AtHandle(arg, late, q)'
    <3>1. l = Atomic!AfterTimeout(arg, late, q)
      OBVIOUS
    <3>2. /\ pc # "idle" /\ pc' # "idle" /\ before' = before
          /\ last' = m /\ m >= l /\ l = Atomic!AfterTimeout(arg, late, q)
          /\ a = Forced(arg, late) \o Atomic!Run(l, m)
          /\ delivered' = before.delivered \o a
          /\ gaveUp' = before.gaveUp \cup Atomic!Reasons(arg, late, q)
          /\ lastTime' = Atomic!TimeAfter(arg, a, m) \/ (j' = 0 /\ n' > 0 /\ q[1] = m + 1)
      BY <1>6, <2>6, <3>1
    <3>3. (\A x \in 1 .. j' : q[x] <= m) /\ \A s \in (l + 1) .. m : \E x \in 1 .. j' : q[x] = s
      BY <2>4
    <3> QED
      BY ONLY <3>2, <3>3, HandleStays, Zenon
  <2>8. StreamOK'
    BY <1>1, <1>2, <2>1 DEF RefinementInv, StreamOK
  <2> QED
    BY <1>6, <2>1, <2>7, <2>8 DEF CallOK
<1>8. CASE j < n /\ SeqNo(j) - last = 1
  <2>1. /\ pc' = "handle" /\ j' = j + 1 /\ delivered' = Append(delivered, SeqNo(j)) /\ last' = SeqNo(j)
        /\ lastTime' = EndTime(SeqNo(j))
    BY <1>2, <1>3, <1>8 DEF Handle, HandlePacket
  <2> PICK o : o = last
    OBVIOUS
  <2> PICK m : m = last + 1
    OBVIOUS
  <2>2. /\ m = o + 1 /\ o \in Int /\ m \in Nat /\ o >= l /\ l \in Int
        /\ q[j + 1] = m /\ SeqNo(j) = m /\ m \in SeqNos
    <3>1. last \in Int /\ l \in Int /\ last >= l /\ m = last + 1 /\ o = last
      BY <1>2, <1>4, <1>5
    <3>2. SeqNo(j) = q[j + 1] /\ SeqNo(j) \in Nat /\ SeqNo(j) \in SeqNos /\ SeqNo(j) - last = 1
      BY <1>3, <1>8
    <3>3. SeqNo(j) = m
      BY ONLY <3>1, <3>2
    <3> QED
      BY ONLY <3>1, <3>2, <3>3
  <2>3. (\A x \in 1 .. j : q[x] <= o) /\ \A s \in (l + 1) .. o : \E x \in 1 .. j : q[x] = s
    BY <1>5
  <2>4. /\ \A x \in 1 .. j' : x \in 1 .. j \/ x = j + 1
        /\ \A x \in 1 .. j : x \in 1 .. j' /\ q[x] \in Int
        /\ j + 1 \in 1 .. j'
    <3>1. (\A x \in 1 .. j : x \in 1 .. n)
      BY <1>2
    <3>2. \A x \in 1 .. n : q[x] \in Nat
      BY <1>1, StartIs
    <3> QED
      BY <1>2, <2>1, <3>1, <3>2
  <2>5. \A x \in 1 .. j' : q[x] <= m
    <3>1. \A x \in 1 .. j : q[x] <= m
      BY <2>2, <2>3, <2>4
    <3> QED
      BY <2>2, <2>4, <3>1
  <2>6. \A s \in (l + 1) .. m : \E x \in 1 .. j' : q[x] = s
    <3>1. \A s \in (l + 1) .. m : s \in (l + 1) .. o \/ s = m
      BY <2>2
    <3> QED
      BY <2>2, <2>3, <2>4, <3>1
  <2> PICK b : b = Forced(arg, late) \o Atomic!Run(l, m)
    OBVIOUS
  <2>7. b = Append(a, m) /\ b # <<>> /\ a \in Seq(Int)
    <3> DEFINE u == Forced(arg, late)
               v == Atomic!Run(l, o)
    <3>1. a = u \o v
      OBVIOUS
    <3>2. u \in Seq(SeqNos)
      BY <1>6, ForcedIs
    <3>3. v \in Seq(Int) /\ b = u \o Append(v, m) /\ m \in Int
      <4>1. v \in Seq(Int) /\ Atomic!Run(l, o + 1) = Append(v, o + 1)
        BY <2>2, RunIs
      <4>2. m = o + 1 /\ m \in Int
        BY <2>2
      <4>3. b = u \o Atomic!Run(l, m)
        OBVIOUS
      <4> QED
        BY ONLY <4>1, <4>2, <4>3
    <3>4. u \in Seq(Int)
      BY <3>2, Numbers
    <3> HIDE DEF u, v
    <3>5. u \o Append(v, m) = Append(u \o v, m) /\ Append(u \o v, m) # <<>> /\ u \o v \in Seq(Int)
      BY ONLY <3>3, <3>4, AppendToConcat
    <3> QED
      BY ONLY <3>1, <3>3, <3>5
  <2>8. delivered' = before.delivered \o b
    <3> DEFINE u == before.delivered
    <3>1. u \in Seq(SeqNos)
      BY DEF Called
    <3>2. u \in Seq(Int) /\ m \in Int
      <4>1. m \in Int
        BY <2>2
      <4>2. u \in Seq(Int)
        BY <3>1, Numbers
      <4> QED
        BY <4>1, <4>2
    <3>3. a \in Seq(Int)
      BY <2>7
    <3> HIDE DEF u
    <3>4. u \o Append(a, m) = Append(u \o a, m)
      BY ONLY <3>2, <3>3, AppendToConcat
    <3>5. delivered = u \o a
      BY <1>5 DEF u
    <3>6. delivered' = u \o b
      BY <2>1, <2>2, <2>7, <3>4, <3>5
    <3> QED
      BY <3>6 DEF u
  <2>9. lastTime' = Atomic!TimeAfter(arg, b, m) /\ last' = m /\ m >= l
    <3>1. Atomic!TimeAfter(arg, b, m) = EndTime(m)
      BY <2>7 DEF Atomic!TimeAfter, EndTime, StartTime, Atomic!EndTime, Atomic!StartTime
    <3> QED
      BY <2>1, <2>2, <3>1
  <2>10. AtHandle(arg, late, q)'
    <3>1. l = Atomic!AfterTimeout(arg, late, q) /\ b = Forced(arg, late) \o Atomic!Run(l, m)
      OBVIOUS
    <3>2. /\ pc # "idle" /\ pc' # "idle" /\ before' = before
          /\ last' = m /\ m >= l /\ l = Atomic!AfterTimeout(arg, late, q)
          /\ b = Forced(arg, late) \o Atomic!Run(l, m)
          /\ delivered' = before.delivered \o b
          /\ gaveUp' = before.gaveUp \cup Atomic!Reasons(arg, late, q)
          /\ lastTime' = Atomic!TimeAfter(arg, b, m) \/ (j' = 0 /\ n' > 0 /\ q[1] = m + 1)
      BY <1>6, <2>8, <2>9, <3>1
    <3>3. (\A x \in 1 .. j' : q[x] <= m) /\ \A s \in (l + 1) .. m : \E x \in 1 .. j' : q[x] = s
      BY <2>5, <2>6
    <3> QED
      BY ONLY <3>2, <3>3, HandleStays, Zenon
  <2>11. StreamOK'
    <3>1. delivered' \in Seq(SeqNos)
      BY <1>2, <2>1, <2>2
    <3> QED
      BY <1>1, <2>1, <2>2, <3>1 DEF RefinementInv, StreamOK
  <2> QED
    BY <1>6, <2>1, <2>10, <2>11 DEF CallOK
<1>9. CASE j < n => SeqNo(j) - last > 1
  <2>1. pc' = "shift" /\ i' = 0 /\ UNCHANGED <<j, last, lastTime, delivered>>
    BY <1>2, <1>3, <1>9 DEF Handle
  <2>2. j < n => q[j + 1] > last + 1
    <3>1. last \in Int
      BY <1>2
    <3>2. j < n => q[j + 1] \in Int /\ q[j + 1] - last > 1
      BY <1>3, <1>9
    <3> QED
      BY ONLY <3>1, <3>2
  <2>3. AtHandle(arg, late, q)'
    <3>1. UNCHANGED <<before, last, lastTime, delivered, gaveUp, j, n>>
      BY <1>1, <1>5, <2>1
    <3> QED
      BY <1>6, <3>1, HandleKept
  <2>4. AtShift(q)'
    <3>1. \A k \in 0 .. (n' - 1) : ~(k < i') /\ heap'[slots'[k]] = q[k + 1]
      BY <1>1, <1>2, <2>1
    <3>2. j' < n' => q[j' + 1] > last' + 1
      BY <1>1, <2>1, <2>2
    <3> QED
      BY <3>1, <3>2 DEF AtShift
  <2>5. StreamOK'
    BY <1>1, <1>2, <2>1 DEF RefinementInv, StreamOK
  <2> QED
    BY <1>6, <2>1, <2>3, <2>4, <2>5 DEF CallOK
<1> QED
  <2>1. j < n => SeqNo(j) - last \in Int
    BY <1>2, <1>3
  <2>2. j < n => SeqNo(j) - last <= 0 \/ SeqNo(j) - last = 1 \/ SeqNo(j) - last > 1
    BY <2>1
  <2> QED
    BY <1>7, <1>8, <1>9, <2>2

\* A turn of the loop that shifts.
LEMMA ShiftRefines ==
  ASSUME IInv, IInv', RefinementInv, Shift, j > 0, i < n,
         NEW arg \in SeqNos \cup {NoPacket}, NEW late \in BOOLEAN,
         Called(arg), NEW q \in Atomic!QSort(Atomic!Held(arg, late)), Len(q) = n,
         AtHandle(arg, late, q), AtShift(q)
  PROVE  StreamOK' /\ CallOK(arg)'
<1>1. /\ pc = "shift" /\ pc' = "shift" /\ n' = n /\ i' = i + 1
      /\ UNCHANGED <<timeoutrecv, phase, last, lastTime, received, delivered, gaveUp, pd, j, forced, before>>
      /\ n \in Nat /\ i \in Nat /\ j \in Nat
  BY ShiftTurn, Facts DEF Shift
<1>2. \A k \in 0 .. (n - 1) : slots[k] # Null /\ k # i => heap'[slots[k]] = heap[slots[k]]
  <2>1. ASSUME NEW k \in 0 .. (n - 1), slots[k] # Null, k # i
        PROVE  heap'[slots[k]] = heap[slots[k]]
    <3>1. CASE i < j
      <4>1. heap' = [heap EXCEPT ![slots[i]] = NotAllocated] /\ i \in 0 .. (n - 1)
        BY <3>1, ShiftTurn
      <4>2. slots[k] # slots[i] /\ slots[k] \in Addresses
        BY <2>1, <4>1, LivePackets DEF IInv, DistinctOK
      <4> QED
        BY <4>1, <4>2, Facts
    <3>2. CASE ~(i < j)
      BY <3>2, ShiftTurn
    <3> QED
      BY <3>1, <3>2
  <2> QED
    BY <2>1
<1>3. \A k \in 0 .. (n - 1) :
        slots[k] # Null <=> (k < i /\ k < n - j) \/ (i <= k /\ k < j) \/ i + j <= k
  BY <1>1 DEF IInv, PlacesOK
<1>4. \A k \in 0 .. (n - 1) :
        /\ k < i /\ k < n - j => heap[slots[k]] = q[k + j + 1]
        /\ i + j <= k => heap[slots[k]] = q[k + 1]
  BY DEF AtShift
<1>5. ASSUME NEW k \in 0 .. (n - 1)
      PROVE  /\ k < i' /\ k < n - j => heap'[slots'[k]] = q[k + j + 1]
             /\ i' + j <= k => heap'[slots'[k]] = q[k + 1]
  <2>1. CASE k = i
    <3>1. ~(i' + j <= k)
      BY <1>1, <2>1
    <3>2. ASSUME k < n - j
          PROVE  heap'[slots'[k]] = q[k + j + 1]
      <4>1. i + j < n /\ i + j \in 0 .. (n - 1) /\ i + j # i /\ i + j <= i + j
        BY <1>1, <2>1, <3>2, ShiftTurn
      <4>2. slots'[k] = slots[i + j]
        BY <2>1, <4>1, ShiftTurn
      <4>3. slots[i + j] # Null /\ heap[slots[i + j]] = q[(i + j) + 1]
        BY <1>3, <1>4, <4>1
      <4> QED
        BY <1>2, <2>1, <4>1, <4>2, <4>3
    <3> QED
      BY <3>1, <3>2
  <2>2. CASE k # i
    <3>1. k < i' => k < i
      BY <1>1, <2>2
    <3>2. i' + j <= k => i + j <= k /\ k # i + j
      BY <1>1
    <3>3. k < i => k # i + j
      BY <1>1
    <3>4. k # i + j => slots'[k] = slots[k]
      BY <2>2, ShiftTurn
    <3>5. k < i /\ k < n - j => heap'[slots'[k]] = q[k + j + 1]
      BY <1>2, <1>3, <1>4, <2>2, <3>3, <3>4
    <3>6. i' + j <= k => heap'[slots'[k]] = q[k + 1]
      BY <1>2, <1>3, <1>4, <2>2, <3>2, <3>4
    <3> QED
      BY <3>1, <3>5, <3>6
  <2> QED
    BY <2>1, <2>2
<1>6. AtShift(q)'
  <2>1. j' < n' => q[j' + 1] > last' + 1
    BY <1>1 DEF AtShift
  <2> QED
    BY <1>1, <1>5, <2>1 DEF AtShift
<1>7. AtHandle(arg, late, q)'
  <2>1. pc # "idle" /\ pc' # "idle" /\ UNCHANGED <<before, last, lastTime, delivered, gaveUp, j, n>>
    BY <1>1
  <2> QED
    BY <2>1, HandleKept
<1>8. StreamOK'
  BY <1>1 DEF RefinementInv, StreamOK
<1>9. q \in Atomic!QSort(Atomic!Held(arg, late))' /\ Len(q) = n'
  BY <1>1, SameSort
<1> QED
  BY <1>1, <1>6, <1>7, <1>8, <1>9 DEF CallOK

\* The packets kept are those of the array sorted that the main loop did not take.
LEMMA KeptIs ==
  ASSUME IInv, pc = "shift", j = 0 \/ i >= n, NEW q \in Seq(SeqNos), Len(q) = n, AtShift(q)
  PROVE  [k \in 1 .. (n - j) |-> heap[slots[k - 1]]] = SubSeq(q, j + 1, Len(q))
<1>1. n \in Nat /\ i \in Nat /\ j \in Nat /\ j <= n
  BY Facts DEF IInv, PlacesOK
<1>2. PICK m \in Nat : m = n - j
  BY <1>1
<1> DEFINE b == [k \in 1 .. m |-> heap[slots[k - 1]]]
           t == SubSeq(q, j + 1, Len(q))
<1>3. \A k \in 1 .. m : k + j \in 1 .. Len(q) /\ q[k + j] \in SeqNos /\ (j + 1) + k - 1 = k + j
  BY <1>1, <1>2
<1>4. t \in Seq(SeqNos) /\ Len(t) = m /\ \A k \in 1 .. m : t[k] = q[k + j]
  <2>1. /\ j + 1 \in Int /\ n \in Int /\ (\A x \in (j + 1) .. n : q[x] \in SeqNos)
        /\ (IF j + 1 <= n THEN n - (j + 1) + 1 ELSE 0) = m /\ n - (j + 1) + 1 = m
    BY <1>1, <1>2
  <2>2. /\ SubSeq(q, j + 1, n) \in Seq(SeqNos)
        /\ Len(SubSeq(q, j + 1, n)) = IF j + 1 <= n THEN n - (j + 1) + 1 ELSE 0
        /\ \A x \in 1 .. (n - (j + 1) + 1) : SubSeq(q, j + 1, n)[x] = q[(j + 1) + x - 1]
    BY ONLY <2>1, SubSeqProperties
  <2> QED
    BY <1>3, <2>1, <2>2
<1>5. \A k \in 1 .. m : heap[slots[k - 1]] = q[k + j]
  <2>1. ASSUME NEW k \in 1 .. m
        PROVE  heap[slots[k - 1]] = q[k + j]
    <3>1. k - 1 \in 0 .. (n - 1) /\ (k - 1) + 1 = k /\ (k - 1) + j + 1 = k + j /\ k - 1 < n - j
      BY <1>1, <1>2
    <3>2. /\ k - 1 < i => heap[slots[k - 1]] = q[k + j]
          /\ i + j <= k - 1 => heap[slots[k - 1]] = q[k]
      BY <3>1 DEF AtShift
    <3>3. k - 1 < i \/ (j = 0 /\ i + j <= k - 1 /\ k = k + j)
      BY <1>1, <1>2
    <3> QED
      BY <3>2, <3>3
  <2> QED
    BY <2>1
<1>6. b \in Seq(SeqNos) /\ Len(b) = m /\ \A k \in 1 .. m : b[k] = t[k]
  <2> HIDE DEF t
  <2>1. \A k \in 1 .. m : heap[slots[k - 1]] = t[k] /\ heap[slots[k - 1]] \in SeqNos
    BY ONLY <1>3, <1>4, <1>5
  <2>2. b \in Seq(SeqNos) /\ Len(b) = m
    <3>1. m \in Nat /\ \A k \in 1 .. m : heap[slots[k - 1]] \in SeqNos
      BY <2>1
    <3>2. b \in [1 .. m -> SeqNos]
      BY ONLY <3>1
    <3> QED
      BY ONLY <3>1, <3>2
  <2>3. \A k \in 1 .. m : b[k] = heap[slots[k - 1]]
    OBVIOUS
  <2> QED
    BY ONLY <2>1, <2>2, <2>3
<1> HIDE DEF b, t
<1>7. b = t
  BY ONLY <1>4, <1>6, SeqEqual
<1> QED
  BY <1>2, <1>7 DEF b, t

\* The return of the call is the step of RawStream.
LEMMA ReturnRefines ==
  ASSUME IInv, RefinementInv, Shift, j = 0 \/ i >= n,
         NEW arg \in SeqNos \cup {NoPacket}, NEW late \in BOOLEAN,
         Called(arg), NEW q \in Atomic!QSort(Atomic!Held(arg, late)), Len(q) = n,
         AtHandle(arg, late, q), AtShift(q)
  PROVE  StreamOK' /\ Atomic!Next
<1>1. /\ pc = "shift" /\ n \in Nat /\ i \in Nat /\ j \in Nat /\ j <= n
      /\ last \in Nat \cup {-1} /\ delivered \in Seq(SeqNos) /\ phase # "freed"
  BY Facts DEF Shift, IInv, PlacesOK, RefinementInv, StreamOK
<1>2. /\ pc' = "idle" /\ n' = n - j
      /\ UNCHANGED <<timeoutrecv, phase, last, lastTime, received, delivered, gaveUp, slots, heap>>
  BY <1>1 DEF Shift
<1>3. q \in Seq(SeqNos) /\ \A x \in 1 .. n : q[x] \in Nat
  BY <1>1, StartIs
<1> DEFINE l == Atomic!AfterTimeout(arg, late, q)
<1>4. l \in Nat \cup {-1} /\ (l = -1 /\ n > 0 => q[1] = 0)
  BY <1>1, StartIs
<1>5. /\ last >= l /\ (\A x \in 1 .. j : q[x] <= last)
      /\ \A s \in (l + 1) .. last : \E x \in 1 .. j : q[x] = s
      /\ delivered = before.delivered \o (Forced(arg, late) \o Atomic!Run(l, last))
      /\ gaveUp = before.gaveUp \cup Atomic!Reasons(arg, late, q)
      /\ \/ lastTime = Atomic!TimeAfter(arg, Forced(arg, late) \o Atomic!Run(l, last), last)
         \/ j = 0 /\ n > 0 /\ q[1] = last + 1
  BY DEF AtHandle
<1>6. j < n => q[j + 1] > last + 1
  BY DEF AtShift
<1>7. /\ Visible = before /\ Visible' = Abstract'
      /\ before.timeoutrecv = timeoutrecv /\ before.phase = "receiving"
  BY <1>1, <1>2 DEF Visible, Called
<1>8. /\ Visible'.timeoutrecv = timeoutrecv /\ Visible'.phase = phase /\ Visible'.last = last
      /\ Visible'.lastTime = lastTime /\ Visible'.received = received /\ Visible'.delivered = delivered
      /\ Visible'.gaveUp = gaveUp /\ Visible'.pdlist = SubSeq(q, j + 1, Len(q))
  <2>1. Buffered' = SubSeq(q, j + 1, Len(q))
    <3>1. Buffered' = [k \in 1 .. (n - j) |-> heap[slots[k - 1]]]
      BY <1>2 DEF Buffered
    <3>2. [k \in 1 .. (n - j) |-> heap[slots[k - 1]]] = SubSeq(q, j + 1, Len(q))
      BY <1>1, <1>3, KeptIs
    <3> QED
      BY <3>1, <3>2
  <2> QED
    BY <1>2, <1>7, <2>1 DEF Abstract
<1>9. StreamOK'
  <2>1. last = -1 => n' = 0
    <3>1. SUFFICES ASSUME last = -1 PROVE n' = 0
      OBVIOUS
    <3>2. j = 0
      <4>1. 1 \in 1 .. j => q[1] <= -1 /\ q[1] \in Nat
        BY <1>1, <1>3, <1>5, <3>1
      <4> QED
        BY <1>1, <4>1
    <3>3. l = -1
      BY <1>4, <1>5, <3>1
    <3>4. n > 0 => q[1] > 0 /\ q[1] = 0
      BY <1>4, <1>6, <3>1, <3>2, <3>3
    <3> QED
      BY <1>1, <1>2, <3>2, <3>4
  <2> QED
    BY <1>1, <1>2, <2>1 DEF StreamOK
<1> DEFINE handled == Forced(arg, late) \o Atomic!Run(l, last)
<1>10. lastTime = Atomic!TimeAfter(arg, handled, last)
  <2>1. ~(j = 0 /\ n > 0 /\ q[1] = last + 1)
    <3>1. j = 0 /\ n > 0 => q[1] > last + 1
      BY <1>6
    <3>2. last + 1 \in Int
      BY <1>1
    <3> QED
      BY <3>1, <3>2
  <2> QED
    BY <1>5, <2>1
<1>11. Atomic!Drains(q, l, j, last)
  BY <1>5, <1>6 DEF Atomic!Drains
<1>12. Atomic!ManageTo(arg, late, q, j, last)
  <2>1. handled = (IF Atomic!ForceHandles(arg, late) THEN <<Head(Visible.pdlist)>> ELSE <<>>) \o Atomic!Run(l, last)
    BY <1>7 DEF Forced
  <2>2. /\ Visible'.delivered = Visible.delivered \o handled
        /\ Visible'.lastTime = Atomic!TimeAfter(arg, handled, last)
        /\ Visible'.gaveUp = Visible.gaveUp \cup Atomic!Reasons(arg, late, q)
        /\ Visible'.last = last /\ Visible'.timeoutrecv = Visible.timeoutrecv
    BY <1>5, <1>7, <1>8, <1>10
  <2> HIDE DEF handled, l
  <2> QED
    BY <1>8, <1>11, <2>1, <2>2 DEF Atomic!ManageTo, l
<1>13. Atomic!Manage(arg, late)
  <2>1. j \in 0 .. Len(q)
    BY <1>1
  <2>2. last = l \/ \E x \in 1 .. j : last = q[x]
    <3>1. last = l \/ last \in (l + 1) .. last
      BY <1>1, <1>4, <1>5
    <3> QED
      BY <1>5, <3>1
  <2>3. last \in {l} \cup {q[x] : x \in 1 .. j}
    BY <2>2
  <2> QED
    BY <1>12, <2>1, <2>3 DEF Atomic!Manage
<1>14. CASE arg \in SeqNos /\ phase = "receiving" /\ before.received[arg] < MaxCopies
            /\ received = [before.received EXCEPT ![arg] = @ + 1]
  <2>1. Atomic!ReceivePacket(arg)
    BY <1>7, <1>8, <1>13, <1>14 DEF Atomic!ReceivePacket
  <2> QED
    BY <1>9, <1>14, <2>1 DEF Atomic!Next
<1>15. CASE /\ arg = NoPacket /\ received = before.received /\ phase = "receiving" /\ timeoutrecv > 0
            /\ \E s \in SeqNos : received[s] > 0
  <2>1. Atomic!Timeout
    BY <1>7, <1>8, <1>13, <1>15 DEF Atomic!Timeout, NoPacket, Atomic!NoPacket
  <2> QED
    BY <1>9, <2>1 DEF Atomic!Next
<1>16. CASE arg = NoPacket /\ received = before.received /\ phase = "flushed"
  <2>1. Atomic!Flush
    BY <1>7, <1>8, <1>13, <1>16 DEF Atomic!Flush, NoPacket, Atomic!NoPacket
  <2> QED
    BY <1>9, <2>1 DEF Atomic!Next
<1> QED
  BY <1>14, <1>15, <1>16 DEF Called

\* nmxp_raw_stream_free() and nmxp_raw_stream_init() are one step each.
LEMMA FreeRefines ==
  ASSUME IInv, RefinementInv, FreeStream
  PROVE  RefinementInv' /\ Atomic!Free
<1>1. /\ pc = "idle" /\ pc' = "idle" /\ phase = "flushed" /\ phase' = "freed" /\ n' = 0
      /\ UNCHANGED <<timeoutrecv, last, lastTime, received, delivered, gaveUp>>
  BY DEF FreeStream, call
<1>2. Buffered' = <<>>
  BY <1>1 DEF Buffered
<1>3. Visible = Abstract /\ Visible' = Abstract'
  BY <1>1 DEF Visible
<1>4. Atomic!Free
  BY <1>1, <1>2, <1>3 DEF Atomic!Free, Abstract
<1>5. RefinementInv'
  BY <1>1 DEF RefinementInv, StreamOK
<1> QED
  BY <1>4, <1>5

LEMMA InitStreamRefines ==
  ASSUME IInv, RefinementInv, InitStream
  PROVE  RefinementInv' /\ Atomic!Reconnect
<1>1. /\ pc = "idle" /\ pc' = "idle" /\ phase = "freed" /\ phase' = "receiving" /\ n' = n /\ n = 0
      /\ last' = -1 /\ lastTime' = -1 /\ received' = [s \in SeqNos |-> 0] /\ delivered' = <<>> /\ gaveUp' = {}
      /\ UNCHANGED timeoutrecv
  BY DEF InitStream, call, memory, RefinementInv, StreamOK
<1>2. Buffered' = <<>>
  BY <1>1 DEF Buffered
<1>3. Visible = Abstract /\ Visible' = Abstract'
  BY <1>1 DEF Visible
<1>4. Atomic!Reconnect
  BY <1>1, <1>2, <1>3 DEF Atomic!Reconnect, Atomic!NoneReceived, Abstract
<1>5. RefinementInv'
  BY <1>1 DEF RefinementInv, StreamOK
<1> QED
  BY <1>4, <1>5

LEMMA StutterRefines ==
  ASSUME IInv, RefinementInv, UNCHANGED vars
  PROVE  RefinementInv' /\ UNCHANGED Visible
<1>1. Abstract' = Abstract
  BY DEF vars, memory, call, Abstract, Buffered
<1>2. Visible' = Visible
  BY <1>1 DEF vars, call, Visible
<1>3. StreamOK'
  BY DEF vars, memory, call, RefinementInv, StreamOK
<1>4. ASSUME NEW arg \in SeqNos \cup {NoPacket}, pc # "idle", Called(arg), CallOK(arg)
      PROVE  Called(arg)' /\ CallOK(arg)'
  <2>1. Called(arg)'
    BY <1>4, CallStays DEF vars, memory, call
  <2>2. pc # "idle" /\ pc' = pc /\ pc' # "idle" /\ UNCHANGED before
    BY <1>4 DEF vars, call
  <2>3. CASE pc = "force" /\ AtForce(arg)
    <3>1. Atomic!Started(arg)' = Atomic!Started(arg) /\ Atomic!FirstTime(arg)' = Atomic!FirstTime(arg)
      BY <2>2, SameCall
    <3>2. AtForce(arg)'
      BY <2>3, <3>1 DEF AtForce, vars, memory, call, Buffered
    <3> QED
      BY <2>1, <2>2, <2>3, <3>2 DEF CallOK
  <2>4. ASSUME pc \in {"compact", "sort"}, NEW late \in BOOLEAN, AtSort(arg, late)
        PROVE  AtSort(arg, late)'
    <3>1. /\ Atomic!FirstTime(arg)' = Atomic!FirstTime(arg) /\ Atomic!MustForce(late)' = Atomic!MustForce(late)
          /\ Atomic!ForceHandles(arg, late)' = Atomic!ForceHandles(arg, late)
          /\ Atomic!AfterForce(arg, late)' = Atomic!AfterForce(arg, late)
          /\ Atomic!Held(arg, late)' = Atomic!Held(arg, late) /\ Forced(arg, late)' = Forced(arg, late)
      BY <2>2, SameCall
    <3>2. Live' = Live
      BY DEF vars, memory, Live
    <3> QED
      BY <2>4, <3>1, <3>2 DEF AtSort, vars, memory, call
  <2>5. ASSUME NEW late \in BOOLEAN, NEW q \in Atomic!QSort(Atomic!Held(arg, late)),
               Len(q) = n /\ AtHandle(arg, late, q),
               (pc = "handle" /\ q = Buffered) \/ (pc = "shift" /\ AtShift(q))
        PROVE  CallOK(arg)'
    <3>1. UNCHANGED <<before, last, lastTime, delivered, gaveUp, j, n>>
      BY DEF vars, memory, call
    <3>2. AtHandle(arg, late, q)'
      BY <2>2, <2>5, <3>1, HandleKept
    <3>3. q \in Atomic!QSort(Atomic!Held(arg, late))' /\ Len(q) = n'
      BY <2>2, <2>5, <3>1, SameSort
    <3>4. (pc' = "handle" /\ q = Buffered') \/ (pc' = "shift" /\ AtShift(q)')
      BY <2>5 DEF vars, memory, call, Buffered, AtShift
    <3> QED
      BY <3>2, <3>3, <3>4 DEF CallOK
  <2> QED
    BY <1>4, <2>1, <2>2, <2>3, <2>4, <2>5 DEF CallOK
<1> QED
  <2>1. pc' = pc
    BY DEF vars, call
  <2> QED
    BY <1>2, <1>3, <1>4, <2>1 DEF RefinementInv

LEMMA NextRefines ==
  ASSUME IInv, IInv', RefinementInv, [Next]_vars
  PROVE  RefinementInv' /\ [Atomic!Next]_(Atomic!vars)
<1>1. UNCHANGED Visible => UNCHANGED Atomic!vars
  BY DEF Atomic!vars
<1>2. CASE UNCHANGED vars
  BY <1>1, <1>2, StutterRefines
<1>3. ASSUME NEW s \in SeqNos, CallWithPacket(s)
      PROVE  RefinementInv' /\ UNCHANGED Visible
  <2>1. s \in SeqNos \cup {NoPacket} /\ s # NoPacket
    BY Numbers DEF NoPacket
  <2>2. Enter /\ UNCHANGED <<slots, n, delivered, gaveUp>>
    BY <1>3 DEF CallWithPacket
  <2> QED
    BY <1>3, <2>1, <2>2, CallRefines
<1>4. ASSUME CallTimeout \/ CallFlush
      PROVE  RefinementInv' /\ UNCHANGED Visible
  <2> DEFINE arg == NoPacket
  <2>1. /\ Enter /\ UNCHANGED <<slots, n, delivered, gaveUp>>
        /\ pd' = Null /\ UNCHANGED <<last, lastTime, received, heap>>
    BY <1>4 DEF CallTimeout, CallFlush, CallWithNull, memory
  <2>2. \/ phase = "receiving" /\ phase' = "receiving" /\ timeoutrecv > 0 /\ \E s \in SeqNos : received[s] > 0
        \/ phase = "receiving" /\ phase' = "flushed"
    BY <1>4 DEF CallTimeout, CallFlush
  <2>3. arg \in SeqNos \cup {NoPacket} /\ arg = NoPacket
    OBVIOUS
  <2> QED
    BY <2>1, <2>2, <2>3, CallRefines
<1>5. ASSUME pc # "idle", NEW arg \in SeqNos \cup {NoPacket}, Called(arg), CallOK(arg),
             ForceOrAdd \/ Compact \/ Sort \/ Handle \/ Shift
      PROVE  RefinementInv' /\ [Atomic!Next]_(Atomic!vars)
  <2>1. ASSUME pc' # "idle", UNCHANGED before, StreamOK', Called(arg)', CallOK(arg)'
        PROVE  RefinementInv' /\ [Atomic!Next]_(Atomic!vars)
    <3>1. UNCHANGED Visible
      BY <1>5, <2>1 DEF Visible
    <3> QED
      BY <1>1, <2>1, <3>1 DEF RefinementInv
  <2>2. CASE ForceOrAdd
    <3>1. /\ pc = "force" /\ pc' = "compact"
          /\ UNCHANGED <<before, timeoutrecv, phase, received, pd>>
      BY <2>2 DEF ForceOrAdd, ForceFirst, AddLast
    <3>2. AtForce(arg)
      BY <1>5, <3>1 DEF CallOK
    <3>3. PICK late \in BOOLEAN : (MustForce(late) /\ ForceFirst) \/ (~MustForce(late) /\ AddLast)
      BY <2>2 DEF ForceOrAdd
    <3>4. StreamOK' /\ AtSort(arg, late)'
      BY <1>5, <3>2, <3>3, ForceFirstRefines, AddLastRefines
    <3>5. Called(arg)'
      BY <1>5, <3>1, CallStays
    <3>6. CallOK(arg)'
      BY <3>1, <3>4 DEF CallOK
    <3> QED
      BY <2>1, <3>1, <3>4, <3>5, <3>6
  <2>3. CASE Compact
    <3>1. /\ pc = "compact" /\ pc' \in {"compact", "sort"}
          /\ UNCHANGED <<before, timeoutrecv, phase, received, pd>>
      BY <2>3 DEF Compact
    <3>2. PICK late \in BOOLEAN : AtSort(arg, late)
      BY <1>5, <3>1 DEF CallOK
    <3>3. StreamOK' /\ AtSort(arg, late)'
      BY <1>5, <2>3, <3>2, CompactRefines
    <3>4. Called(arg)'
      BY <1>5, <3>1, CallStays
    <3>5. CallOK(arg)'
      BY <3>1, <3>3 DEF CallOK
    <3> QED
      BY <2>1, <3>1, <3>3, <3>4, <3>5
  <2>4. CASE Sort
    <3>1. pc = "sort" /\ pc' = "handle" /\ UNCHANGED <<before, timeoutrecv, phase, received, pd>>
      BY <2>4 DEF Sort
    <3>2. PICK late \in BOOLEAN : AtSort(arg, late)
      BY <1>5, <3>1 DEF CallOK
    <3>3. StreamOK' /\ CallOK(arg)'
      BY <1>5, <2>4, <3>2, SortRefines
    <3>4. Called(arg)'
      BY <1>5, <3>1, CallStays
    <3> QED
      BY <2>1, <3>1, <3>3, <3>4
  <2>5. CASE Handle
    <3>1. /\ pc = "handle" /\ pc' \in {"handle", "shift"}
          /\ UNCHANGED <<before, timeoutrecv, phase, received, pd>>
      BY <2>5 DEF Handle
    <3>2. PICK late \in BOOLEAN : \E q \in Atomic!QSort(Atomic!Held(arg, late)) :
            Len(q) = n /\ AtHandle(arg, late, q) /\ q = Buffered
      BY <1>5, <3>1 DEF CallOK
    <3> PICK q \in Atomic!QSort(Atomic!Held(arg, late)) : Len(q) = n /\ AtHandle(arg, late, q) /\ q = Buffered
      BY <3>2
    <3>3. StreamOK' /\ CallOK(arg)'
      BY <1>5, <2>5, <3>2, HandleRefines
    <3>4. Called(arg)'
      BY <1>5, <3>1, CallStays
    <3> QED
      BY <2>1, <3>1, <3>3, <3>4
  <2>6. CASE Shift
    <3>1. pc = "shift" /\ UNCHANGED <<before, timeoutrecv, phase, received, pd>>
      BY <2>6 DEF Shift
    <3>2. PICK late \in BOOLEAN : \E q \in Atomic!QSort(Atomic!Held(arg, late)) :
            Len(q) = n /\ AtHandle(arg, late, q) /\ AtShift(q)
      BY <1>5, <3>1 DEF CallOK
    <3> PICK q \in Atomic!QSort(Atomic!Held(arg, late)) : Len(q) = n /\ AtHandle(arg, late, q) /\ AtShift(q)
      BY <3>2
    <3>3. CASE j > 0 /\ i < n
      <4>1. StreamOK' /\ CallOK(arg)'
        BY <1>5, <2>6, <3>2, <3>3, ShiftRefines
      <4>2. Called(arg)'
        BY <1>5, <3>1, CallStays
      <4>3. pc' = "shift"
        BY <2>6, <3>1, <3>3, ShiftTurn
      <4> QED
        BY <2>1, <3>1, <4>1, <4>2, <4>3
    <3>4. CASE j = 0 \/ i >= n
      <4>1. StreamOK' /\ Atomic!Next
        BY <1>5, <2>6, <3>2, <3>4, ReturnRefines
      <4>2. pc' = "idle"
        BY <2>6, <3>4, Facts DEF Shift
      <4> QED
        BY <4>1, <4>2 DEF RefinementInv
    <3> QED
      BY <3>3, <3>4, Facts
  <2> QED
    BY <1>5, <2>2, <2>3, <2>4, <2>5, <2>6
<1>6. CASE ForceOrAdd \/ Compact \/ Sort \/ Handle \/ Shift
  <2>1. pc # "idle"
    BY <1>6 DEF ForceOrAdd, ForceFirst, AddLast, Compact, Sort, Handle, Shift
  <2>2. PICK arg \in SeqNos \cup {NoPacket} : Called(arg) /\ CallOK(arg)
    BY <2>1 DEF RefinementInv
  <2> QED
    BY <1>5, <1>6, <2>1, <2>2
<1>7. CASE FreeStream
  BY <1>7, FreeRefines DEF Atomic!Next
<1>8. CASE InitStream
  BY <1>8, InitStreamRefines DEF Atomic!Next
<1> QED
  BY <1>1, <1>2, <1>3, <1>4, <1>6, <1>7, <1>8 DEF Next

\* The loops, the array of pointers and the heap of nmxp_raw_stream_manage()
\* implement RawStream, whose calls are one step each: whatever is shown of
\* RawStream holds of the state at every return.
THEOREM CallsAreAtomic == Spec => ImplementsRawStream
<1>1. Init => RefinementInv /\ Atomic!Init
  <2>1. SUFFICES ASSUME Init PROVE RefinementInv /\ Atomic!Init
    OBVIOUS
  <2>2. pc = "idle" /\ n = 0 /\ last = -1 /\ delivered = <<>> /\ phase = "receiving"
    BY <2>1 DEF Init
  <2>3. Buffered = <<>>
    BY <2>2 DEF Buffered
  <2>4. Visible = Abstract
    BY <2>2 DEF Visible
  <2>5. Atomic!Init
    BY <2>1, <2>3, <2>4 DEF Init, Atomic!Init, Atomic!NoneReceived, Abstract
  <2>6. RefinementInv
    BY <2>2 DEF RefinementInv, StreamOK
  <2> QED
    BY <2>5, <2>6
<1>2. IInv /\ IInv' /\ RefinementInv /\ [Next]_vars => RefinementInv' /\ [Atomic!Next]_(Atomic!vars)
  BY NextRefines
<1> QED
  BY <1>1, <1>2, InductiveInvariant, PTL DEF Spec, ImplementsRawStream, Atomic!Spec

-----------------------------------------------------------------------------
(* What is proved of RawStream holds at every return                       *)

Calls == INSTANCE RawStreamProofs WITH
  timeoutrecv <- Visible.timeoutrecv, phase <- Visible.phase, last <- Visible.last, lastTime <- Visible.lastTime,
  pdlist <- Visible.pdlist, received <- Visible.received,
  delivered <- Visible.delivered, gaveUp <- Visible.gaveUp

LEMMA CallsAssumptions ==
  Calls!SeqNosAssumption /\ Calls!MaxItemsAssumption /\ Calls!TimeoutRecvsAssumption /\ Calls!MaxCopiesAssumption
  BY BufferAssumption DEF Calls!SeqNosAssumption, Calls!MaxItemsAssumption,
     Calls!TimeoutRecvsAssumption, Calls!MaxCopiesAssumption

\* RawStreamProofs is about the calls that the steps implement.
LEMMA SameManage ==
  ASSUME NEW arg, NEW late
  PROVE  Atomic!Manage(arg, late) <=> Calls!Manage(arg, late)
<1>1. \A h : Atomic!QSort(h) = Calls!QSort(h)
  BY DEF Calls!QSort, Atomic!QSort, Calls!Sorted, Atomic!Sorted, Calls!Bijection, Atomic!Bijection,
         Calls!Injection, Atomic!Injection, Calls!Surjection, Atomic!Surjection,
         Calls!IsInjective, Atomic!IsInjective
<1>2. Atomic!MustForce(late) = Calls!MustForce(late) /\ Atomic!FirstTime(arg) = Calls!FirstTime(arg)
  BY DEF Atomic!MustForce, Calls!MustForce, Atomic!FirstTime, Calls!FirstTime,
         Atomic!NoPacket, Calls!NoPacket
<1>3. Atomic!Started(arg) = Calls!Started(arg)
  BY <1>2 DEF Atomic!Started, Calls!Started
<1>4. Atomic!ForceHandles(arg, late) = Calls!ForceHandles(arg, late)
  BY <1>2, <1>3 DEF Atomic!ForceHandles, Calls!ForceHandles
<1>5. Atomic!AfterForce(arg, late) = Calls!AfterForce(arg, late)
  BY <1>3, <1>4 DEF Atomic!AfterForce, Calls!AfterForce
<1>6. Atomic!Held(arg, late) = Calls!Held(arg, late)
  BY <1>2 DEF Atomic!Held, Calls!Held, Atomic!NoPacket, Calls!NoPacket
<1>7. \A q : /\ Atomic!AfterTimeout(arg, late, q) = Calls!AfterTimeout(arg, late, q)
             /\ Atomic!Reasons(arg, late, q) = Calls!Reasons(arg, late, q)
  BY <1>2, <1>5 DEF Atomic!AfterTimeout, Calls!AfterTimeout, Atomic!Reasons, Calls!Reasons,
                    Atomic!NoPacket, Calls!NoPacket
<1>8. \A a, m : Atomic!TimeAfter(arg, a, m) = Calls!TimeAfter(arg, a, m)
  BY <1>2 DEF Atomic!TimeAfter, Calls!TimeAfter, Atomic!EndTime, Calls!EndTime,
              Atomic!StartTime, Calls!StartTime
<1>9. /\ \A q, l, x, m : Atomic!Drains(q, l, x, m) <=> Calls!Drains(q, l, x, m)
      /\ \A l, m : Atomic!Run(l, m) = Calls!Run(l, m)
  BY DEF Atomic!Drains, Calls!Drains, Atomic!Run, Calls!Run
<1>10. ASSUME NEW q, NEW x, NEW m
       PROVE  Atomic!ManageTo(arg, late, q, x, m) <=> Calls!ManageTo(arg, late, q, x, m)
  <2>1. Atomic!AfterTimeout(arg, late, q) = Calls!AfterTimeout(arg, late, q)
    BY <1>7
  <2>2. Atomic!Reasons(arg, late, q) = Calls!Reasons(arg, late, q)
    BY <1>7
  <2>3. Atomic!Run(Calls!AfterTimeout(arg, late, q), m) = Calls!Run(Calls!AfterTimeout(arg, late, q), m)
    BY <1>9
  <2>4. Atomic!Drains(q, Calls!AfterTimeout(arg, late, q), x, m)
          <=> Calls!Drains(q, Calls!AfterTimeout(arg, late, q), x, m)
    BY <1>9
  <2>5. \A a : Atomic!TimeAfter(arg, a, m) = Calls!TimeAfter(arg, a, m)
    BY <1>8
  <2> QED
    BY ONLY <1>4, <2>1, <2>2, <2>3, <2>4, <2>5 DEF Atomic!ManageTo, Calls!ManageTo
<1> QED
  BY <1>1, <1>6, <1>7, <1>10 DEF Atomic!Manage, Calls!Manage

LEMMA SameSpec ==
  (Atomic!Init <=> Calls!Init) /\ ([Atomic!Next]_(Atomic!vars) <=> [Calls!Next]_(Calls!vars))
<1>1. Atomic!Init <=> Calls!Init
  BY DEF Atomic!Init, Calls!Init, Atomic!NoneReceived, Calls!NoneReceived
<1>2. Atomic!Next <=> Calls!Next
  BY SameManage DEF Atomic!Next, Calls!Next, Atomic!ReceivePacket, Calls!ReceivePacket,
     Atomic!Timeout, Calls!Timeout, Atomic!Flush, Calls!Flush, Atomic!Free, Calls!Free,
     Atomic!Reconnect, Calls!Reconnect, Atomic!NoneReceived, Calls!NoneReceived,
     Atomic!NoPacket, Calls!NoPacket
<1>3. UNCHANGED Atomic!vars <=> UNCHANGED Calls!vars
  BY DEF Atomic!vars, Calls!vars
<1> QED
  BY <1>1, <1>2, <1>3

\* The packets in the array wait in order for a missing one, those handled are in
\* order, and until a gap is given up none is lost.
ArraysInOrder ==
  /\ \A k, m \in 0 .. (n - 1) : k < m => heap[slots[k]] <= heap[slots[m]]
  /\ n > 0 => heap[slots[0]] > last + 1
  /\ \A x, y \in DOMAIN delivered : x < y => delivered[x] <= delivered[y]
  /\ "forced null" \notin gaveUp =>
       \A x, y \in DOMAIN delivered : x < y => delivered[x] < delivered[y]
  /\ gaveUp = {} /\ delivered # <<>> =>
       /\ \A x \in DOMAIN delivered : delivered[x] = delivered[1] + x - 1
       /\ phase = "receiving" =>
            \A s \in SeqNos :
              received[s] > 0 /\ s >= delivered[1] =>
                \/ \E x \in DOMAIN delivered : delivered[x] = s
                \/ \E k \in 0 .. (n - 1) : heap[slots[k]] = s

SafeReturn == pc = "idle" => ArraysInOrder

\* Whatever packets came, in whatever order, and whatever was forced, timed out or
\* flushed: at every return of nmxp_raw_stream_manage() the array of pointers
\* holds what waits for a missing packet, and p_func_pd has seen the others in order.
THEOREM ReturnsAreSafe == Spec => []SafeReturn
<1>1. Atomic!Spec => [](/\ Calls!BufferWaitsForGap /\ Calls!DeliveredInOrder
                        /\ Calls!TwiceOnlyByForcedNull /\ Calls!LosslessUntilGivenUp)
  <2>1. Atomic!Spec => Calls!Spec
    BY SameSpec, PTL DEF Atomic!Spec, Calls!Spec
  <2>2. Calls!Spec => []Calls!BufferWaitsForGap
    BY CallsAssumptions, Calls!BufferAlwaysWaits, PTL DEF Calls!BufferAlwaysWaits
  <2>3. Calls!Spec => []Calls!DeliveredInOrder
    BY CallsAssumptions, Calls!InOrder, PTL DEF Calls!InOrder
  <2>4. Calls!Spec => []Calls!TwiceOnlyByForcedNull
    BY CallsAssumptions, Calls!OnceUnlessForcedNull, PTL DEF Calls!OnceUnlessForcedNull
  <2>5. Calls!Spec => []Calls!LosslessUntilGivenUp
    BY CallsAssumptions, Calls!Lossless, PTL DEF Calls!Lossless
  <2> QED
    BY <2>1, <2>2, <2>3, <2>4, <2>5, PTL
<1>2. ASSUME IInv, Calls!BufferWaitsForGap, Calls!DeliveredInOrder,
             Calls!TwiceOnlyByForcedNull, Calls!LosslessUntilGivenUp
      PROVE  SafeReturn
  <2>1. SUFFICES ASSUME pc = "idle" PROVE ArraysInOrder
    BY DEF SafeReturn
  <2>2. /\ Visible.pdlist = Buffered /\ Visible.last = last /\ Visible.delivered = delivered
        /\ Visible.gaveUp = gaveUp /\ Visible.phase = phase /\ Visible.received = received
    BY <1>2, <2>1 DEF Visible, Abstract
  <2>3. /\ n \in Nat /\ Buffered \in Seq(SeqNos) /\ Len(Buffered) = n
        /\ \A k \in 0 .. (n - 1) : heap[slots[k]] = Buffered[k + 1]
    BY <1>2, <2>1, BufferedIs, Facts DEF IInv, PlacesOK
  <2>4. DOMAIN Buffered = 1 .. n
    BY <2>3
  <2>5. \A k, m \in 0 .. (n - 1) : k < m => heap[slots[k]] <= heap[slots[m]]
    <3>1. \A x, y \in 1 .. n : x < y => Buffered[x] <= Buffered[y]
      BY <1>2, <2>1, <2>2, <2>4 DEF Calls!BufferWaitsForGap, Calls!Sorted
    <3>2. \A k, m \in 0 .. (n - 1) : k + 1 \in 1 .. n /\ (k < m => k + 1 < m + 1)
      BY <2>3
    <3> QED
      BY <2>3, <3>1, <3>2
  <2>6. n > 0 => heap[slots[0]] > last + 1
    <3>1. Buffered # <<>> => Buffered[1] > last + 1
      BY <1>2, <2>1, <2>2 DEF Calls!BufferWaitsForGap
    <3>2. n > 0 => 0 \in 0 .. (n - 1) /\ 0 + 1 = 1 /\ Buffered # <<>>
      BY <2>3
    <3> QED
      BY <2>3, <3>1, <3>2
  <2>7. ASSUME NEW x \in 1 .. n
        PROVE  \E k \in 0 .. (n - 1) : heap[slots[k]] = Buffered[x]
    <3>1. x - 1 \in 0 .. (n - 1) /\ (x - 1) + 1 = x
      BY <2>3
    <3>2. heap[slots[x - 1]] = Buffered[(x - 1) + 1]
      BY <2>3, <3>1
    <3> QED
      BY ONLY <3>1, <3>2
  <2>8. /\ \A x, y \in DOMAIN delivered : x < y => delivered[x] <= delivered[y]
        /\ "forced null" \notin gaveUp =>
             \A x, y \in DOMAIN delivered : x < y => delivered[x] < delivered[y]
    <3>1. \A x, y \in DOMAIN delivered : x < y => delivered[x] <= delivered[y]
      <4>1. Calls!Sorted(Visible.delivered)
        BY ONLY <1>2 DEF Calls!DeliveredInOrder
      <4>2. Calls!Sorted(delivered)
        BY ONLY <2>2, <4>1
      <4> QED
        BY ONLY <4>2 DEF Calls!Sorted
    <3>2. "forced null" \notin gaveUp =>
             \A x, y \in DOMAIN delivered : x < y => delivered[x] < delivered[y]
      BY ONLY <1>2, <2>2 DEF Calls!TwiceOnlyByForcedNull
    <3> QED
      BY ONLY <3>1, <3>2
  <2>9. gaveUp = {} /\ delivered # <<>> =>
          /\ \A x \in DOMAIN delivered : delivered[x] = delivered[1] + x - 1
          /\ phase = "receiving" =>
               \A s \in SeqNos :
                 received[s] > 0 /\ s >= delivered[1] =>
                   \/ \E x \in DOMAIN delivered : delivered[x] = s
                   \/ \E x \in 1 .. n : Buffered[x] = s
    BY <1>2, <2>1, <2>2, <2>4 DEF Calls!LosslessUntilGivenUp, Calls!Handled
  <2> QED
    BY <2>5, <2>6, <2>7, <2>8, <2>9 DEF ArraysInOrder
<1> QED
  BY <1>1, <1>2, InductiveInvariant, CallsAreAtomic, PTL DEF ImplementsRawStream
=============================================================================
