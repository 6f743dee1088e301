---------------------------- MODULE RawStreamSteps ----------------------------
(***************************************************************************)
(* nmxp_raw_stream_manage() step by step: the array pdlist of              *)
(* max_pdlist_items pointers, the packets copied to the heap, and the      *)
(* loops that remove NULL pointers, handle the first packets and shift the *)
(* others down.  A call is a behaviour from pc = "idle" to pc = "idle";    *)
(* RawStream is what the calls amount to, and this module implements it.   *)
(***************************************************************************)
EXTENDS Integers, Sequences, FiniteSets, Functions

CONSTANTS SeqNos, MaxItems, TimeoutRecvs, MaxCopies   \* as in RawStream

ASSUME BufferAssumption ==
  SeqNos \subseteq Nat /\ MaxItems \in Nat \ {0} /\ TimeoutRecvs \subseteq Nat /\ MaxCopies \in Nat

VARIABLES
  timeoutrecv, phase, last, lastTime, received, delivered, gaveUp,   \* as in RawStream
  slots,    \* pdlist: an address or Null
  n,        \* n_pdlist
  heap,     \* the packet at each address, NotAllocated if there is none
  pc,       \* the step of the call
  pd,       \* the parameter, copied: an address or Null
  i,        \* y, j or k: the index of the loop being run
  j,        \* the packets handled by the main loop
  forced,   \* whether the call has forced a packet
  before    \* the abstract state at the last return, see below

call == <<pc, pd, i, j, forced>>
memory == <<slots, n, heap>>
vars == <<timeoutrecv, phase, last, lastTime, received, delivered, gaveUp, memory, call, before>>

Addresses == 1 .. (MaxItems + 1)
Null == 0
NotAllocated == -1
Indexes == 0 .. (MaxItems - 1)

StartTime(s) == 10 + s
EndTime(s) == StartTime(s) + 1
SeqNo(k) == heap[slots[k]]

FreeAddresses == {a \in Addresses : heap[a] = NotAllocated}
Malloc == CHOOSE a \in FreeAddresses : TRUE

\* p_func_pd[] called with the packet at index k, and what is noted of it.
HandlePacket(k) ==
  /\ delivered' = Append(delivered, SeqNo(k))
  /\ last' = SeqNo(k)
  /\ lastTime' = EndTime(SeqNo(k))

-----------------------------------------------------------------------------
\* The packets of the first n_pdlist places.
Buffered == [k \in 1 .. n |-> heap[slots[k - 1]]]

\* The state RawStream shows: that of the last return, as long as a call runs.
Abstract ==
  [timeoutrecv |-> timeoutrecv, phase |-> phase, last |-> last, lastTime |-> lastTime,
   pdlist |-> Buffered, received |-> received, delivered |-> delivered, gaveUp |-> gaveUp]

Visible == IF pc = "idle" THEN Abstract ELSE before

Atomic == INSTANCE RawStream WITH
  timeoutrecv <- Visible.timeoutrecv, phase <- Visible.phase, last <- Visible.last, lastTime <- Visible.lastTime,
  pdlist <- Visible.pdlist, received <- Visible.received,
  delivered <- Visible.delivered, gaveUp <- Visible.gaveUp

-----------------------------------------------------------------------------
Init ==
  /\ timeoutrecv \in TimeoutRecvs
  /\ phase = "receiving"
  /\ last = -1
  /\ lastTime = -1
  /\ received = [s \in SeqNos |-> 0]
  /\ delivered = <<>>
  /\ gaveUp = {}
  /\ slots = [k \in Indexes |-> Null]
  /\ n = 0
  /\ heap = [a \in Addresses |-> NotAllocated]
  /\ pc = "idle"
  /\ pd = Null
  /\ i = 0
  /\ j = 0
  /\ forced = FALSE
  /\ before = Abstract

Enter ==
  /\ pc = "idle"
  /\ pc' = "force"
  /\ before' = Abstract
  /\ i' = 0
  /\ j' = 0
  /\ forced' = FALSE
  /\ UNCHANGED timeoutrecv

\* The call with a packet: copy it, and start from it the first time.
CallWithPacket(s) ==
  /\ phase = "receiving"
  /\ received[s] < MaxCopies
  /\ Enter
  /\ received' = [received EXCEPT ![s] = @ + 1]
  /\ pd' = Malloc
  /\ heap' = [heap EXCEPT ![pd'] = s]
  /\ \/ /\ last = -1 /\ timeoutrecv = 0
        /\ last' = s - 1
        /\ lastTime' = StartTime(s)
     \/ /\ last = -1 /\ timeoutrecv > 0
        /\ last' = 0
        /\ lastTime' = 0
     \/ /\ last # -1
        /\ UNCHANGED <<last, lastTime>>
  /\ UNCHANGED <<phase, delivered, gaveUp, slots, n>>

CallWithNull ==
  /\ Enter
  /\ pd' = Null
  /\ UNCHANGED <<last, lastTime, received, delivered, gaveUp, memory>>

CallTimeout ==
  /\ phase = "receiving"
  /\ timeoutrecv > 0
  /\ \E s \in SeqNos : received[s] > 0
  /\ CallWithNull
  /\ UNCHANGED phase

CallFlush ==
  /\ phase = "receiving"
  /\ phase' = "flushed"
  /\ CallWithNull

MustForce(late) ==
  \/ n >= MaxItems /\ timeoutrecv = 0
  \/ late /\ n > 0 /\ timeoutrecv = 0
  \/ n >= MaxItems /\ timeoutrecv > 0

\* Force the first packet out, or discard it, and put pd in its place.
ForceFirst ==
  /\ pc = "force"
  /\ pc' = "compact"
  /\ forced' = TRUE
  /\ IF SeqNo(0) - last > 0
     THEN HandlePacket(0)
     ELSE UNCHANGED <<last, lastTime, delivered>>      \* "SHOULD NOT OCCUR"
  /\ heap' = [heap EXCEPT ![slots[0]] = NotAllocated]
  /\ slots' = [slots EXCEPT ![0] = pd]
  /\ gaveUp' = gaveUp \cup {"force"}
  /\ UNCHANGED <<timeoutrecv, phase, received, n, pd, i, j, before>>

\* Add pd at the end.
AddLast ==
  /\ pc = "force"
  /\ pc' = "compact"
  /\ IF pd # Null
     THEN slots' = [slots EXCEPT ![n] = pd] /\ n' = n + 1
     ELSE UNCHANGED <<slots, n>>
  /\ UNCHANGED <<timeoutrecv, phase, last, lastTime, received, delivered, gaveUp, heap>>
  /\ UNCHANGED <<pd, i, j, forced, before>>

ForceOrAdd ==
  \E late \in BOOLEAN :
    \/ MustForce(late) /\ ForceFirst
    \/ ~MustForce(late) /\ AddLast

NoCompact ==                                     \* mutant: NULLs not removed
  /\ pc = "compact"
  /\ pc' = "sort"
  /\ UNCHANGED <<timeoutrecv, phase, last, lastTime, received, delivered, gaveUp, memory>>
  /\ UNCHANGED <<pd, i, j, forced, before>>

\* One turn of the loop that removes NULL pointers, i is y.
Compact ==
  /\ pc = "compact"
  /\ \/ /\ i < n /\ slots[i] = Null
        /\ slots' = [k \in Indexes |->
                       IF k \in i .. (n - 2) THEN slots[k + 1] ELSE slots[k]]
        /\ n' = n - 1
        /\ UNCHANGED <<pc, i>>
     \/ /\ i < n /\ slots[i] # Null
        /\ i' = i + 1
        /\ UNCHANGED <<pc, slots, n>>
     \/ /\ i >= n
        /\ pc' = "sort"
        /\ UNCHANGED <<i, slots, n>>
  /\ UNCHANGED <<timeoutrecv, phase, last, lastTime, received, delivered, gaveUp, heap>>
  /\ UNCHANGED <<pd, j, forced, before>>

\* qsort(), any order of packets with one number; then, for a NULL packet,
\* the condition for time-out.
Sort ==
  /\ pc = "sort"
  /\ pc' = "handle"
  /\ \E p \in Bijection(0 .. (n - 1), 0 .. (n - 1)) :
       /\ slots' = [k \in Indexes |-> IF k < n THEN slots[p[k]] ELSE slots[k]]
       /\ \A k, m \in 0 .. (n - 1) : k < m => heap[slots'[k]] <= heap[slots'[m]]
  /\ IF pd = Null /\ n > 0
     THEN /\ last' = heap[slots'[0]] - 1
          /\ lastTime' = StartTime(heap[slots'[0]])
          /\ gaveUp' = gaveUp \cup {"null"} \cup (IF forced THEN {"forced null"} ELSE {})
     ELSE UNCHANGED <<last, lastTime, gaveUp>>
  /\ UNCHANGED <<timeoutrecv, phase, received, delivered, n, heap, pd, i, j, forced, before>>

HandleEqual ==                                   \* mutant: < 0 for <= 0
  /\ pc = "handle"
  /\ \/ /\ j < n /\ SeqNo(j) - last < 0
        /\ j' = j + 1
        /\ UNCHANGED <<pc, i, last, lastTime, delivered>>
     \/ /\ j < n /\ SeqNo(j) - last \in 0 .. 1
        /\ HandlePacket(j)
        /\ j' = j + 1
        /\ UNCHANGED <<pc, i>>
     \/ /\ j < n => SeqNo(j) - last > 1
        /\ pc' = "shift"
        /\ i' = 0
        /\ UNCHANGED <<j, last, lastTime, delivered>>
  /\ UNCHANGED <<timeoutrecv, phase, received, gaveUp, memory, pd, forced, before>>

\* One turn of the main loop.
Handle ==
  /\ pc = "handle"
  /\ \/ /\ j < n /\ SeqNo(j) - last <= 0
        /\ j' = j + 1
        /\ UNCHANGED <<pc, i, last, lastTime, delivered>>
     \/ /\ j < n /\ SeqNo(j) - last = 1
        /\ HandlePacket(j)
        /\ j' = j + 1
        /\ UNCHANGED <<pc, i>>
     \/ /\ j < n => SeqNo(j) - last > 1
        /\ pc' = "shift"
        /\ i' = 0
        /\ UNCHANGED <<j, last, lastTime, delivered>>
  /\ UNCHANGED <<timeoutrecv, phase, received, gaveUp, memory, pd, forced, before>>

ShiftOnly ==                                     \* mutant: nothing freed
  /\ pc = "shift"
  /\ n' = n - j
  /\ slots' = [k \in Indexes |-> IF k + j < n THEN slots[k + j] ELSE Null]
  /\ pc' = "idle"
  /\ UNCHANGED <<timeoutrecv, phase, last, lastTime, received, delivered, gaveUp, heap>>
  /\ UNCHANGED <<pd, i, j, forced, before>>

\* One turn of the loop that frees and shifts, i is k, and the return.
Shift ==
  /\ pc = "shift"
  /\ \/ /\ j > 0 /\ i < n
        /\ heap' = IF i < j THEN [heap EXCEPT ![slots[i]] = NotAllocated] ELSE heap
        /\ slots' = IF i + j < n
                    THEN [slots EXCEPT ![i] = slots[i + j], ![i + j] = Null]
                    ELSE [slots EXCEPT ![i] = Null]
        /\ i' = i + 1
        /\ UNCHANGED <<pc, n>>
     \/ /\ j = 0 \/ i >= n
        /\ n' = n - j
        /\ pc' = "idle"
        /\ UNCHANGED <<i, slots, heap>>
  /\ UNCHANGED <<timeoutrecv, phase, last, lastTime, received, delivered, gaveUp>>
  /\ UNCHANGED <<pd, j, forced, before>>

\* nmxp_raw_stream_free() frees the packets left.
FreeStream ==
  /\ pc = "idle"
  /\ phase = "flushed"
  /\ phase' = "freed"
  /\ heap' = [a \in Addresses |->
                IF \E k \in 0 .. (n - 1) : slots[k] = a THEN NotAllocated ELSE heap[a]]
  /\ slots' = [k \in Indexes |-> Null]
  /\ n' = 0
  /\ UNCHANGED <<timeoutrecv, last, lastTime, received, delivered, gaveUp, call, before>>

\* nmxp_raw_stream_init() for the next connection; the heap is the process's.
InitStream ==
  /\ pc = "idle"
  /\ phase = "freed"
  /\ phase' = "receiving"
  /\ last' = -1
  /\ lastTime' = -1
  /\ received' = [s \in SeqNos |-> 0]
  /\ delivered' = <<>>
  /\ gaveUp' = {}
  /\ UNCHANGED <<timeoutrecv, memory, call, before>>

Next ==
  \/ \E s \in SeqNos : CallWithPacket(s)
  \/ CallTimeout
  \/ CallFlush
  \/ ForceOrAdd
  \/ Compact
  \/ Sort
  \/ Handle
  \/ Shift
  \/ FreeStream
  \/ InitStream

Spec == Init /\ [][Next]_vars

-----------------------------------------------------------------------------
TypeOK ==
  /\ pc \in {"idle", "force", "compact", "sort", "handle", "shift"}
  /\ n \in 0 .. MaxItems
  /\ slots \in [Indexes -> Addresses \cup {Null}]
  /\ heap \in [Addresses -> SeqNos \cup {NotAllocated}]
  /\ pd \in Addresses \cup {Null}
  /\ i \in 0 .. MaxItems
  /\ j \in 0 .. MaxItems
  /\ forced \in BOOLEAN

Allocated == {a \in Addresses : heap[a] # NotAllocated}

\* When no call is running, every packet on the heap is at exactly one of
\* the first n_pdlist places of pdlist: the loops that remove NULL pointers,
\* free and shift neither leak a packet, nor free one they keep, nor keep one
\* twice, and nmxp_raw_stream_free() finds them all.  (Beyond n_pdlist the
\* removal of a NULL pointer leaves a stale copy of the last pointer behind.)
HeapIsBuffer ==
  pc = "idle" =>
    /\ {slots[k] : k \in 0 .. (n - 1)} = Allocated
    /\ Cardinality(Allocated) = n

\* The pointers the sorting and the main loop follow lead to live packets.
NoDanglingPointer ==
  pc \in {"sort", "handle"} => \A k \in 0 .. (n - 1) : slots[k] \in Allocated

\* The loops, the array and the heap implement the atomic calls.
ImplementsRawStream == Atomic!Spec
=============================================================================
