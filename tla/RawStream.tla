------------------------------- MODULE RawStream -------------------------------
(***************************************************************************)
(* The raw stream buffer of one channel (NMXP_RAW_STREAM_DATA): it puts    *)
(* the packets that NaqsServer sends out of order back in order and hands  *)
(* them to the output functions p_func_pd.  One action is one call of      *)
(* nmxp_raw_stream_manage() together with what its caller in nmxptool.c    *)
(* does around it.                                                         *)
(*                                                                         *)
(* A packet is its sequence number: two packets of one channel with the    *)
(* same number are copies of the same data.  It starts at StartTime(s) and *)
(* ends at EndTime(s); a time of 0 is "never" in nmxptool.c and -1 is the  *)
(* initial value of last_sample_time.                                      *)
(***************************************************************************)
EXTENDS Integers, Sequences, Functions

CONSTANTS
  SeqNos,       \* the sequence numbers NaqsServer may send
  MaxItems,     \* max_pdlist_items, four per second of max_tolerable_latency
  TimeoutRecvs, \* the values the option -T may have, 0 for no time-out
  MaxCopies     \* bound of the model: how often one packet may be sent

ASSUME SeqNosAssumption == SeqNos \subseteq Nat
ASSUME MaxItemsAssumption == MaxItems \in Nat \ {0}
ASSUME TimeoutRecvsAssumption == TimeoutRecvs \subseteq Nat
ASSUME MaxCopiesAssumption == MaxCopies \in Nat

VARIABLES
  timeoutrecv, \* in seconds, set when the stream is initialized
  phase,      \* "receiving", then "flushed", then "freed"
  last,       \* last_seq_no_sent
  lastTime,   \* last_sample_time
  pdlist,     \* pdlist[0 .. n_pdlist - 1]
  received,   \* history: the sequence numbers passed in, in a bag
  delivered,  \* history: the sequence numbers passed to p_func_pd
  gaveUp      \* history: the ways in which missing packets were given up

vars == <<timeoutrecv, phase, last, lastTime, pdlist, received, delivered, gaveUp>>

NoPacket == -1                     \* the NULL packet of a time-out or a flush

StartTime(s) == 10 + s
EndTime(s) == StartTime(s) + 1

Sorted(q) == \A i, j \in DOMAIN q : i < j => q[i] <= q[j]

NoQSort(s) == {s}                                       \* mutant: not called

\* The results qsort() may produce for the array s.
QSort(s) ==
  {q \in {[i \in DOMAIN s |-> s[p[i]]] : p \in Bijection(DOMAIN s, DOMAIN s)} : Sorted(q)}

-----------------------------------------------------------------------------
(* One call of nmxp_raw_stream_manage()                                    *)

FirstTimeOfNull(pd) == last = -1                 \* mutant: NULL not excluded

EveryTime(pd) == pd # NoPacket                   \* mutant: last not looked at

FirstTime(pd) == last = -1 /\ pd # NoPacket

\* last_seq_no_sent after "First time".
Started(pd) ==
  CASE ~FirstTime(pd)                      -> last
    [] FirstTime(pd) /\ timeoutrecv = 0   -> pd - 1
    [] FirstTime(pd) /\ timeoutrecv > 0   -> 0

MustForceBeyond(late) ==                         \* mutant: full is one more
  \/ Len(pdlist) > MaxItems
  \/ timeoutrecv = 0 /\ late /\ pdlist # <<>>

\* The buffer is full, or its first packet is later than
\* max_tolerable_latency and no time-out is set: give up waiting for the
\* packets missing before it.  The latency of an empty buffer is 0.
MustForce(late) ==
  \/ Len(pdlist) >= MaxItems
  \/ timeoutrecv = 0 /\ late /\ pdlist # <<>>

\* A forced packet is handled if it is newer than the last one handled.
ForceHandles(pd, late) == MustForce(late) /\ Head(pdlist) - Started(pd) > 0

AfterForceForgotten(pd, late) == Started(pd)     \* mutant: last not updated

AfterForce(pd, late) ==
  IF ForceHandles(pd, late) THEN Head(pdlist) ELSE Started(pd)

\* What is to be sorted: the buffer without the forced packet, and pd.
Held(pd, late) ==
  (IF MustForce(late) THEN Tail(pdlist) ELSE pdlist)
    \o (IF pd = NoPacket THEN <<>> ELSE <<pd>>)

NoTimeout(pd, late, q) == AfterForce(pd, late)   \* mutant: gap not given up

\* A NULL packet gives up the gap before the first packet of q.
AfterTimeout(pd, late, q) ==
  IF pd = NoPacket /\ q # <<>> THEN q[1] - 1 ELSE AfterForce(pd, late)

DiscardsRest(q, l, j, m) ==                      \* mutant: no stop at a gap
  /\ m >= l
  /\ \A s \in (l + 1) .. m : \E i \in 1 .. j : q[i] = s
  /\ j = Len(q)

\* The loop over the sorted array q, started with last_seq_no_sent = l,
\* takes the first j packets and leaves last_seq_no_sent = m: it handles
\* every packet that continues the run l+1, l+2, ... and discards the
\* duplicates, those at or below the end of the run.
Drains(q, l, j, m) ==
  /\ m >= l
  /\ \A i \in 1 .. j : q[i] <= m
  /\ \A s \in (l + 1) .. m : \E i \in 1 .. j : q[i] = s
  /\ j < Len(q) => q[j + 1] > m + 1

Run(l, m) == [i \in 1 .. (m - l) |-> l + i]

Reasons(pd, late, q) ==
  (IF MustForce(late) THEN {"force"} ELSE {})
    \cup (IF pd = NoPacket /\ q # <<>> THEN {"null"} ELSE {})
    \cup (IF pd = NoPacket /\ q # <<>> /\ MustForce(late)
          THEN {"forced null"} ELSE {})

StartAfter(pd, handled, m) ==                    \* mutant: duration not added
  IF handled # <<>> THEN StartTime(m) ELSE lastTime

\* last_sample_time after a call that handled the packets of "handled".
TimeAfter(pd, handled, m) ==
  CASE handled # <<>>                    -> EndTime(m)
    [] handled = <<>> /\ FirstTime(pd)  -> 0
    [] handled = <<>> /\ ~FirstTime(pd) -> lastTime

ManageTo(pd, late, q, j, m) ==
  LET l == AfterTimeout(pd, late, q)
      handled == (IF ForceHandles(pd, late) THEN <<Head(pdlist)>> ELSE <<>>)
                   \o Run(l, m)
  IN  /\ Drains(q, l, j, m)
      /\ pdlist' = SubSeq(q, j + 1, Len(q))
      /\ last' = m
      /\ delivered' = delivered \o handled
      /\ lastTime' = TimeAfter(pd, handled, m)
      /\ gaveUp' = gaveUp \cup Reasons(pd, late, q)
      /\ UNCHANGED timeoutrecv

Manage(pd, late) ==
  \E q \in QSort(Held(pd, late)) : \E j \in 0 .. Len(q) :
    \E m \in {AfterTimeout(pd, late, q)} \cup {q[i] : i \in 1 .. j} :
      ManageTo(pd, late, q, j, m)

-----------------------------------------------------------------------------
(* The callers in nmxptool.c                                               *)

NoneReceived == [s \in SeqNos |-> 0]

\* nmxp_raw_stream_init(), from nmxptool_chanseq_init().
Init ==
  /\ timeoutrecv \in TimeoutRecvs
  /\ phase = "receiving"
  /\ last = -1
  /\ lastTime = -1
  /\ pdlist = <<>>
  /\ received = NoneReceived
  /\ delivered = <<>>
  /\ gaveUp = {}

\* A packet of the channel has arrived: the PDS loop passes it on.
ReceivePacket(s) ==
  /\ phase = "receiving"
  /\ received[s] < MaxCopies
  /\ \E late \in BOOLEAN : Manage(s, late)
  /\ received' = [received EXCEPT ![s] = @ + 1]
  /\ UNCHANGED phase

\* No packet of the channel for timeoutrecv seconds: the PDS loop passes
\* NULL.  A channel no packet ever arrived for does not time out.
Timeout ==
  /\ phase = "receiving"
  /\ timeoutrecv > 0
  /\ \E s \in SeqNos : received[s] > 0
  /\ \E late \in BOOLEAN : Manage(NoPacket, late)
  /\ UNCHANGED <<phase, received>>

\* The PDS loop has ended: flushing_raw_data_stream() passes NULL, once.
Flush ==
  /\ phase = "receiving"
  /\ phase' = "flushed"
  /\ \E late \in BOOLEAN : Manage(NoPacket, late)
  /\ UNCHANGED received

\* nmxp_raw_stream_free(), from nmxptool_chanseq_free().
Free ==
  /\ phase = "flushed"
  /\ phase' = "freed"
  /\ pdlist' = <<>>
  /\ UNCHANGED <<timeoutrecv, last, lastTime, received, delivered, gaveUp>>

\* The next connection initializes the channel again.
Reconnect ==
  /\ phase = "freed"
  /\ phase' = "receiving"
  /\ last' = -1
  /\ lastTime' = -1
  /\ received' = NoneReceived
  /\ delivered' = <<>>
  /\ pdlist' = <<>>
  /\ gaveUp' = {}
  /\ UNCHANGED timeoutrecv

Next ==
  \/ \E s \in SeqNos : ReceivePacket(s)
  \/ Timeout
  \/ Flush
  \/ Free
  \/ Reconnect

Spec == Init /\ [][Next]_vars

\* The PDS loop keeps receiving (another channel's packet, or the 10 s
\* time-out of the socket) and checks every channel each time, so a channel
\* that stays silent does time out as long as the loop runs.
FairSpec == Spec /\ WF_vars(Timeout)

-----------------------------------------------------------------------------
(* Properties                                                              *)

Handled == {delivered[i] : i \in DOMAIN delivered}

TypeOK ==
  /\ timeoutrecv \in TimeoutRecvs
  /\ phase \in {"receiving", "flushed", "freed"}
  /\ last \in Nat \cup {-1}
  /\ lastTime \in Nat \cup {-1}
  /\ pdlist \in Seq(SeqNos)
  /\ received \in [SeqNos -> 0 .. MaxCopies]
  /\ delivered \in Seq(SeqNos)
  /\ gaveUp \subseteq {"force", "null", "forced null"}

\* Between two calls the buffer is sorted and its first packet is beyond
\* the next one expected: every packet in the buffer waits for a missing
\* one.  So the discarded packet the code calls "SHOULD NOT OCCUR" does not
\* occur, whatever mixture of duplicates, forced packets, time-outs and
\* flushes came before.
BufferWaitsForGap ==
  /\ Sorted(pdlist)
  /\ pdlist # <<>> => pdlist[1] > last + 1

\* A call never writes beyond the max_pdlist_items slots of pdlist.
BufferBounded == Len(pdlist) <= MaxItems

\* The output functions see a channel's packets in chronological order:
\* neither a late packet, nor a forced one, nor a time-out goes back.
DeliveredInOrder == Sorted(delivered)

\* A packet is handled twice only if a NULL call has found the buffer full
\* or its first packet late: it forces one copy and then counts the next
\* copy as the first packet after a gap.
TwiceOnlyByForcedNull ==
  "forced null" \notin gaveUp =>
    \A i, j \in DOMAIN delivered : i < j => delivered[i] < delivered[j]

\* As long as no missing packet was given up, the packets handled are
\* consecutive, and every packet received since the first handled one is
\* handled or still in the buffer: none was lost by sorting, discarding
\* duplicates or shifting the array.
LosslessUntilGivenUp ==
  gaveUp = {} /\ delivered # <<>> =>
    /\ \A i \in DOMAIN delivered : delivered[i] = delivered[1] + i - 1
    /\ phase = "receiving" =>
         \A s \in SeqNos :
           received[s] > 0 /\ s >= delivered[1] =>
             s \in Handled \/ \E i \in DOMAIN pdlist : pdlist[i] = s

\* last_sample_time, which nmxptool_chanseq_save_states() writes to the
\* state file, is the end of the last packet handled, and no time at all
\* before one was handled.
LastTimeIsEndOfHandled ==
  IF delivered = <<>> THEN lastTime \in {-1, 0}
  ELSE lastTime = EndTime(delivered[Len(delivered)])

\* With a time-out set, a packet in the buffer of a silent channel does not
\* wait for ever: it is handled, or the connection ends.
BufferedIsHandled ==
  \A s \in SeqNos :
    (timeoutrecv > 0 /\ \E i \in DOMAIN pdlist : pdlist[i] = s) ~> (s \in Handled \/ phase # "receiving")

=============================================================================
