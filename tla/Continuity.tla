------------------------------- MODULE Continuity -------------------------------
(***************************************************************************)
(* Data continuity with a state file (option -F): what one channel gets    *)
(* from the DataServer (DAP flow) and from NaqsServer (PDS flow) over many *)
(* connections, restarts and crashes, and the time of the last sample that *)
(* nmxptool saves and resumes from.                                        *)
(*                                                                         *)
(* Time counts samples, of a rate of one per second: sample t is taken at  *)
(* t.  Packet p holds the samples Begin(p) .. End(p) - 1, and both servers *)
(* have it once it is complete; NaqsServer keeps those of the last         *)
(* BufferLength seconds.  Packets reach the PDS flow in order: what        *)
(* RawStream does about those that do not is its own subject.              *)
(***************************************************************************)
EXTENDS Integers

CONSTANTS
  PacketLen,     \* samples in a packet
  BufferLength,  \* seconds of data NaqsServer buffers
  RawStreams,    \* whether --stc is -1 (Raw Stream)
  MaxDatas,      \* values of --maxdataretr: 0 is no DAP flow
  BuffDates,     \* values of --buffdate: 0 is none
  Start,         \* the time the program is started first
  MaxTime        \* bound of the model: the time the clock stops

ASSUME PacketAssumption == PacketLen \in Nat \ {0} /\ BufferLength \in Nat
ASSUME OptionsAssumption ==
  RawStreams \subseteq BOOLEAN /\ MaxDatas \subseteq Nat /\ BuffDates \subseteq Nat
ASSUME TimeAssumption ==
  Start \in Nat /\ MaxTime \in Nat /\ \A d \in MaxDatas : d < Start

\* Without it data that NaqsServer still has is skipped: the DAP flow asks for
\* the last maxdataretr seconds, and the PDS flow resumes after them.
ASSUME ReachAssumption == \A d \in MaxDatas \ {0} : d >= BufferLength

VARIABLES
  params,     \* stc = -1, max_data_to_retrieve, buffered_time, start_time
  now,        \* the clock
  file,       \* the line of the channel in the state file, or NoLine
  pc,         \* where main() is
  timesFlow,  \* times_flow
  recvErrno,  \* recv_errno # 0
  signal,     \* sigcondition
  onlyOnce,   \* if_dap_condition_only_one_time
  seq,        \* the channel's entry of channelList_Seq
  packet,     \* the next packet NaqsServer sends on this connection
  done,       \* history: the samples handled, [time : their label, sample]
  twice,      \* history: some sample was handled twice
  fellOut,    \* history: samples NaqsServer had dropped when it was asked
  unsaved     \* history: killed, or the state file could not be written

vars == <<params, now, file, pc, timesFlow, recvErrno, signal, onlyOnce, seq,
          packet, done, twice, fellOut, unsaved>>

NoLine == [noraw |-> -1, raw |-> -1]        \* the file is missing or empty

Begin(p) == p * PacketLen
End(p) == (p + 1) * PacketLen

\* The packets that are complete at time t.
Complete(t) == {p \in 0 .. MaxTime : End(p) <= t}
InBuffer(p) == Begin(p) >= now - BufferLength

Labels == {d.time : d \in done}

\* The output functions are called with a packet whose first sample, labelled
\* with time t, is sample s, and that has n samples.
Handle(t, s, n) ==
  LET new == {[time |-> t + i, sample |-> s + i] : i \in 0 .. (n - 1)}
  IN  /\ done' = done \cup new
      /\ twice' = (twice \/ \E d \in new : d.time \in Labels)

-----------------------------------------------------------------------------
(* nmxptool_chanseq.c                                                      *)

\* nmxptool_chanseq_init()
NewSeq == [lastTime |-> 0, rawTime |-> -1, after |-> -1, seqNo |-> -1]

\* Mutant of Printed: "never" is printed as it is.
PrintedAsIs(t) == t

\* nmxp_data_to_str() and back: "never" becomes the epoch.
Printed(t) == IF t > 0 THEN t ELSE 0

SavedNow == [noraw |-> Printed(seq.lastTime), raw |-> Printed(seq.rawTime)]

\* Mutant of Loaded: the time to resume from is not set.
LoadedTimesOnly ==
  LET time == IF file.raw # 0 THEN file.raw ELSE file.noraw
  IN  IF file = NoLine THEN seq
      ELSE [seq EXCEPT !.lastTime = time, !.rawTime = time]

\* nmxptool_chanseq_load_states()
Loaded ==
  LET time == IF file.raw # 0 THEN file.raw ELSE file.noraw
  IN  IF file = NoLine THEN seq
      ELSE [seq EXCEPT !.lastTime = time, !.rawTime = time,
                       !.after = IF params.raw THEN file.raw ELSE file.noraw]

-----------------------------------------------------------------------------
(* main()                                                                  *)

\* while(EXIT_CONDITION)
Turn ==
  /\ pc = "turn"
  /\ ~signal /\ ~onlyOnce
  /\ onlyOnce' = (params.start # 0)
  /\ seq' = NewSeq
  /\ timesFlow' = 0
  /\ recvErrno' = FALSE
  /\ pc' = "flow"
  /\ UNCHANGED <<params, now, file, signal, packet, done, twice, fellOut, unsaved>>

\* The process ends, and its memory is gone.
Down ==
  /\ pc' = "down"
  /\ params' = [params EXCEPT !.start = 0]
  /\ timesFlow' = 0
  /\ recvErrno' = FALSE
  /\ signal' = FALSE
  /\ onlyOnce' = FALSE
  /\ seq' = NewSeq
  /\ packet' = 0
  /\ UNCHANGED <<now, file, done, twice, fellOut>>

Exit ==
  /\ pc = "turn"
  /\ signal \/ onlyOnce
  /\ Down
  /\ UNCHANGED unsaved

DapCondition == params'.start # 0 \/ (timesFlow = 0 /\ params.maxData > 0)

\* The times_flow loop: load the state, then the DAP or the PDS flow.
Flow ==
  /\ pc = "flow"
  /\ timesFlow < 2 /\ ~recvErrno /\ ~signal
  /\ seq' = Loaded
  /\ params' = IF timesFlow = 1 THEN [params EXCEPT !.start = 0] ELSE params
  /\ pc' = IF DapCondition THEN "dap" ELSE "pds"
  /\ UNCHANGED <<now, file, timesFlow, recvErrno, signal, onlyOnce, packet,
                 done, twice, fellOut, unsaved>>

\* The loop ends; nmxptool_chanseq_free().  times_flow and recv_errno are not
\* read again before they are assigned.
EndFlow ==
  /\ pc = "flow"
  /\ timesFlow >= 2 \/ recvErrno \/ signal
  /\ pc' = "turn"
  /\ seq' = NewSeq
  /\ timesFlow' = 0
  /\ recvErrno' = FALSE
  /\ UNCHANGED <<params, now, file, signal, onlyOnce, packet, done, twice,
                 fellOut, unsaved>>

\* Getting the channel list, connecting or reading the first messages fails:
\* main() returns.
Return ==
  /\ \/ pc = "turn" /\ ~signal /\ ~onlyOnce
     \/ pc \in {"dap", "pds"}
  /\ Down
  /\ UNCHANGED unsaved

-----------------------------------------------------------------------------
(* The DAP flow                                                            *)

\* Mutant of RequestStart: the first sample is taken for the last handled.
RequestStartNext ==
  CASE seq.after > 0 /\ now - seq.after > params.maxData  -> now - params.maxData
    [] seq.after > 0 /\ now - seq.after <= params.maxData -> seq.after + 1
    [] seq.after <= 0 /\ params.start > 0                 -> params.start
    [] seq.after <= 0 /\ params.start <= 0                -> now - params.maxData

\* The start of the request; the end is now.
RequestStart ==
  CASE seq.after > 0 /\ now - seq.after > params.maxData  -> now - params.maxData
    [] seq.after > 0 /\ now - seq.after <= params.maxData -> seq.after
    [] seq.after <= 0 /\ params.start > 0                 -> params.start
    [] seq.after <= 0 /\ params.start <= 0                -> now - params.maxData

Later(a, b) == IF a > b THEN a ELSE b

Requested == {p \in Complete(now) : End(p) > RequestStart}

\* The packets received, trimmed to the request, are "got": all requested,
\* or the first of them when an error or a signal ends the flow.
Dap ==
  /\ pc = "dap"
  /\ \E got \in {{p \in Requested : p < stop} : stop \in 0 .. (MaxTime + 1)} :
       /\ \/ got = Requested /\ recvErrno' = FALSE
          \/ signal /\ recvErrno' = FALSE
          \/ recvErrno' = TRUE
       /\ \/ got = {} /\ seq' = [seq EXCEPT !.lastTime = RequestStart] /\ UNCHANGED <<done, twice>>
          \/ \E first, last \in got :
               /\ \A p \in got : first <= p /\ p <= last
               /\ seq' = [seq EXCEPT !.lastTime = End(last)]
               /\ LET from == Later(Begin(first), RequestStart)
                  IN  Handle(from, from, End(last) - from)
  /\ params' = [params EXCEPT !.start = RequestStart]
  /\ timesFlow' = timesFlow + 1
  /\ pc' = "save"
  /\ UNCHANGED <<now, file, signal, onlyOnce, packet, fellOut, unsaved>>

-----------------------------------------------------------------------------
(* The PDS flow                                                            *)

\* The channel is requested with NMXP_BUFFER_YES: NaqsServer sends what it
\* has buffered, and then every packet when it is complete.
Pds ==
  /\ pc = "pds"
  /\ pc' = "receive"
  /\ packet' \in 0 .. MaxTime /\ InBuffer(packet')
  /\ \A p \in 0 .. (packet' - 1) : ~InBuffer(p)
  /\ fellOut' = fellOut \cup {t \in 0 .. (Begin(packet') - 1) : t \notin Labels}
  /\ UNCHANGED <<params, now, file, timesFlow, recvErrno, signal, onlyOnce, seq,
                 done, twice, unsaved>>

\* cur_after_start_time
After ==
  CASE seq.after > 0                            -> seq.after
    [] seq.after <= 0 /\ params.buffDate # 0   -> params.buffDate
    [] seq.after <= 0 /\ params.buffDate = 0   -> -1

\* Mutant of Trimmed: a packet that begins where to resume is trimmed too.
TrimmedAtBoundary(p) ==
  LET remove == After - Begin(p) + 1
  IN  CASE Begin(p) > After ->
             [time |-> Begin(p), sample |-> Begin(p), n |-> PacketLen]
        [] Begin(p) <= After /\ PacketLen > remove ->
             [time |-> After, sample |-> Begin(p), n |-> PacketLen - remove]
        [] Begin(p) <= After /\ PacketLen <= remove ->
             [time |-> After, sample |-> Begin(p), n |-> 0]

\* What trimming leaves of packet p: [time, sample, n], its first label, its
\* first sample in pDataPtr and its number of samples, 0 when it is skipped.
\* The samples removed are counted, but stay at the head of pDataPtr.
Trimmed(p) ==
  LET remove == After - Begin(p) + 1
  IN  CASE Begin(p) >= After ->
             [time |-> Begin(p), sample |-> Begin(p), n |-> PacketLen]
        [] Begin(p) < After /\ PacketLen > remove ->
             [time |-> After, sample |-> Begin(p), n |-> PacketLen - remove]
        [] Begin(p) < After /\ PacketLen <= remove ->
             [time |-> After, sample |-> Begin(p), n |-> 0]

\* A raw packet not newer than the last one is discarded by
\* nmxp_raw_stream_manage(); the flow of decompressed packets has no such
\* memory.
IsNew(p) == params.raw => p > seq.seqNo

SeqAfter(p, end) ==
  IF params.raw
  THEN [seq EXCEPT !.seqNo = p, !.rawTime = end]
  ELSE [seq EXCEPT !.lastTime = end]

Receive ==
  /\ pc = "receive"
  /\ packet \in Complete(now)
  /\ packet' = packet + 1
  /\ LET d == Trimmed(packet)
     IN  IF d.n > 0 /\ IsNew(packet)
         THEN Handle(d.time, d.sample, d.n) /\ seq' = SeqAfter(packet, d.time + d.n)
         ELSE UNCHANGED <<done, twice, seq>>
  /\ UNCHANGED <<params, now, file, pc, timesFlow, recvErrno, signal, onlyOnce,
                 fellOut, unsaved>>

\* The PDS loop ends: an error, a forced close (after a packet, or after a
\* time-out, which leaves recv_errno set), or a signal.
EndPds ==
  /\ pc = "receive"
  /\ recvErrno' \in BOOLEAN
  /\ timesFlow' = IF timesFlow = 0 THEN 1 ELSE 100
  /\ pc' = "save"
  /\ packet' = 0
  /\ UNCHANGED <<params, now, file, signal, onlyOnce, seq, done, twice, fellOut,
                 unsaved>>

-----------------------------------------------------------------------------
(* nmxptool_chanseq_save_states()                                          *)

\* fopen(statefile, "w"): when it fails nothing is written.
OpenFile ==
  /\ pc = "save"
  /\ \/ pc' = "write" /\ file' = NoLine /\ UNCHANGED unsaved
     \/ pc' = "flow" /\ unsaved' = TRUE /\ UNCHANGED file
  /\ UNCHANGED <<params, now, timesFlow, recvErrno, signal, onlyOnce, seq,
                 packet, done, twice, fellOut>>

\* fprintf() and fclose()
WriteFile ==
  /\ pc = "write"
  /\ pc' = "flow"
  /\ file' = SavedNow
  /\ UNCHANGED <<params, now, timesFlow, recvErrno, signal, onlyOnce, seq,
                 packet, done, twice, fellOut, unsaved>>

-----------------------------------------------------------------------------
(* Around the program                                                      *)

\* A signal matters when sigcondition is read, and time when the clock or a
\* server is: they happen there only, what comes between does not see them.
Signal ==
  /\ pc \in {"turn", "flow", "dap"}
  /\ ~signal
  /\ signal' = TRUE
  /\ UNCHANGED <<params, now, file, pc, timesFlow, recvErrno, onlyOnce, seq,
                 packet, done, twice, fellOut, unsaved>>

Tick ==
  /\ pc \in {"dap", "pds", "receive", "down"}
  /\ now < MaxTime
  /\ now' = now + 1
  /\ UNCHANGED <<params, file, pc, timesFlow, recvErrno, signal, onlyOnce, seq,
                 packet, done, twice, fellOut, unsaved>>

Crash ==
  /\ pc # "down"
  /\ Down
  /\ unsaved' = TRUE

\* The program is started again, with the same options.
Restart ==
  /\ pc = "down"
  /\ pc' = "turn"
  /\ UNCHANGED <<params, now, file, timesFlow, recvErrno, signal, onlyOnce, seq,
                 packet, done, twice, fellOut, unsaved>>

Init ==
  /\ params \in [raw : RawStreams, maxData : MaxDatas, buffDate : BuffDates, start : {0}]
  /\ now = Start
  /\ file = NoLine
  /\ pc = "turn"
  /\ timesFlow = 0
  /\ recvErrno = FALSE
  /\ signal = FALSE
  /\ onlyOnce = FALSE
  /\ seq = NewSeq
  /\ packet = 0
  /\ done = {}
  /\ twice = FALSE
  /\ fellOut = {}
  /\ unsaved = FALSE

Next ==
  \/ Turn \/ Exit \/ Flow \/ EndFlow \/ Return
  \/ Dap
  \/ Pds \/ Receive \/ EndPds
  \/ OpenFile \/ WriteFile
  \/ Signal \/ Crash \/ Restart \/ Tick

Spec == Init /\ [][Next]_vars

-----------------------------------------------------------------------------
(* Properties                                                              *)

Times == Nat \cup {-1}

TypeOK ==
  /\ params \in [raw : RawStreams, maxData : MaxDatas, buffDate : BuffDates, start : Nat]
  /\ now \in Nat
  /\ file = NoLine \/ file \in [noraw : Nat, raw : Nat]
  /\ pc \in {"turn", "flow", "dap", "pds", "receive", "save", "write", "down"}
  /\ timesFlow \in {0, 1, 2, 100}
  /\ recvErrno \in BOOLEAN /\ signal \in BOOLEAN /\ onlyOnce \in BOOLEAN
  /\ seq \in [lastTime : Nat, rawTime : Times, after : Times, seqNo : Times]
  /\ packet \in Nat
  /\ done \subseteq [time : Nat, sample : Nat]
  /\ twice \in BOOLEAN /\ unsaved \in BOOLEAN
  /\ fellOut \subseteq Nat

\* "To allow data continuity when short disconnections occur or between
\* program restarts": without --buffdate, of the samples between the first one
\* handled and the packet NaqsServer sends next, none is missing but those that
\* it had no longer buffered when it was asked, whatever was interrupted, killed
\* or left unsaved before.
DataContinuity ==
  pc = "receive" /\ params.buffDate = 0 =>
    \A first \in Labels : first .. (Begin(packet) - 1) \subseteq Labels \cup fellOut

\* Without --buffdate the request to the DataServer goes back to the first
\* sample missing in the time -A allows.
DapCoversMissing ==
  pc = "dap" /\ params.buffDate = 0 =>
    \A t \in (now - params.maxData) .. (now - 1) :
      t \in Labels \cup fellOut \/ t >= RequestStart

\* With Raw Stream and without DAP flow no sample is handled twice, over any
\* number of connections and restarts, as long as the state was saved.
HandledOnce ==
  params.raw /\ params.maxData = 0 /\ ~unsaved => ~twice

\* A sample is handled with the time it was taken at.
SamplesKeepTime == \A d \in done : d.time = d.sample
=============================================================================
