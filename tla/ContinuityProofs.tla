---------------------------- MODULE ContinuityProofs ----------------------------
(***************************************************************************)
(* What Continuity guarantees for packets, buffers and times of any size,  *)
(* and every choice of the options it knows.                               *)
(***************************************************************************)
EXTENDS Continuity, TLAPS

\* The samples that are handled, or that NaqsServer had dropped when it was asked.
Had == Labels \cup fellOut

\* The DAP flow reaches back to here; without it nothing is given up.
Floor == IF params.maxData = 0 THEN 0 ELSE now - params.maxData

Covered(v, floor, had) == \A t \in Nat : floor <= t /\ t < v => t \in had

\* A time to resume from is one that the DAP flow can go back to, or one up to which
\* nothing is missing, to the end of the packet it lies in: what trimming this
\* packet leaves out is not lost.
Whole(v, floor, had) == \A p \in Nat : Begin(p) < v => Covered(End(p), floor, had)
Resumes(v, floor, had) == v <= floor \/ (Covered(v, floor, had) /\ Whole(v, floor, had))

\* The times that are, or may become, the one to resume from.
Marks == {params.start, file.noraw, file.raw, seq.lastTime, seq.rawTime, seq.after}

Types ==
  /\ TypeOK
  /\ Start <= now
  /\ pc \in {"dap", "pds", "receive"} => timesFlow \in {0, 1}
  /\ params.maxData = 0 => params.start = 0 /\ pc # "dap"

ResumesOK == params.buffDate = 0 => \A v \in Marks : Resumes(v, Floor, Had)

\* Nothing is missing before the last packet the Raw Stream has seen, and while
\* packets are received nothing before the next one and the one to resume in.
BufferOK ==
  params.buffDate = 0 =>
    /\ Covered(End(seq.seqNo), 0, Had)
    /\ pc = "receive" => Covered(Begin(packet), 0, Had) /\ Whole(seq.after, 0, Had)

\* The time to resume from is later than every sample handled, in the state file
\* and in memory.
OnceOK ==
  params.raw /\ params.maxData = 0 /\ unsaved = FALSE =>
    /\ twice = FALSE
    /\ pc \in {"turn", "down", "flow", "pds"} => \A t \in Labels : t < file.raw
    /\ pc \in {"pds", "receive", "save", "write"} => \A t \in Labels : t < seq.rawTime
    /\ pc = "pds" => \A t \in Labels : t < seq.after
    /\ pc = "receive" => \A t \in Labels : t < After \/ t < Begin(packet)

IInv == Types /\ ResumesOK /\ BufferOK /\ OnceOK

-----------------------------------------------------------------------------
(* Packets and times                                                       *)

LEMMA PacketTimes ==
  ASSUME NEW p \in Nat
  PROVE  /\ Begin(p) \in Nat /\ End(p) \in Nat /\ Begin(p) < End(p)
         /\ End(p) = Begin(p) + PacketLen /\ Begin(p + 1) = End(p)
<1>1. PacketLen \in Nat /\ PacketLen > 0
  BY PacketAssumption
<1>2. p * PacketLen \in Nat /\ (p + 1) * PacketLen = p * PacketLen + PacketLen
  BY <1>1
<1> QED
  BY <1>1, <1>2 DEF Begin, End

LEMMA PacketOrder ==
  ASSUME NEW p \in Nat, NEW q \in Nat, p < q
  PROVE  End(p) <= Begin(q) /\ Begin(p) < Begin(q) /\ End(p) < End(q)
<1>1. PacketLen \in Nat /\ PacketLen > 0
  BY PacketAssumption
<1>2. PICK d \in Nat : q = (p + 1) + d
  <2>1. q - (p + 1) \in Nat /\ q = (p + 1) + (q - (p + 1))
    OBVIOUS
  <2> QED
    BY <2>1
<1>3. q * PacketLen = (p + 1) * PacketLen + d * PacketLen /\ d * PacketLen \in Nat
  BY <1>1, <1>2
<1>4. End(p) <= Begin(q)
  BY <1>1, <1>3 DEF Begin, End
<1> QED
  BY <1>4, PacketTimes

LEMMA EndOfNone == End(-1) = 0
  BY PacketAssumption DEF End

\* What resumes a flow still does when more is covered.
LEMMA ResumesGrows ==
  ASSUME NEW v \in Int, NEW floor \in Int, NEW floor2 \in Int, floor <= floor2,
         NEW had, NEW had2, had \subseteq had2, Resumes(v, floor, had)
  PROVE  Resumes(v, floor2, had2)
<1>1. ASSUME NEW w \in Int, Covered(w, floor, had)
      PROVE  Covered(w, floor2, had2)
  BY <1>1 DEF Covered
<1>2. ASSUME NEW p \in Nat, Covered(End(p), floor, had)
      PROVE  Covered(End(p), floor2, had2)
  BY <1>1, <1>2, PacketTimes
<1>3. CASE v <= floor
  BY <1>3 DEF Resumes
<1>4. CASE Covered(v, floor, had) /\ Whole(v, floor, had)
  BY <1>1, <1>2, <1>4 DEF Resumes, Whole
<1> QED
  BY <1>3, <1>4 DEF Resumes

\* A time in a packet up to whose end nothing is missing resumes a flow.
LEMMA CoveredToEnd ==
  ASSUME NEW p \in Nat, NEW v \in Int, v <= End(p), NEW floor \in Int, NEW had, Covered(End(p), floor, had)
  PROVE  Resumes(v, floor, had)
<1>1. Covered(v, floor, had)
  BY PacketTimes DEF Covered
<1>2. ASSUME NEW q \in Nat, Begin(q) < v
      PROVE  Covered(End(q), floor, had)
  <2>1. ~(p < q)
    BY <1>2, PacketOrder, PacketTimes
  <2>2. End(q) <= End(p)
    BY <2>1, PacketOrder, PacketTimes
  <2> QED
    BY <2>2, PacketTimes DEF Covered
<1> QED
  BY <1>1, <1>2 DEF Resumes, Whole

\* What Handle() does to the labels.
LEMMA HandleLabels ==
  ASSUME TypeOK, NEW t \in Nat, NEW s \in Nat, NEW n \in Nat, Handle(t, s, n)
  PROVE  /\ done' \subseteq [time : Nat, sample : Nat]
         /\ twice' \in BOOLEAN
         /\ Labels' = Labels \cup {x \in Nat : t <= x /\ x < t + n}
         /\ (\A x \in Labels : ~(t <= x /\ x < t + n)) => twice' = twice
<1> DEFINE new == {[time |-> t + i, sample |-> s + i] : i \in 0 .. (n - 1)}
<1>1. done' = done \cup new /\ twice' = (twice \/ \E d \in new : d.time \in Labels)
  BY DEF Handle
<1>2. new \subseteq [time : Nat, sample : Nat]
  OBVIOUS
<1>3. \A d \in new : t <= d.time /\ d.time < t + n
  OBVIOUS
<1>4. \A x \in Nat : t <= x /\ x < t + n => \E d \in new : d.time = x
  <2>1. ASSUME NEW x \in Nat, t <= x, x < t + n
        PROVE  \E d \in new : d.time = x
    <3>1. x - t \in 0 .. (n - 1) /\ t + (x - t) = x
      BY <2>1
    <3>2. [time |-> t + (x - t), sample |-> s + (x - t)] \in new
      BY <3>1
    <3> QED
      BY <3>1, <3>2
  <2> QED
    BY <2>1
<1> HIDE DEF new
<1>5. Labels' = Labels \cup {d.time : d \in new}
  BY <1>1 DEF Labels
<1>6. {d.time : d \in new} = {x \in Nat : t <= x /\ x < t + n}
  BY <1>2, <1>3, <1>4
<1>7. done' \subseteq [time : Nat, sample : Nat] /\ twice' \in BOOLEAN
  BY <1>1, <1>2 DEF TypeOK
<1> QED
  BY <1>1, <1>3, <1>5, <1>6, <1>7 DEF TypeOK

LEMMA FieldTypes ==
  ASSUME TypeOK
  PROVE  /\ params.raw \in BOOLEAN /\ params.maxData \in MaxDatas /\ params.maxData \in Nat
         /\ params.maxData < Start /\ params.buffDate \in Nat /\ params.start \in Nat
         /\ seq.lastTime \in Nat /\ seq.rawTime \in Times /\ seq.after \in Times /\ seq.seqNo \in Times
         /\ file.noraw \in Times /\ file.raw \in Times
<1>1. params.raw \in RawStreams /\ params.maxData \in MaxDatas /\ params.buffDate \in BuffDates /\ params.start \in Nat
  BY DEF TypeOK
<1>2. params.raw \in BOOLEAN /\ params.maxData \in Nat /\ params.buffDate \in Nat
  BY <1>1, OptionsAssumption
<1>3. params.maxData < Start
  BY <1>1, TimeAssumption
<1>4. seq.lastTime \in Nat /\ seq.rawTime \in Times /\ seq.after \in Times /\ seq.seqNo \in Times
  BY DEF TypeOK
<1>5. file.noraw \in Times /\ file.raw \in Times
  BY DEF TypeOK, NoLine, Times
<1> QED
  BY <1>1, <1>2, <1>3, <1>4, <1>5

\* The start of a request is one of the marks, or as far as -A allows.
LEMMA RequestStartIs ==
  ASSUME Types, pc = "dap"
  PROVE  /\ RequestStart \in Nat
         /\ RequestStart \in Marks \/ RequestStart <= Floor
<1>1. /\ params.maxData \in Nat /\ now - params.maxData \in Nat /\ params.maxData # 0
      /\ params.start \in Nat /\ seq.after \in Nat \cup {-1}
  <2>1. params.maxData < Start /\ params.maxData \in Nat /\ Start <= now /\ now \in Nat /\ Start \in Nat
    BY FieldTypes, TimeAssumption DEF Types, TypeOK
  <2>2. now - params.maxData \in Nat
    BY ONLY <2>1
  <2>3. params.start \in Nat /\ seq.after \in Nat \cup {-1}
    BY FieldTypes DEF Types, Times
  <2> QED
    BY <2>1, <2>2, <2>3 DEF Types
<1>2. Floor = now - params.maxData
  BY <1>1 DEF Floor
<1>3. RequestStart = now - params.maxData
        \/ (seq.after > 0 /\ RequestStart = seq.after)
        \/ (params.start > 0 /\ RequestStart = params.start)
  <2>1. CASE seq.after > 0 /\ now - seq.after > params.maxData
    BY <1>1, <2>1 DEF RequestStart
  <2>2. CASE seq.after > 0 /\ ~(now - seq.after > params.maxData)
    BY <1>1, <2>2 DEF RequestStart, Types, TypeOK
  <2>3. CASE ~(seq.after > 0) /\ params.start > 0
    BY <1>1, <2>3 DEF RequestStart
  <2>4. CASE ~(seq.after > 0) /\ ~(params.start > 0)
    BY <1>1, <2>4 DEF RequestStart
  <2> QED
    BY <2>1, <2>2, <2>3, <2>4
<1> QED
  BY <1>1, <1>2, <1>3 DEF Marks

LEMMA AfterIs ==
  ASSUME Types
  PROVE  /\ After \in Int
         /\ seq.after > 0 => After = seq.after
         /\ params.buffDate = 0 => After = IF seq.after > 0 THEN seq.after ELSE -1
<1>1. seq.after \in Nat \cup {-1} /\ params.buffDate \in Nat
  BY FieldTypes DEF Types, Times
<1>2. CASE seq.after > 0
  BY <1>1, <1>2 DEF After
<1>3. CASE ~(seq.after > 0) /\ params.buffDate # 0
  BY <1>1, <1>3 DEF After
<1>4. CASE ~(seq.after > 0) /\ params.buffDate = 0
  BY <1>1, <1>4 DEF After
<1> QED
  BY <1>1, <1>2, <1>3, <1>4

\* Trimming labels what is left with times of the packet, none before the time to
\* resume from, and leaves alone a packet that begins there or later.
LEMMA TrimmedIs ==
  ASSUME Types, NEW p \in Nat
  PROVE  LET d == Trimmed(p) IN
         /\ d.time \in Nat /\ d.sample \in Nat /\ d.n \in Nat
         /\ Begin(p) <= d.time /\ After <= d.time
         /\ d.n > 0 => d.time + d.n <= End(p)
         /\ After <= Begin(p) => d.time = Begin(p) /\ d.n = PacketLen
<1> DEFINE remove == After - Begin(p) + 1
<1>1. /\ After \in Int /\ Begin(p) \in Nat /\ End(p) = Begin(p) + PacketLen /\ PacketLen \in Nat \ {0}
      /\ remove \in Int /\ remove = After - Begin(p) + 1
  BY AfterIs, PacketTimes, PacketAssumption
<1>2. CASE Begin(p) >= After
  <2>1. Trimmed(p) = [time |-> Begin(p), sample |-> Begin(p), n |-> PacketLen]
    BY <1>1, <1>2 DEF Trimmed
  <2> QED
    BY <1>1, <1>2, <2>1
<1>3. CASE Begin(p) < After /\ PacketLen > remove
  <2>1. Trimmed(p) = [time |-> After, sample |-> Begin(p), n |-> PacketLen - remove]
    BY <1>1, <1>3 DEF Trimmed
  <2> QED
    BY <1>1, <1>3, <2>1
<1>4. CASE Begin(p) < After /\ PacketLen <= remove
  <2>1. Trimmed(p) = [time |-> After, sample |-> Begin(p), n |-> 0]
    BY <1>1, <1>4 DEF Trimmed
  <2> QED
    BY <1>1, <1>4, <2>1
<1> QED
  BY <1>1, <1>2, <1>3, <1>4

-----------------------------------------------------------------------------
(* Types                                                                   *)

LEMMA NewSeqType == NewSeq \in [lastTime : Nat, rawTime : Times, after : Times, seqNo : Times]
  BY DEF NewSeq, Times

LEMMA TypesInit == Init => Types
<1> SUFFICES ASSUME Init PROVE Types
  OBVIOUS
<1>1. params \in [raw : RawStreams, maxData : MaxDatas, buffDate : BuffDates, start : Nat] /\ params.start = 0
  BY DEF Init
<1>2. seq \in [lastTime : Nat, rawTime : Times, after : Times, seqNo : Times]
  BY NewSeqType DEF Init
<1>3. TypeOK
  BY <1>1, <1>2, TimeAssumption DEF Init, TypeOK
<1> QED
  BY <1>1, <1>3, TimeAssumption DEF Init, Types

LEMMA LoadedType ==
  ASSUME TypeOK
  PROVE  /\ Loaded \in [lastTime : Nat, rawTime : Times, after : Times, seqNo : Times]
         /\ Loaded.seqNo = seq.seqNo
         /\ file = NoLine => Loaded = seq
         /\ file # NoLine =>
              /\ Loaded.lastTime \in {file.raw, file.noraw}
              /\ Loaded.rawTime = Loaded.lastTime
              /\ Loaded.lastTime = IF file.raw # 0 THEN file.raw ELSE file.noraw
              /\ Loaded.after = IF params.raw THEN file.raw ELSE file.noraw
<1>1. seq \in [lastTime : Nat, rawTime : Times, after : Times, seqNo : Times]
  BY DEF TypeOK
<1>2. CASE file = NoLine
  BY <1>1, <1>2 DEF Loaded
<1>3. CASE file # NoLine
  <2> DEFINE time == IF file.raw # 0 THEN file.raw ELSE file.noraw
  <2>1. file.raw \in Nat /\ file.noraw \in Nat
    BY <1>3 DEF TypeOK
  <2>2. time \in Nat /\ time \in {file.raw, file.noraw}
    BY <2>1
  <2>3. Loaded = [seq EXCEPT !.lastTime = time, !.rawTime = time,
                              !.after = IF params.raw THEN file.raw ELSE file.noraw]
    BY <1>3 DEF Loaded
  <2> DEFINE after == IF params.raw THEN file.raw ELSE file.noraw
  <2>4. after \in Nat
    BY <2>1
  <2> HIDE DEF time, after
  <2>5. /\ Loaded \in [lastTime : Nat, rawTime : Times, after : Times, seqNo : Times]
        /\ Loaded.seqNo = seq.seqNo /\ Loaded.lastTime = time /\ Loaded.rawTime = time /\ Loaded.after = after
    BY <1>1, <2>2, <2>3, <2>4 DEF Times, time, after
  <2>6. /\ Loaded.lastTime \in {file.raw, file.noraw} /\ Loaded.rawTime = Loaded.lastTime
        /\ Loaded.lastTime = IF file.raw # 0 THEN file.raw ELSE file.noraw
        /\ Loaded.after = IF params.raw THEN file.raw ELSE file.noraw
    BY ONLY <2>2, <2>5 DEF time, after
  <2> QED
    BY ONLY <1>3, <2>5, <2>6
<1> QED
  BY <1>2, <1>3

\* The options of the command line are those of the first start.
LEMMA OptionsKept ==
  ASSUME TypeOK, [Next]_vars
  PROVE  /\ params'.raw = params.raw /\ params'.maxData = params.maxData /\ params'.buffDate = params.buffDate
         /\ now' \in {now, now + 1}
<1>1. params \in [raw : RawStreams, maxData : MaxDatas, buffDate : BuffDates, start : Nat]
  BY DEF TypeOK
<1>2. params' = params \/ \E t : params' = [params EXCEPT !.start = t]
  BY DEF Next, Turn, Exit, Down, Flow, EndFlow, Return, Dap, Pds, Receive, EndPds, OpenFile, WriteFile,
         Signal, Crash, Restart, Tick, vars
<1>3. now' \in {now, now + 1}
  BY DEF Next, Turn, Exit, Down, Flow, EndFlow, Return, Dap, Pds, Receive, EndPds, OpenFile, WriteFile,
         Signal, Crash, Restart, Tick, vars
<1> QED
  BY ONLY <1>1, <1>2, <1>3

LEMMA TypesNext == Types /\ [Next]_vars => Types'
<1> SUFFICES ASSUME Types, [Next]_vars PROVE Types'
  OBVIOUS
<1> USE DEF Types
<1>1. ASSUME Down, unsaved' \in BOOLEAN
      PROVE  Types'
  BY <1>1, NewSeqType DEF Down, TypeOK
<1>2. CASE Turn
  BY <1>2, NewSeqType DEF Turn, TypeOK
<1>3. CASE Exit \/ Return \/ Crash
  BY <1>1, <1>3 DEF Exit, Return, Crash, TypeOK
<1>4. CASE Flow
  <2>1. timesFlow \in {0, 1}
    BY <1>4 DEF Flow, TypeOK
  <2>2. seq' \in [lastTime : Nat, rawTime : Times, after : Times, seqNo : Times]
    BY <1>4, LoadedType DEF Flow
  <2>3. /\ params' \in [raw : RawStreams, maxData : MaxDatas, buffDate : BuffDates, start : Nat]
        /\ params'.start \in {0, params.start} /\ params'.maxData = params.maxData
    BY <1>4 DEF Flow, TypeOK
  <2>4. params.maxData \in Nat
    BY OptionsAssumption DEF TypeOK
  <2>5. params'.maxData = 0 => params'.start = 0 /\ pc' # "dap"
    BY <1>4, <2>3, <2>4 DEF Flow, DapCondition
  <2> QED
    BY <1>4, <2>1, <2>2, <2>3, <2>5 DEF Flow, TypeOK
<1>5. CASE EndFlow
  BY <1>5, NewSeqType DEF EndFlow, TypeOK
<1>6. CASE Dap
  <2>1. RequestStart \in Nat
    BY <1>6, RequestStartIs DEF Dap
  <2>2. params' \in [raw : RawStreams, maxData : MaxDatas, buffDate : BuffDates, start : Nat]
        /\ params'.maxData = params.maxData /\ params.maxData # 0
    BY <1>6, <2>1 DEF Dap, TypeOK
  <2>3. timesFlow' \in {1, 2} /\ recvErrno' \in BOOLEAN /\ pc' = "save"
    <3>1. timesFlow \in {0, 1} /\ timesFlow' = timesFlow + 1 /\ pc' = "save"
      BY <1>6 DEF Dap
    <3>2. recvErrno' = FALSE \/ recvErrno' = TRUE
      BY <1>6 DEF Dap
    <3>3. timesFlow' \in {1, 2}
      BY ONLY <3>1
    <3> QED
      BY ONLY <3>1, <3>2, <3>3
  <2>4. /\ seq' \in [lastTime : Nat, rawTime : Times, after : Times, seqNo : Times]
        /\ done' \subseteq [time : Nat, sample : Nat] /\ twice' \in BOOLEAN
    <3>1. CASE seq' = [seq EXCEPT !.lastTime = RequestStart] /\ UNCHANGED <<done, twice>>
      BY <2>1, <3>1 DEF TypeOK
    <3>2. ASSUME NEW first \in Requested, NEW last \in Requested,
                 seq' = [seq EXCEPT !.lastTime = End(last)],
                 LET from == Later(Begin(first), RequestStart)
                 IN  first <= last /\ Handle(from, from, End(last) - from)
          PROVE  /\ seq' \in [lastTime : Nat, rawTime : Times, after : Times, seqNo : Times]
                 /\ done' \subseteq [time : Nat, sample : Nat] /\ twice' \in BOOLEAN
      <4> DEFINE from == Later(Begin(first), RequestStart)
      <4>1. first \in Nat /\ last \in Nat /\ End(last) > RequestStart
        BY TimeAssumption DEF Requested, Complete
      <4>2. Begin(first) \in Nat /\ End(last) \in Nat /\ Begin(first) < End(last)
        BY <3>2, <4>1, PacketTimes, PacketOrder
      <4>3. from \in Nat /\ End(last) - from \in Nat
        BY <2>1, <4>1, <4>2 DEF Later
      <4> HIDE DEF from
      <4>4. Handle(from, from, End(last) - from)
        BY <3>2 DEF from
      <4>5. done' \subseteq [time : Nat, sample : Nat] /\ twice' \in BOOLEAN
        BY <4>3, <4>4, HandleLabels
      <4> QED
        BY <3>2, <4>2, <4>5 DEF TypeOK
    <3> QED
      BY <1>6, <3>1, <3>2 DEF Dap
  <2> QED
    BY <1>6, <2>2, <2>3, <2>4 DEF Dap, TypeOK
<1>7. CASE Pds
  <2>1. packet' \in Nat /\ Begin(packet') \in Nat
    BY <1>7, TimeAssumption, PacketTimes DEF Pds
  <2>2. fellOut' \subseteq Nat
    <3> DEFINE b == Begin(packet')
    <3>1. fellOut' = fellOut \cup {t \in 0 .. (b - 1) : t \notin Labels} /\ b \in Nat /\ fellOut \subseteq Nat
      BY <1>7, <2>1 DEF Pds, TypeOK
    <3> HIDE DEF b
    <3>2. ASSUME NEW t \in fellOut'
          PROVE  t \in Nat
      BY ONLY <3>1, <3>2
    <3> QED
      BY ONLY <3>2
  <2> QED
    BY <1>7, <2>1, <2>2 DEF Pds, TypeOK
<1>8. CASE Receive
  <2> DEFINE d == Trimmed(packet)
  <2>1. packet \in Nat
    BY DEF TypeOK
  <2>2. d.time \in Nat /\ d.sample \in Nat /\ d.n \in Nat
    BY <2>1, TrimmedIs
  <2> HIDE DEF d
  <2>3. /\ seq' \in [lastTime : Nat, rawTime : Times, after : Times, seqNo : Times]
        /\ done' \subseteq [time : Nat, sample : Nat] /\ twice' \in BOOLEAN
    <3>1. CASE UNCHANGED <<done, twice, seq>>
      BY <3>1 DEF TypeOK
    <3>2. CASE Handle(d.time, d.sample, d.n) /\ seq' = SeqAfter(packet, d.time + d.n)
      <4>1. done' \subseteq [time : Nat, sample : Nat] /\ twice' \in BOOLEAN
        BY <2>2, <3>2, HandleLabels
      <4>2. seq \in [lastTime : Nat, rawTime : Times, after : Times, seqNo : Times]
        BY DEF TypeOK
      <4>3. d.time + d.n \in Nat
        BY <2>2
      <4>4. seq' \in [lastTime : Nat, rawTime : Times, after : Times, seqNo : Times]
        BY <2>1, <3>2, <4>2, <4>3 DEF SeqAfter, Times
      <4> QED
        BY <4>1, <4>4
    <3> QED
      BY <1>8, <3>1, <3>2 DEF Receive, d
  <2>4. packet' \in Nat
    BY <1>8, <2>1 DEF Receive
  <2> QED
    BY <1>8, <2>3, <2>4 DEF Receive, TypeOK
<1>9. CASE EndPds
  BY <1>9 DEF EndPds, TypeOK
<1>10. CASE OpenFile
  <2>1. /\ UNCHANGED <<params, now, timesFlow, recvErrno, signal, onlyOnce, seq, packet, done, twice, fellOut>>
        /\ file' \in {file, NoLine} /\ pc' \in {"write", "flow"} /\ unsaved' \in {unsaved, TRUE}
    BY <1>10 DEF OpenFile
  <2>2. file' = NoLine \/ file' \in [noraw : Nat, raw : Nat]
    BY <2>1 DEF TypeOK
  <2>3. unsaved' \in BOOLEAN
    BY <2>1 DEF TypeOK
  <2>4. now' = now /\ params' = params /\ timesFlow' = timesFlow /\ pc' \in {"write", "flow"}
    BY <2>1
  <2>5. TypeOK'
    BY <2>1, <2>2, <2>3 DEF TypeOK
  <2> QED
    BY <2>4, <2>5
<1>11. CASE WriteFile
  <2>1. SavedNow \in [noraw : Nat, raw : Nat]
    BY DEF SavedNow, Printed, TypeOK, Times
  <2> QED
    BY <1>11, <2>1 DEF WriteFile, TypeOK
<1>12. CASE Signal \/ Restart
  <2>1. /\ UNCHANGED <<params, now, file, timesFlow, recvErrno, onlyOnce, seq, packet, done, twice,
                     fellOut, unsaved>>
        /\ signal' \in BOOLEAN /\ pc' \in {pc, "turn"}
    BY <1>12 DEF Signal, Restart, TypeOK
  <2> QED
    BY <2>1 DEF TypeOK
<1>13. CASE Tick
  BY <1>13, TimeAssumption DEF Tick, TypeOK
<1>14. CASE UNCHANGED vars
  BY <1>14 DEF vars, TypeOK
<1> QED
  BY <1>2, <1>3, <1>4, <1>5, <1>6, <1>7, <1>8, <1>9, <1>10, <1>11, <1>12, <1>13, <1>14 DEF Next

-----------------------------------------------------------------------------
(* The flows                                                               *)

\* A DAP flow handles every sample from the start of its request to the end of the
\* last packet it gets.
LEMMA DapHandles ==
  ASSUME Types, Dap
  PROVE  \/ seq' = [seq EXCEPT !.lastTime = RequestStart] /\ done' = done
         \/ \E last \in Nat :
              /\ seq' = [seq EXCEPT !.lastTime = End(last)]
              /\ Labels \subseteq Labels'
              /\ \A t \in Nat : RequestStart <= t /\ t < End(last) => t \in Labels'
<1>0. RequestStart \in Nat /\ MaxTime \in Nat /\ now \in Nat
  BY RequestStartIs, TimeAssumption DEF Dap, Types, TypeOK
<1>1. CASE seq' = [seq EXCEPT !.lastTime = RequestStart] /\ UNCHANGED <<done, twice>>
  BY <1>1
<1>2. ASSUME NEW stop \in 0 .. (MaxTime + 1),
             NEW first \in {p \in Requested : p < stop}, NEW last \in {p \in Requested : p < stop},
             \A p \in {q \in Requested : q < stop} : first <= p /\ p <= last,
             seq' = [seq EXCEPT !.lastTime = End(last)],
             LET from == Later(Begin(first), RequestStart)
             IN  Handle(from, from, End(last) - from)
      PROVE  \E l \in Nat :
              /\ seq' = [seq EXCEPT !.lastTime = End(l)]
              /\ Labels \subseteq Labels'
              /\ \A t \in Nat : RequestStart <= t /\ t < End(l) => t \in Labels'
  <2>1. /\ first \in 0 .. MaxTime /\ End(first) <= now /\ first < stop
        /\ last \in 0 .. MaxTime /\ RequestStart < End(last)
    BY <1>0 DEF Requested, Complete
  <2>2. Begin(first) \in Nat /\ End(last) \in Nat /\ End(first) \in Nat
    BY <1>0, <2>1, PacketTimes
  <2>3. Begin(first) <= RequestStart
    <3>1. CASE first = 0
      BY <1>0, <3>1, PacketAssumption DEF Begin
    <3>2. CASE first # 0
      <4> DEFINE p == first - 1
      <4>1. p \in Nat /\ p \in 0 .. MaxTime /\ p < stop /\ ~(first <= p) /\ p + 1 = first /\ stop \in Int
        BY <1>0, <2>1, <3>2
      <4> HIDE DEF p
      <4>2. End(p) = Begin(first) /\ End(p) \in Nat
        BY <4>1, PacketTimes
      <4>3. End(p) <= now
        BY <1>0, <2>1, <2>2, <4>2, PacketTimes
      <4>4. p \notin Requested
        BY <1>2, <4>1
      <4>5. ~(End(p) > RequestStart)
        BY <4>1, <4>3, <4>4 DEF Requested, Complete
      <4> QED
        BY <1>0, <4>2, <4>5
    <3> QED
      BY <3>1, <3>2
  <2>4. Later(Begin(first), RequestStart) = RequestStart
    BY <1>0, <2>2, <2>3 DEF Later
  <2> DEFINE n == End(last) - RequestStart
  <2>5. Handle(RequestStart, RequestStart, n)
    BY <1>2, <2>4
  <2>6. n \in Nat /\ RequestStart + n = End(last)
    BY <1>0, <2>1, <2>2
  <2> HIDE DEF n
  <2>7. Labels' = Labels \cup {x \in Nat : RequestStart <= x /\ x < RequestStart + n}
    BY <1>0, <2>5, <2>6, HandleLabels DEF Types
  <2> QED
    BY <1>0, <1>2, <2>1, <2>6, <2>7
<1> QED
  BY <1>1, <1>2 DEF Dap

\* A packet that is received is handled as trimmed, or it is left out: nothing is
\* left of it, or the Raw Stream has seen it.
LEMMA ReceiveHandles ==
  ASSUME Types, Receive, NEW d, d = Trimmed(packet)
  PROVE  \/ /\ seq' = SeqAfter(packet, d.time + d.n) /\ d.n > 0
            /\ Labels' = Labels \cup {x \in Nat : d.time <= x /\ x < d.time + d.n}
            /\ (\A x \in Labels : ~(d.time <= x /\ x < d.time + d.n)) => twice' = twice
         \/ /\ UNCHANGED <<done, twice, seq>>
            /\ d.n = 0 \/ (params.raw /\ packet <= seq.seqNo)
<1>1. packet \in Nat /\ seq.seqNo \in Times
  BY FieldTypes DEF Types, TypeOK
<1>2. d.time \in Nat /\ d.sample \in Nat /\ d.n \in Nat
  BY <1>1, TrimmedIs
<1>3. IF d.n > 0 /\ IsNew(packet)
        THEN Handle(d.time, d.sample, d.n) /\ seq' = SeqAfter(packet, d.time + d.n)
        ELSE UNCHANGED <<done, twice, seq>>
  BY DEF Receive
<1>4. CASE d.n > 0 /\ IsNew(packet)
  BY <1>2, <1>3, <1>4, HandleLabels DEF Types
<1>5. CASE ~(d.n > 0 /\ IsNew(packet))
  <2>1. d.n = 0 \/ (params.raw /\ ~(packet > seq.seqNo))
    BY <1>2, <1>5 DEF IsNew
  <2> QED
    BY <1>1, <1>3, <1>5, <2>1 DEF Times
<1> QED
  BY <1>4, <1>5

\* When a packet has been received, nothing is missing up to its end, though it may
\* have been trimmed.
LEMMA ReceiveCovers ==
  ASSUME Types, BufferOK, Receive, params.buffDate = 0
  PROVE  /\ Covered(End(packet), 0, Had') /\ Had \subseteq Had'
         /\ seq' = seq \/ \E m \in Int : m <= End(packet) /\ seq' = SeqAfter(packet, m)
<1> DEFINE d == Trimmed(packet)
<1>1. /\ packet \in Nat /\ seq.after \in Times /\ seq.seqNo \in Times /\ PacketLen \in Nat \ {0}
  BY FieldTypes, PacketAssumption DEF Types, TypeOK
<1>2. /\ Covered(End(seq.seqNo), 0, Had) /\ Covered(Begin(packet), 0, Had)
      /\ Begin(packet) < seq.after => Covered(End(packet), 0, Had)
  BY <1>1 DEF BufferOK, Receive, Whole
<1>3. /\ Begin(packet) \in Nat /\ End(packet) \in Nat /\ End(packet) = Begin(packet) + PacketLen
  BY <1>1, PacketTimes
<1>4. After \in Int /\ After = IF seq.after > 0 THEN seq.after ELSE -1
  BY AfterIs
<1>5. /\ d.time \in Nat /\ d.n \in Nat
      /\ d.n > 0 => d.time + d.n <= End(packet)
      /\ After <= Begin(packet) => d.time = Begin(packet) /\ d.n = PacketLen
  BY <1>1, TrimmedIs
<1>6. \/ /\ seq' = SeqAfter(packet, d.time + d.n) /\ d.n > 0
         /\ Labels' = Labels \cup {x \in Nat : d.time <= x /\ x < d.time + d.n}
      \/ /\ UNCHANGED <<done, seq>>
         /\ d.n = 0 \/ (params.raw /\ packet <= seq.seqNo)
  BY ReceiveHandles
<1> HIDE DEF d
<1>7. fellOut' = fellOut /\ Labels \subseteq Labels'
  BY <1>6 DEF Receive, Labels
<1>8. Had \subseteq Had'
  BY <1>7 DEF Had
<1>9. seq' = seq \/ \E m \in Int : m <= End(packet) /\ seq' = SeqAfter(packet, m)
  BY <1>5, <1>6
<1>10. Covered(End(packet), 0, Had')
  <2>1. CASE Begin(packet) < seq.after
    BY <1>2, <1>8, <2>1 DEF Covered
  <2>2. CASE ~(Begin(packet) < seq.after) /\ ~(params.raw /\ packet <= seq.seqNo)
    <3>1. After <= Begin(packet)
      BY <1>1, <1>3, <1>4, <2>2 DEF Times
    <3>2. d.time = Begin(packet) /\ d.n = PacketLen
      BY <1>5, <3>1
    <3>3. \A x \in Nat : Begin(packet) <= x /\ x < End(packet) => x \in Labels'
      BY <1>1, <1>3, <1>6, <2>2, <3>2
    <3>4. ASSUME NEW x \in Nat, x < End(packet)
          PROVE  x \in Had'
      <4>1. CASE x < Begin(packet)
        BY <1>2, <1>8, <4>1 DEF Covered
      <4>2. CASE Begin(packet) <= x
        BY <3>3, <3>4, <4>2 DEF Had
      <4> QED
        BY <1>3, <4>1, <4>2
    <3> QED
      BY <3>4 DEF Covered
  <2>3. CASE packet <= seq.seqNo
    <3>1. seq.seqNo \in Nat
      BY <1>1, <2>3 DEF Times
    <3> DEFINE n == seq.seqNo
    <3>2. n \in Nat /\ (packet = n \/ packet < n) /\ Covered(End(n), 0, Had)
      BY <1>1, <1>2, <2>3, <3>1
    <3> HIDE DEF n
    <3>3. End(n) \in Nat /\ End(packet) <= End(n)
      <4>1. CASE packet = n
        BY <1>3, <4>1
      <4>2. CASE packet < n
        BY <1>1, <1>3, <3>2, <4>2, PacketOrder, PacketTimes
      <4> QED
        BY <3>2, <4>1, <4>2
    <3> QED
      BY <1>3, <1>8, <3>2, <3>3 DEF Covered
  <2> QED
    BY <2>1, <2>2, <2>3
<1> QED
  BY <1>8, <1>9, <1>10

-----------------------------------------------------------------------------
(* The times to resume from                                                *)

LEMMA FloorIs ==
  ASSUME Types
  PROVE  Floor \in Nat /\ (params.maxData # 0 => Floor = now - params.maxData)
<1>1. params.maxData \in Nat /\ params.maxData < Start /\ Start <= now /\ now \in Nat /\ Start \in Nat
  BY FieldTypes, TimeAssumption DEF Types, TypeOK
<1> QED
  BY <1>1 DEF Floor

LEMMA MarksAre ==
  ASSUME TypeOK
  PROVE  \A v \in Marks : v \in Int
  BY FieldTypes DEF Marks, Times

LEMMA ResumesNext == Types /\ Types' /\ ResumesOK /\ BufferOK /\ [Next]_vars => ResumesOK'
<1> SUFFICES ASSUME Types, Types', ResumesOK, BufferOK, [Next]_vars, params'.buffDate = 0 PROVE ResumesOK'
  BY DEF ResumesOK
<1>1. /\ params'.buffDate = params.buffDate /\ params'.maxData = params.maxData
      /\ params'.raw = params.raw /\ now' \in {now, now + 1}
  BY OptionsKept DEF Types
<1>2. \A v \in Marks : v \in Int /\ Resumes(v, Floor, Had)
  BY <1>1, MarksAre DEF ResumesOK, Types
<1>3. \A v \in Marks' : v \in Int
  <2>1. /\ params'.start \in Nat
        /\ seq' \in [lastTime : Nat, rawTime : Times, after : Times, seqNo : Times]
        /\ file' = NoLine \/ file' \in [noraw : Nat, raw : Nat]
    BY DEF Types, TypeOK
  <2>2. file'.noraw \in Times /\ file'.raw \in Times
    BY <2>1 DEF NoLine, Times
  <2>3. seq'.lastTime \in Nat /\ seq'.rawTime \in Times /\ seq'.after \in Times
    BY <2>1
  <2> QED
    BY <2>1, <2>2, <2>3 DEF Marks, Times
<1>4. Floor \in Nat /\ Floor' \in Nat /\ Floor <= Floor'
  <2>1. Floor \in Nat /\ now \in Nat
    BY FloorIs DEF Types, TypeOK
  <2>2. params.maxData \in Nat
    BY FieldTypes DEF Types
  <2> QED
    BY <1>1, <2>1, <2>2 DEF Floor
<1>5. ASSUME Had \subseteq Had',
             \A v \in Marks' : v \in Marks \/ v <= 0 \/ Resumes(v, Floor', Had')
      PROVE  ResumesOK'
  <2>1. ASSUME NEW v \in Marks'
        PROVE  Resumes(v, Floor', Had')
    <3>1. CASE v \in Marks
      BY <1>2, <1>4, <1>5, <3>1, ResumesGrows
    <3>2. CASE v <= 0
      BY <1>3, <1>4, <3>2 DEF Resumes
    <3> QED
      BY <1>5, <3>1, <3>2
  <2> QED
    BY <2>1 DEF ResumesOK
<1>6. ASSUME Had' = Had, Marks' \subseteq Marks \cup {0, -1}
      PROVE  ResumesOK'
  BY <1>5, <1>6
<1>7. ASSUME UNCHANGED <<done, fellOut>>
      PROVE  Had' = Had
  BY <1>7 DEF Had, Labels
<1>8. ASSUME Down
      PROVE  ResumesOK'
  <2>1. Marks' \subseteq Marks \cup {0, -1}
    BY <1>8 DEF Down, Marks, NewSeq, Types, TypeOK
  <2> QED
    BY <1>6, <1>7, <1>8, <2>1 DEF Down
<1>9. CASE Turn \/ EndFlow
  <2>1. Marks' \subseteq Marks \cup {0, -1} /\ UNCHANGED <<done, fellOut>>
    BY <1>9 DEF Turn, EndFlow, Marks, NewSeq
  <2> QED
    BY <1>6, <1>7, <2>1
<1>10. CASE Flow
  <2>1. params'.start \in {0, params.start} /\ seq' = Loaded /\ UNCHANGED <<file, done, fellOut>>
    BY <1>10 DEF Flow, Types, TypeOK
  <2>2. {Loaded.lastTime, Loaded.rawTime, Loaded.after} \subseteq Marks
    BY LoadedType DEF Types, Marks
  <2>3. Marks' \subseteq Marks \cup {0, -1}
    BY <2>1, <2>2 DEF Marks
  <2> QED
    BY <1>6, <1>7, <2>1, <2>3
<1>11. CASE Dap
  <2>1. /\ params'.start = RequestStart /\ UNCHANGED <<now, file, fellOut>> /\ pc = "dap"
        /\ RequestStart \in Nat /\ (RequestStart \in Marks \/ RequestStart <= Floor)
    BY <1>11, RequestStartIs DEF Dap, Types, TypeOK
  <2>2. Resumes(RequestStart, Floor, Had)
    BY <1>2, <1>4, <2>1 DEF Resumes
  <2>3. CASE seq' = [seq EXCEPT !.lastTime = RequestStart] /\ done' = done
    <3>1. Had' = Had /\ Floor' = Floor
      BY <1>1, <1>7, <2>1, <2>3 DEF Floor
    <3>2. Marks' \subseteq Marks \cup {RequestStart}
      BY <2>1, <2>3 DEF Marks, Types, TypeOK
    <3> QED
      BY <1>5, <2>2, <3>1, <3>2
  <2>4. ASSUME NEW last \in Nat,
               seq' = [seq EXCEPT !.lastTime = End(last)],
               Labels \subseteq Labels',
               \A t \in Nat : RequestStart <= t /\ t < End(last) => t \in Labels'
        PROVE  ResumesOK'
    <3>1. Had \subseteq Had' /\ Floor' = Floor
      BY <1>1, <2>1, <2>4 DEF Had, Floor
    <3>2. Resumes(RequestStart, Floor', Had')
      BY <1>4, <2>1, <2>2, <3>1, ResumesGrows
    <3>3. Covered(End(last), Floor', Had')
      <4>1. ASSUME NEW t \in Nat, Floor' <= t, t < End(last)
            PROVE  t \in Had'
        <5>1. CASE t < RequestStart
          <6>1. ~(RequestStart <= Floor')
            BY <1>4, <2>1, <4>1, <5>1
          <6> QED
            BY <3>2, <4>1, <5>1, <6>1 DEF Resumes, Covered
        <5>2. CASE RequestStart <= t
          BY <2>4, <4>1, <5>2 DEF Had
        <5> QED
          BY <2>1, <5>1, <5>2
      <4> QED
        BY <4>1 DEF Covered
    <3>4. Resumes(End(last), Floor', Had')
      <4>1. End(last) \in Int /\ End(last) <= End(last) /\ Floor' \in Int
        BY <1>4, PacketTimes
      <4> QED
        BY <3>3, <4>1, CoveredToEnd
    <3>5. Marks' \subseteq Marks \cup {RequestStart, End(last)}
      BY <2>1, <2>4 DEF Marks, Types, TypeOK
    <3> QED
      BY <1>5, <3>1, <3>2, <3>4, <3>5
  <2> QED
    BY <1>11, <2>3, <2>4, DapHandles
<1>12. CASE Pds
  <2>1. Marks' = Marks /\ Had \subseteq Had'
    BY <1>12 DEF Pds, Marks, Had, Labels
  <2> QED
    BY <1>5, <2>1
<1>13. CASE Receive
  <2>1. /\ Covered(End(packet), 0, Had') /\ Had \subseteq Had' /\ packet \in Nat
        /\ seq' = seq \/ \E m \in Int : m <= End(packet) /\ seq' = SeqAfter(packet, m)
    BY <1>1, <1>13, ReceiveCovers DEF Types, TypeOK
  <2>2. Covered(End(packet), Floor', Had')
    BY <1>4, <2>1 DEF Covered
  <2>3. UNCHANGED <<params, file>>
    BY <1>13 DEF Receive
  <2>4. CASE seq' = seq
    BY <1>5, <2>1, <2>3, <2>4 DEF Marks
  <2>5. ASSUME NEW m \in Int, m <= End(packet), seq' = SeqAfter(packet, m)
        PROVE  ResumesOK'
    <3>1. Resumes(m, Floor', Had')
      BY <1>4, <2>1, <2>2, <2>5, CoveredToEnd
    <3>2. Marks' \subseteq Marks \cup {m}
      BY <2>3, <2>5 DEF Marks, SeqAfter, Types, TypeOK
    <3> QED
      BY <1>5, <2>1, <3>1, <3>2
  <2> QED
    BY <2>1, <2>4, <2>5
<1>14. CASE WriteFile
  <2>1. /\ file' = SavedNow /\ UNCHANGED <<params, seq, done, fellOut>>
        /\ file'.noraw \in {seq.lastTime, 0} /\ file'.raw \in {seq.rawTime, 0}
    BY <1>14 DEF WriteFile, SavedNow, Printed
  <2>2. Marks' \subseteq Marks \cup {0, -1}
    BY <2>1 DEF Marks
  <2> QED
    BY <1>6, <1>7, <2>1, <2>2
<1>15. CASE OpenFile
  <2>1. /\ file' \in {file, NoLine} /\ UNCHANGED <<params, seq, done, fellOut>>
    BY <1>15 DEF OpenFile
  <2>2. Marks' \subseteq Marks \cup {0, -1}
    BY <2>1 DEF Marks, NoLine
  <2> QED
    BY <1>6, <1>7, <2>1, <2>2
<1>16. CASE EndPds \/ Signal \/ Restart \/ Tick \/ UNCHANGED vars
  <2>1. Marks' = Marks /\ UNCHANGED <<done, fellOut>>
    BY <1>16 DEF EndPds, Signal, Restart, Tick, vars, Marks
  <2> QED
    BY <1>6, <1>7, <2>1
<1> QED
  BY <1>8, <1>9, <1>10, <1>11, <1>12, <1>13, <1>14, <1>15, <1>16 DEF Next, Exit, Return, Crash

-----------------------------------------------------------------------------
(* What NaqsServer sends                                                   *)

LEMMA BufferOKNext == Types /\ ResumesOK /\ BufferOK /\ [Next]_vars => BufferOK'
<1> SUFFICES ASSUME Types, ResumesOK, BufferOK, [Next]_vars, params'.buffDate = 0 PROVE BufferOK'
  BY DEF BufferOK
<1>1. params.buffDate = 0
  BY OptionsKept DEF Types
<1>2. /\ Covered(End(seq.seqNo), 0, Had)
      /\ pc = "receive" => Covered(Begin(packet), 0, Had) /\ Whole(seq.after, 0, Had)
  BY <1>1 DEF BufferOK
<1>3. ASSUME NEW v, NEW had, NEW had2, had \subseteq had2, Covered(v, 0, had)
      PROVE  Covered(v, 0, had2)
  BY <1>3 DEF Covered
<1>4. Covered(End(NewSeq.seqNo), 0, Had')
  BY EndOfNone DEF NewSeq, Covered
<1>5. ASSUME Had \subseteq Had', seq'.seqNo = seq.seqNo \/ seq' = NewSeq, pc' # "receive"
      PROVE  BufferOK'
  BY <1>2, <1>3, <1>4, <1>5 DEF BufferOK
<1>6. Labels \subseteq Labels' /\ fellOut \subseteq fellOut' => Had \subseteq Had'
  BY DEF Had
<1>7. UNCHANGED done => Labels' = Labels
  BY DEF Labels
<1>8. CASE Exit \/ Return \/ Crash \/ Turn \/ EndFlow
  BY <1>5, <1>6, <1>7, <1>8 DEF Exit, Return, Crash, Down, Turn, EndFlow
<1>9. CASE Flow
  <2>1. seq'.seqNo = seq.seqNo /\ pc' # "receive" /\ UNCHANGED <<done, fellOut>>
    BY <1>9, LoadedType DEF Flow, Types
  <2> QED
    BY <1>5, <1>6, <1>7, <2>1
<1>10. CASE Dap
  <2>1. pc' # "receive" /\ fellOut' = fellOut
    BY <1>10 DEF Dap
  <2>2. seq'.seqNo = seq.seqNo /\ Labels \subseteq Labels'
    BY <1>7, <1>10, DapHandles DEF Types, TypeOK
  <2> QED
    BY <1>5, <1>6, <2>1, <2>2
<1>11. CASE Pds
  <2>1. /\ packet' \in Nat /\ InBuffer(packet') /\ UNCHANGED <<params, now, seq, done>>
        /\ fellOut' = fellOut \cup {t \in 0 .. (Begin(packet') - 1) : t \notin Labels}
    BY <1>11, TimeAssumption DEF Pds
  <2>2. Begin(packet') \in Nat
    BY <2>1, PacketTimes
  <2>3. Had \subseteq Had'
    BY <1>6, <1>7, <2>1
  <2>4. Covered(Begin(packet'), 0, Had')
    <3>1. ASSUME NEW t \in Nat, t < Begin(packet')
          PROVE  t \in Had'
      <4>1. t \in 0 .. (Begin(packet') - 1)
        BY <2>2, <3>1
      <4>2. t \in Labels \/ t \in fellOut'
        BY <2>1, <4>1
      <4> QED
        BY <1>7, <2>1, <4>2 DEF Had
    <3> QED
      BY <3>1 DEF Covered
  <2>5. Floor <= Begin(packet')
    <3>1. CASE params.maxData = 0
      BY <2>2, <3>1 DEF Floor
    <3>2. CASE params.maxData # 0
      <4>1. params.maxData \in MaxDatas \ {0} /\ params.maxData \in Nat
        BY <3>2, FieldTypes DEF Types
      <4>2. params.maxData >= BufferLength
        BY <4>1, ReachAssumption
      <4>3. Begin(packet') >= now - BufferLength /\ BufferLength \in Nat /\ now \in Nat
        BY <2>1, PacketAssumption DEF InBuffer, Types, TypeOK
      <4>4. now - params.maxData <= Begin(packet')
        BY ONLY <2>2, <4>1, <4>2, <4>3
      <4> QED
        BY <3>2, <4>4 DEF Floor
    <3> QED
      BY <3>1, <3>2
  <2>6. seq.after \in Int /\ Resumes(seq.after, Floor, Had)
    BY <1>1, MarksAre DEF ResumesOK, Marks, Types
  <2>7. Whole(seq.after, 0, Had')
    <3>1. Floor \in Nat
      BY FloorIs
    <3>2. ASSUME NEW p \in Nat, Begin(p) < seq.after
          PROVE  Covered(End(p), 0, Had')
      <4>1. Begin(p) \in Nat /\ End(p) \in Nat
        BY PacketTimes
      <4>2. CASE seq.after <= Floor
        <5>1. Begin(p) < Begin(packet')
          BY <2>2, <2>5, <2>6, <3>1, <3>2, <4>1, <4>2
        <5>2. p < packet'
          BY <2>1, <2>2, <4>1, <5>1, PacketOrder
        <5>3. End(p) <= Begin(packet')
          BY <2>1, <5>2, PacketOrder
        <5> QED
          BY <2>2, <2>4, <4>1, <5>3 DEF Covered
      <4>3. CASE Whole(seq.after, Floor, Had)
        <5>1. Covered(End(p), Floor, Had)
          BY <3>2, <4>3 DEF Whole
        <5>2. ASSUME NEW t \in Nat, t < End(p)
              PROVE  t \in Had'
          <6>1. CASE t < Begin(packet')
            BY <2>4, <5>2, <6>1 DEF Covered
          <6>2. CASE Floor <= t
            BY <2>3, <5>1, <5>2, <6>2 DEF Covered
          <6> QED
            BY <2>2, <2>5, <3>1, <6>1, <6>2
        <5> QED
          BY <5>2 DEF Covered
      <4> QED
        BY <2>6, <4>2, <4>3 DEF Resumes
    <3> QED
      BY <3>2 DEF Whole
  <2>8. Covered(End(seq'.seqNo), 0, Had')
    BY <1>2, <1>3, <2>1, <2>3
  <2> QED
    BY <2>1, <2>4, <2>7, <2>8 DEF BufferOK
<1>12. CASE Receive
  <2>1. /\ packet \in Nat /\ packet' = packet + 1 /\ pc = "receive"
    BY <1>12 DEF Receive, Types, TypeOK
  <2>2. /\ Covered(End(packet), 0, Had') /\ Had \subseteq Had'
        /\ seq' = seq \/ \E m \in Int : m <= End(packet) /\ seq' = SeqAfter(packet, m)
    BY <1>1, <1>12, ReceiveCovers
  <2>3. Covered(Begin(packet'), 0, Had')
    BY <2>1, <2>2, PacketTimes
  <2>4. seq'.after = seq.after /\ seq'.seqNo \in {seq.seqNo, packet}
    <3>1. seq \in [lastTime : Nat, rawTime : Times, after : Times, seqNo : Times]
      BY DEF Types, TypeOK
    <3>2. ASSUME NEW m \in Int
          PROVE  SeqAfter(packet, m).after = seq.after /\ SeqAfter(packet, m).seqNo \in {seq.seqNo, packet}
      <4>1. CASE params.raw
        BY ONLY <3>1, <4>1 DEF SeqAfter
      <4>2. CASE ~params.raw
        BY ONLY <3>1, <4>2 DEF SeqAfter
      <4> QED
        BY ONLY <4>1, <4>2
    <3> QED
      BY ONLY <2>2, <3>2
  <2>5. Covered(End(seq'.seqNo), 0, Had')
    BY <1>2, <1>3, <2>2, <2>4
  <2>6. Whole(seq'.after, 0, Had')
    BY <1>2, <1>3, <2>1, <2>2, <2>4 DEF Whole
  <2> QED
    BY <2>3, <2>5, <2>6 DEF BufferOK
<1>13. CASE EndPds \/ OpenFile \/ WriteFile \/ Restart
  BY <1>5, <1>6, <1>7, <1>13 DEF EndPds, OpenFile, WriteFile, Restart
<1>14. CASE Signal \/ Tick \/ UNCHANGED vars
  <2>1. UNCHANGED <<params, pc, seq, packet, done, fellOut>>
    BY <1>14 DEF Signal, Tick, vars
  <2> QED
    BY <1>2, <2>1 DEF BufferOK, Had, Labels
<1> QED
  BY <1>8, <1>9, <1>10, <1>11, <1>12, <1>13, <1>14 DEF Next

-----------------------------------------------------------------------------
(* The samples handled once                                                *)

LEMMA OnceOKNext == Types /\ OnceOK /\ [Next]_vars => OnceOK'
<1> SUFFICES ASSUME Types, OnceOK, [Next]_vars, params'.raw, params'.maxData = 0, unsaved' = FALSE
             PROVE  OnceOK'
  BY DEF OnceOK
<1>1. params'.raw = params.raw /\ params'.maxData = params.maxData /\ params'.buffDate = params.buffDate
  BY OptionsKept DEF Types
<1>2. unsaved = FALSE
  BY DEF Next, Turn, Exit, Down, Flow, EndFlow, Return, Dap, Pds, Receive, EndPds, OpenFile, WriteFile,
         Signal, Crash, Restart, Tick, vars
<1>3. /\ twice = FALSE
      /\ pc \in {"turn", "down", "flow", "pds"} => \A t \in Labels : t < file.raw
      /\ pc \in {"pds", "receive", "save", "write"} => \A t \in Labels : t < seq.rawTime
      /\ pc = "pds" => \A t \in Labels : t < seq.after
      /\ pc = "receive" => \A t \in Labels : t < After \/ t < Begin(packet)
  BY <1>1, <1>2 DEF OnceOK
<1>4. pc # "dap"
  BY <1>1 DEF Types
<1>5. Labels \subseteq Nat
  BY DEF Labels, Types, TypeOK
<1>6. UNCHANGED done => Labels' = Labels
  BY DEF Labels
<1>7. ASSUME UNCHANGED <<done, twice, file>>, pc \in {"turn", "down", "flow", "pds"},
             pc' \in {"turn", "down", "flow"}
      PROVE  OnceOK'
  BY <1>3, <1>6, <1>7 DEF OnceOK
<1>8. CASE Turn \/ Exit \/ EndFlow \/ Return \/ Restart
  BY <1>4, <1>7, <1>8 DEF Turn, Exit, EndFlow, Return, Restart, Down
<1>9. CASE Flow
  <2>1. pc = "flow" /\ seq' = Loaded /\ UNCHANGED <<file, done, twice>> /\ pc' \in {"dap", "pds"}
    BY <1>9 DEF Flow
  <2>2. ASSUME NEW t \in Labels
        PROVE  t < Loaded.rawTime /\ t < Loaded.after
    <3>1. t \in Nat /\ t < file.raw
      BY <1>3, <1>5, <2>1
    <3>2. file # NoLine /\ file.raw \in Nat
      BY <3>1 DEF NoLine, Types, TypeOK
    <3>3. file.raw # 0
      BY <3>1, <3>2
    <3>4. Loaded.rawTime = file.raw /\ Loaded.after = file.raw
      BY <1>1, <3>2, <3>3, LoadedType DEF Types
    <3> QED
      BY <3>1, <3>4
  <2> QED
    BY <1>3, <1>6, <2>1, <2>2 DEF OnceOK
<1>10. CASE Pds
  <2>1. pc = "pds" /\ pc' = "receive" /\ UNCHANGED <<params, seq, done, twice>>
    BY <1>10 DEF Pds
  <2>2. After' = After
    BY <2>1 DEF After
  <2>3. ASSUME NEW t \in Labels
        PROVE  t < After
    <3>1. t \in Nat /\ t < seq.after /\ seq.after \in Nat \cup {-1}
      BY <1>3, <1>5, <2>1, FieldTypes DEF Types, Times
    <3>2. seq.after > 0
      BY ONLY <3>1
    <3> QED
      BY <3>1, <3>2, AfterIs
  <2> QED
    BY <1>3, <1>6, <2>1, <2>2, <2>3 DEF OnceOK
<1>11. CASE Receive
  <2> DEFINE d == Trimmed(packet)
             begin == Begin(packet)
             end == End(packet)
             after == After
  <2>1. packet \in Nat /\ packet' = packet + 1 /\ pc = "receive" /\ pc' = "receive" /\ params' = params
    BY <1>11 DEF Receive, Types, TypeOK
  <2>2. /\ d.time \in Nat /\ d.n \in Nat /\ begin <= d.time /\ after <= d.time
        /\ d.n > 0 => d.time + d.n <= end
    BY <2>1, TrimmedIs
  <2>3. /\ begin \in Nat /\ end \in Nat /\ begin < end /\ Begin(packet') = end
    BY <2>1, PacketTimes
  <2>4. \/ /\ seq' = SeqAfter(packet, d.time + d.n) /\ d.n > 0
           /\ Labels' = Labels \cup {x \in Nat : d.time <= x /\ x < d.time + d.n}
           /\ (\A x \in Labels : ~(d.time <= x /\ x < d.time + d.n)) => twice' = twice
        \/ UNCHANGED <<done, twice, seq>>
    BY <1>11, ReceiveHandles
  <2>5. after \in Int /\ \A t \in Labels : t < after \/ t < begin
    BY <1>3, <2>1, AfterIs
  <2>6. UNCHANGED seq.after => After' = after
    BY <2>1 DEF After
  <2> HIDE DEF d, begin, end, after
  <2>7. CASE UNCHANGED <<done, twice, seq>>
    <3>0. Labels' = Labels /\ After' = after /\ Begin(packet') = end
      BY <1>6, <2>3, <2>6, <2>7
    <3>1. \A t \in Labels' : t < After' \/ t < Begin(packet')
      <4>1. \A t \in Labels : t < after \/ t < end
        BY ONLY <1>5, <2>3, <2>5
      <4> QED
        BY <3>0, <4>1
    <3> QED
      BY <1>3, <1>6, <2>1, <2>7, <3>1 DEF OnceOK
  <2>8. CASE /\ seq' = SeqAfter(packet, d.time + d.n) /\ d.n > 0
             /\ Labels' = Labels \cup {x \in Nat : d.time <= x /\ x < d.time + d.n}
             /\ (\A x \in Labels : ~(d.time <= x /\ x < d.time + d.n)) => twice' = twice
    <3>1. \A x \in Labels : x < d.time
      BY <1>5, <2>2, <2>3, <2>5
    <3>2. twice' = FALSE
      BY <1>3, <1>5, <2>2, <2>8, <3>1
    <3>3. \A x \in Labels' : x \in Nat /\ x < d.time + d.n
      BY <1>5, <2>2, <2>8, <3>1
    <3>4. seq'.rawTime = d.time + d.n /\ seq'.after = seq.after
      <4>1. seq \in [lastTime : Nat, rawTime : Times, after : Times, seqNo : Times]
        BY DEF Types, TypeOK
      <4>2. seq' = [seq EXCEPT !.seqNo = packet, !.rawTime = d.time + d.n]
        BY <1>1, <2>8 DEF SeqAfter
      <4> QED
        BY ONLY <4>1, <4>2
    <3>5. \A x \in Labels' : x < seq'.rawTime
      BY <3>3, <3>4
    <3>6. \A x \in Labels' : x < Begin(packet')
      BY <2>2, <2>3, <2>8, <3>3
    <3> QED
      BY <2>1, <3>2, <3>5, <3>6 DEF OnceOK
  <2> QED
    BY <2>4, <2>7, <2>8
<1>12. CASE EndPds \/ OpenFile
  <2>1. /\ pc \in {"receive", "save"} /\ pc' \in {"save", "write"} /\ UNCHANGED <<seq, done, twice>>
    BY <1>12 DEF EndPds, OpenFile
  <2> QED
    BY <1>3, <1>6, <2>1 DEF OnceOK
<1>13. CASE WriteFile
  <2>1. /\ pc = "write" /\ pc' = "flow" /\ UNCHANGED <<seq, done, twice>>
        /\ file'.raw = Printed(seq.rawTime)
    BY <1>13 DEF WriteFile, SavedNow
  <2>2. ASSUME NEW t \in Labels
        PROVE  t < file'.raw
    <3>1. t \in Nat /\ t < seq.rawTime /\ seq.rawTime \in Nat \cup {-1}
      BY <1>3, <1>5, <2>1, FieldTypes DEF Types, Times
    <3>2. Printed(seq.rawTime) = seq.rawTime
      BY ONLY <3>1 DEF Printed
    <3> QED
      BY <2>1, <3>1, <3>2
  <2> QED
    BY <1>3, <1>6, <2>1, <2>2 DEF OnceOK
<1>14. CASE Signal \/ Tick \/ UNCHANGED vars
  <2>1. UNCHANGED <<params, pc, file, seq, packet, done, twice>>
    BY <1>14 DEF Signal, Tick, vars
  <2> QED
    BY <1>3, <2>1 DEF OnceOK, Labels, After
<1>15. ~Dap /\ ~Crash
  BY <1>4 DEF Dap, Crash
<1> QED
  BY <1>8, <1>9, <1>10, <1>11, <1>12, <1>13, <1>14, <1>15 DEF Next

-----------------------------------------------------------------------------
(* The theorems                                                            *)

LEMMA InitIInv == Init => IInv
<1> SUFFICES ASSUME Init PROVE IInv
  OBVIOUS
<1>1. Types
  BY TypesInit
<1>2. /\ params.start = 0 /\ seq = NewSeq /\ file = NoLine /\ pc = "turn" /\ twice = FALSE
      /\ Labels = {}
  BY DEF Init, Labels
<1>3. ResumesOK
  <2>1. \A v \in Marks : v \in {0, -1}
    BY <1>2 DEF Marks, NewSeq, NoLine
  <2>2. Floor \in Nat
    BY <1>1, FloorIs
  <2> QED
    BY <2>1, <2>2 DEF ResumesOK, Resumes
<1>4. BufferOK
  BY <1>2, EndOfNone DEF BufferOK, Covered, NewSeq
<1>5. OnceOK
  BY <1>2 DEF OnceOK
<1> QED
  BY <1>1, <1>3, <1>4, <1>5 DEF IInv

\* Every state has the types, the times to resume from, the packets and the labels
\* that IInv describes.
THEOREM InductiveInvariant == Spec => []IInv
<1>1. IInv /\ [Next]_vars => IInv'
  BY TypesNext, ResumesNext, BufferOKNext, OnceOKNext DEF IInv
<1> QED
  BY InitIInv, <1>1, PTL DEF Spec

\* The variables keep their types, with any number of packets and samples.
THEOREM TypeCorrect == Spec => []TypeOK
<1>1. IInv => TypeOK
  BY DEF IInv, Types
<1> QED
  BY <1>1, InductiveInvariant, PTL

\* No sample before the next packet is missing that a server still had, over any
\* number of connections, crashes, restarts and failed saves.
THEOREM NothingIsSkipped == Spec => []DataContinuity
<1>1. IInv => DataContinuity
  <2> SUFFICES ASSUME IInv, pc = "receive", params.buffDate = 0,
                      NEW first \in Labels, NEW t \in first .. (Begin(packet) - 1)
               PROVE  t \in Labels \cup fellOut
    BY DEF DataContinuity
  <2>1. first \in Nat /\ packet \in Nat
    BY DEF IInv, Types, TypeOK, Labels
  <2>2. t \in Nat /\ t < Begin(packet)
    BY <2>1, PacketTimes
  <2>3. Covered(Begin(packet), 0, Had)
    BY DEF IInv, BufferOK
  <2> QED
    BY <2>2, <2>3 DEF Covered, Had
<1> QED
  BY <1>1, InductiveInvariant, PTL

\* The request to the DataServer starts at the first sample missing, or as far back
\* as -A allows.
THEOREM RequestReachesBack == Spec => []DapCoversMissing
<1>1. IInv => DapCoversMissing
  <2> SUFFICES ASSUME IInv, pc = "dap", params.buffDate = 0,
                      NEW t \in (now - params.maxData) .. (now - 1), ~(t >= RequestStart)
               PROVE  t \in Labels \cup fellOut
    BY DEF DapCoversMissing
  <2>1. Types /\ ResumesOK
    BY DEF IInv
  <2>2. RequestStart \in Nat /\ (RequestStart \in Marks \/ RequestStart <= Floor)
    BY <2>1, RequestStartIs
  <2>3. params.maxData # 0 /\ Floor = now - params.maxData /\ Floor \in Nat /\ now \in Nat /\ params.maxData \in Nat
    <3>1. params.maxData # 0
      BY <2>1 DEF Types
    <3> QED
      BY <2>1, <3>1, FloorIs, FieldTypes DEF Types, TypeOK
  <2>4. t \in Nat /\ Floor <= t /\ t < RequestStart
    BY <2>2, <2>3
  <2>5. Resumes(RequestStart, Floor, Had)
    BY <2>1, <2>2, <2>3, <2>4 DEF ResumesOK
  <2>6. Covered(RequestStart, Floor, Had)
    BY <2>2, <2>3, <2>4, <2>5 DEF Resumes
  <2> QED
    BY <2>4, <2>6 DEF Covered, Had
<1> QED
  BY <1>1, InductiveInvariant, PTL

\* With Raw Stream and without DAP flow, no sample is handled twice over any number
\* of connections and restarts, when the state was saved each time.
THEOREM HandlesOnce == Spec => []HandledOnce
<1>1. IInv => HandledOnce
  BY DEF IInv, OnceOK, HandledOnce, Types, TypeOK
<1> QED
  BY <1>1, InductiveInvariant, PTL
=============================================================================
