---------------------------- MODULE ConnectionProofs ----------------------------
(***************************************************************************)
(* What Connection guarantees for every number of connections, of groups   *)
(* of channels and of signals.                                             *)
(***************************************************************************)
EXTENDS Connection, SequenceTheorems, TLAPS

\* Where the main thread has a channel list, and where it has a connection.
HasSubset == {"chanseq", "flow", "open", "spawn", "reset", "loop", "receive",
              "wait", "close", "freeChanSeq", "freeSubset"}
HasSocket == {"spawn", "reset", "loop", "receive", "wait", "close"}
BeforeSpawn == {"chanseq", "flow", "open", "spawn"}
BeforeClose == {"reset", "loop", "receive", "wait"}

\* Who holds mutexsig is just reading sigcondition: nothing moves it before
\* it unlocks.
SigHeldByReader == mutexsig # NoThread => ReadsSig(mutexsig)

\* The mutex serialises the request threads.
OneRequests == \A t \in Conns : Requesting(t) <=> mutexSend = t

\* The request thread of a connection is created once, after the connection.
CreatedOnce ==
  /\ \A t \in Conns : t > conn => pc[t] = "none"
  /\ pc[Main] \in BeforeSpawn => pc[conn] = "none"
  /\ pc[Main] \in HasSubset => conn \in Conns

\* What the main thread has belongs to the current connection.
OwnResources ==
  /\ pc[Main] \in HasSubset => subset = conn
  /\ pc[Main] \in HasSocket => naqssock = conn

\* Main does not pass the wait while a thread in time requests.
WaitedFor ==
  \A t \in inTime :
    /\ pc[t] \notin {"none", "created"}
    /\ Requesting(t) =>
         /\ conn = t /\ pc[Main] \in BeforeClose
         /\ pc[t] = "send" => arg[t] = [socket |-> t, list |-> t]

\* A thread that is about to request has a request left.
RequestsLeft == \A t \in Conns : pc[t] = "send" => times[t] > 0

Requested(t, g) == \E k \in DOMAIN sent : sent[k].by = t /\ sent[k].group = g

\* The shared index tells how far the requesting thread has come.
Progress ==
  \A t \in Conns :
    /\ pc[t] \in {"none", "created"} => \A g \in 1 .. Groups : ~Requested(t, g)
    /\ Requesting(t) => \A g \in 1 .. Groups : Requested(t, g) <=> g < Group(t)

\* Who is where, and what belongs to whom.
Control ==
  /\ SigHeldByReader
  /\ OneRequests
  /\ CreatedOnce
  /\ OwnResources
  /\ WaitedFor
  /\ RequestsLeft

\* The inductive invariant.
IInv ==
  /\ TypeOK
  /\ Control
  /\ Progress
  /\ RequestsInOrder

-----------------------------------------------------------------------------
\* The constants are as assumed.
LEMMA Constants ==
  /\ MaxConnections \in Nat /\ MaxConnections >= 1
  /\ Groups \in Nat /\ Groups >= 1
  /\ MaxSignals \in Nat
  /\ Main \notin Conns /\ NoThread \notin Threads /\ Conns \subseteq Threads
  /\ Main \in Threads
BY ConnectionsAssumption, GroupsAssumption, SignalsAssumption
DEF ConnectionsAssumption, GroupsAssumption, SignalsAssumption, Main, NoThread, Conns, Threads

\* What the process starts with satisfies the invariant.
LEMMA InitIInv == Init => IInv
<1> SUFFICES ASSUME Init PROVE IInv
  OBVIOUS
<1>1. TypeOK
  <2>1. pc \in [Threads -> MainLabels \cup RequestLabels]
    BY DEF Init, MainLabels, RequestLabels
  <2>2. pc[Main] \in MainLabels /\ \A t \in Conns : pc[t] \in RequestLabels
    BY Constants DEF Init, MainLabels, RequestLabels
  <2>3. /\ conn \in 0 .. MaxConnections /\ naqssock \in 0 .. MaxConnections
        /\ subset \in 0 .. MaxConnections /\ chanSeq \in 0 .. MaxConnections
        /\ nextGroup \in 1 .. (Groups + 1)
    BY Constants DEF Init
  <2>4. /\ times \in [Conns -> 0 .. Groups]
        /\ early \in [Conns -> BOOLEAN]
        /\ arg \in [Conns -> [socket : 0 .. MaxConnections, list : 0 .. MaxConnections]]
    BY Constants DEF Init
  <2>5. sent \in Seq([by : Conns, on : 0 .. MaxConnections, group : 1 .. Groups])
    BY DEF Init
  <2>6. signals \in Seq({"TERM", "USR1", "ALRM"}) /\ Len(signals) <= MaxSignals
    BY Constants DEF Init
  <2> QED
    BY <2>1, <2>2, <2>3, <2>4, <2>5, <2>6 DEF Init, TypeOK
<1>2. SigHeldByReader /\ OneRequests /\ CreatedOnce /\ OwnResources /\ WaitedFor /\ RequestsLeft
  BY Constants DEF Init, SigHeldByReader, OneRequests, CreatedOnce, OwnResources, WaitedFor,
    RequestsLeft, Requesting, BeforeSpawn, HasSubset, HasSocket
<1>3. Progress /\ RequestsInOrder
  BY Constants DEF Init, Progress, Requested, RequestsInOrder, Requesting
<1> QED
  BY <1>1, <1>2, <1>3 DEF IInv, Control

\* The connection after one that is not the last has a number too.
LEMMA NextConn ==
  ASSUME NEW c \in 0 .. MaxConnections, c < MaxConnections
  PROVE  c + 1 \in 0 .. MaxConnections /\ c + 1 \in Conns
BY Constants DEF Conns

\* The steps of the main thread keep the types.
LEMMA MainTypes == TypeOK /\ CreatedOnce /\ MainStep => TypeOK'
<1> SUFFICES ASSUME TypeOK, CreatedOnce, MainStep PROVE TypeOK'
  OBVIOUS
<1> USE Constants DEF TypeOK, MainLabels, RequestLabels, At, Goto, ReadSig, shared, request,
      othersOfMain, Threads, Conns, Main, NoThread
<1>1. CASE Outer BY <1>1 DEF Outer
<1>2. CASE MakeSubset
  <2>1. \/ conn < MaxConnections /\ conn' = conn + 1 /\ subset' = conn + 1
        \/ conn' = conn /\ subset' = subset
    BY <1>2 DEF MakeSubset
  <2>2. conn' \in 0 .. MaxConnections /\ subset' \in 0 .. MaxConnections
    BY <2>1, NextConn
  <2>3. UNCHANGED <<naqssock, chanSeq, forceClose, mutexsig, othersOfMain>>
    BY <1>2 DEF MakeSubset
  <2>4. /\ pc' \in [Threads -> MainLabels \cup RequestLabels]
        /\ pc'[Main] \in MainLabels
        /\ \A t \in Conns : pc'[t] \in RequestLabels
    BY <1>2 DEF MakeSubset
  <2> QED BY <2>2, <2>3, <2>4
<1>3. CASE MakeChanSeq BY <1>3 DEF MakeChanSeq
<1>4. CASE Flow BY <1>4 DEF Flow
<1>5. CASE Open BY <1>5 DEF Open
<1>6. CASE Spawn BY <1>6 DEF Spawn, CreatedOnce, HasSubset
<1>7. CASE ResetForceClose BY <1>7 DEF ResetForceClose
<1>8. CASE Loop BY <1>8 DEF Loop
<1>9. CASE Receive BY <1>9 DEF Receive
<1>10. CASE Wait BY <1>10 DEF Wait
<1>11. CASE Close
  <2>1. naqssock' \in 0 .. MaxConnections BY <1>11 DEF Close
  <2> QED BY <1>11, <2>1 DEF Close
<1>12. CASE FreeChanSeq
  <2>1. chanSeq' \in 0 .. MaxConnections BY <1>12 DEF FreeChanSeq
  <2> QED BY <1>12, <2>1 DEF FreeChanSeq
<1>13. CASE FreeSubset
  <2>1. subset' \in 0 .. MaxConnections BY <1>13 DEF FreeSubset
  <2> QED BY <1>13, <2>1 DEF FreeSubset
<1>14. CASE Sleep BY <1>14 DEF Sleep
<1> QED
  BY <1>1, <1>2, <1>3, <1>4, <1>5, <1>6, <1>7, <1>8, <1>9, <1>10, <1>11, <1>12, <1>13, <1>14
  DEF MainStep

\* A thread in the middle of a call has a request left.
LEMMA Countdown ==
  ASSUME TypeOK, NEW t \in Conns, times[t] > 0
  PROVE  /\ times[t] - 1 \in 0 .. Groups
         /\ times[t] - 1 # Groups
         /\ times[t] > 1 => times[t] - 1 > 0
BY Constants DEF TypeOK

\* The index stays within the groups, one past the last when all are requested.
LEMMA GroupType ==
  ASSUME TypeOK, NEW t \in Conns
  PROVE  /\ Group(t) \in 1 .. (Groups + 1)
         /\ Group(t) <= Groups =>
              Group(t) \in 1 .. Groups /\ Group(t) + 1 \in 1 .. (Groups + 1)
BY Constants DEF TypeOK, Group, First

\* What a call appends to the requests sent.
LEMMA SendAppends ==
  ASSUME TypeOK, NEW t \in Conns, Group(t) <= Groups, NEW s \in Reaches(t)
  PROVE  LET r == [by |-> t, on |-> s, group |-> Group(t)]
         IN /\ Append(sent, r) \in Seq([by : Conns, on : 0 .. MaxConnections, group : 1 .. Groups])
            /\ Len(sent) \in Nat /\ DOMAIN sent = 1 .. Len(sent)
            /\ Len(Append(sent, r)) = Len(sent) + 1
            /\ DOMAIN Append(sent, r) = 1 .. (Len(sent) + 1)
            /\ \A k \in 1 .. Len(sent) : Append(sent, r)[k] = sent[k]
            /\ Append(sent, r)[Len(sent) + 1] = r
<1> DEFINE Request == [by : Conns, on : 0 .. MaxConnections, group : 1 .. Groups]
           r == [by |-> t, on |-> s, group |-> Group(t)]
<1>1. Group(t) \in 1 .. Groups
  BY GroupType
<1>2. s \in 0 .. MaxConnections
  BY Constants DEF TypeOK, Reaches
<1>3. r \in Request /\ sent \in Seq(Request)
  BY <1>1, <1>2 DEF TypeOK
<1> HIDE DEF Request, r
<1>4. /\ Append(sent, r) \in Seq(Request)
      /\ Len(sent) \in Nat /\ DOMAIN sent = 1 .. Len(sent)
      /\ Len(Append(sent, r)) = Len(sent) + 1
      /\ DOMAIN Append(sent, r) = 1 .. (Len(sent) + 1)
      /\ \A k \in 1 .. Len(sent) : Append(sent, r)[k] = sent[k]
      /\ Append(sent, r)[Len(sent) + 1] = r
  BY <1>3
<1> QED
  BY <1>4 DEF Request, r

\* The steps of the request threads keep the types.
LEMMA RequestTypes ==
  ASSUME NEW t \in Conns
  PROVE  TypeOK /\ RequestsLeft /\ RequestStep(t) => TypeOK'
<1> SUFFICES ASSUME TypeOK, RequestsLeft, RequestStep(t) PROVE TypeOK'
  OBVIOUS
<1> USE DEF TypeOK, MainLabels, RequestLabels, At, Goto, ReadSig, shared, othersOfRequest
<1>1. t # Main /\ t \in Threads /\ Main \in Threads /\ Conns \subseteq Threads
  BY Constants
<1>2. CASE Begin(t)
  <2>1. Groups \in 0 .. Groups
    BY Constants
  <2> QED
    BY <1>1, <1>2, <2>1 DEF Begin
<1>3. CASE Check(t)
  <2>1. [socket |-> naqssock, list |-> subset] \in [socket : 0 .. MaxConnections, list : 0 .. MaxConnections]
    OBVIOUS
  <2>2. \/ arg' = arg
        \/ arg' = [arg EXCEPT ![t] = [socket |-> naqssock, list |-> subset]]
    BY <1>3 DEF Check
  <2>3. arg' \in [Conns -> [socket : 0 .. MaxConnections, list : 0 .. MaxConnections]]
    BY <2>1, <2>2
  <2>4. /\ pc' \in [Threads -> MainLabels \cup RequestLabels]
        /\ pc'[Main] \in MainLabels
        /\ \A u \in Conns : pc'[u] \in RequestLabels
        /\ mutexsig' \in Threads \cup {NoThread}
    BY <1>1, <1>3 DEF Check
  <2>5. UNCHANGED <<mutexSend, times, early, nextGroup, sent, inTime, othersOfRequest>>
    BY <1>3 DEF Check
  <2> QED
    BY <2>3, <2>4, <2>5
<1>4. CASE Send(t)
  <2>1. times' \in [Conns -> 0 .. Groups]
    BY <1>4, Countdown DEF Send, RequestsLeft
  <2>2. /\ nextGroup' \in 1 .. (Groups + 1)
        /\ sent' \in Seq([by : Conns, on : 0 .. MaxConnections, group : 1 .. Groups])
    <3>1. CASE nextGroup' = Group(t) /\ UNCHANGED sent
      BY <3>1, GroupType
    <3>2. ASSUME Group(t) <= Groups, nextGroup' = Group(t) + 1, NEW s \in Reaches(t),
                 sent' = Append(sent, [by |-> t, on |-> s, group |-> Group(t)])
          PROVE  /\ nextGroup' \in 1 .. (Groups + 1)
                 /\ sent' \in Seq([by : Conns, on : 0 .. MaxConnections, group : 1 .. Groups])
      <4>1. nextGroup' \in 1 .. (Groups + 1)
        BY <3>2, GroupType
      <4>2. Append(sent, [by |-> t, on |-> s, group |-> Group(t)])
              \in Seq([by : Conns, on : 0 .. MaxConnections, group : 1 .. Groups])
        BY <3>2, SendAppends
      <4>3. sent' \in Seq([by : Conns, on : 0 .. MaxConnections, group : 1 .. Groups])
        BY <3>2, <4>2, Zenon
      <4> QED
        BY <4>1, <4>3
    <3>3. \/ nextGroup' = Group(t) /\ UNCHANGED sent
          \/ /\ Group(t) <= Groups /\ nextGroup' = Group(t) + 1
             /\ \E s \in Reaches(t) : sent' = Append(sent, [by |-> t, on |-> s, group |-> Group(t)])
      BY <1>4, Zenon DEF Send
    <3> QED
      BY <3>1, <3>2, <3>3, Zenon
  <2>3. /\ pc' \in [Threads -> MainLabels \cup RequestLabels]
        /\ pc'[Main] \in MainLabels
        /\ \A u \in Conns : pc'[u] \in RequestLabels
    BY <1>1, <1>4 DEF Send
  <2>4. UNCHANGED <<mutexsig, mutexSend, early, arg, inTime, othersOfRequest>>
    BY <1>4 DEF Send
  <2> QED
    BY <2>1, <2>2, <2>3, <2>4
<1>5. CASE Pause(t)
  BY <1>1, <1>5 DEF Pause
<1>6. CASE Finish(t)
  BY <1>1, <1>6 DEF Finish, request
<1> QED
  BY <1>2, <1>3, <1>4, <1>5, <1>6 DEF RequestStep

\* A lock taken, a signal or its handler keeps the types.
LEMMA SignalTypes ==
  ASSUME NEW t \in Threads
  PROVE  TypeOK /\ (LockSig(t) \/ Signal(t) \/ ShutdownHandler) => TypeOK'
<1> SUFFICES ASSUME TypeOK, LockSig(t) \/ Signal(t) \/ ShutdownHandler PROVE TypeOK'
  OBVIOUS
<1> USE DEF TypeOK, shared, request, othersOfSignal
<1>1. ASSUME NEW s \in {"TERM", "USR1", "ALRM"}, Sent(s)
      PROVE  signals' \in Seq({"TERM", "USR1", "ALRM"}) /\ Len(signals') <= MaxSignals
  BY <1>1, Constants DEF Sent
<1>2. Interrupt(t) => /\ pc' \in [Threads -> MainLabels \cup RequestLabels]
                      /\ pc'[Main] \in MainLabels
                      /\ \A u \in Conns : pc'[u] \in RequestLabels
                      /\ early' \in [Conns -> BOOLEAN]
  BY Constants DEF Interrupt, Goto, MainLabels, RequestLabels
<1>3. CASE LockSig(t)
  BY <1>3 DEF LockSig
<1>4. CASE Term(t)
  BY <1>1, <1>2, <1>4 DEF Term
<1>5. CASE Usr1(t)
  BY <1>1, <1>2, <1>5 DEF Usr1
<1>6. CASE Alrm(t)
  BY <1>1, <1>2, <1>6 DEF Alrm
<1>7. CASE ShutdownHandler
  BY <1>7, Constants DEF ShutdownHandler
<1> QED
  BY <1>3, <1>4, <1>5, <1>6, <1>7 DEF Signal


\* The steps of the main thread: no thread but the one created moves, and
\* main holds mutexsig only where it is about to unlock it.
LEMMA MainMoves ==
  ASSUME TypeOK, CreatedOnce, MainStep
  PROVE  /\ \A t \in Conns :
              \/ pc'[t] = pc[t]
              \/ t = conn /\ pc[t] = "none" /\ pc'[t] = "created" /\ pc'[Main] = "reset"
         /\ mutexsig' = NoThread \/ (mutexsig' = mutexsig /\ ~ReadsSig(Main))
         /\ UNCHANGED <<mutexSend, times, arg, inTime, sent, nextGroup>>
<1> USE DEF At, Goto, ReadSig, othersOfMain, request
<1>1. /\ pc \in [Threads -> MainLabels \cup RequestLabels]
      /\ Main \in Threads /\ Conns \subseteq Threads
      /\ \A t \in Conns : t # Main
  BY Constants DEF TypeOK
<1>2. CASE Spawn
  <2>1. conn \in Conns /\ pc[conn] = "none"
    BY <1>2 DEF Spawn, CreatedOnce, HasSubset, BeforeSpawn
  <2> QED
    BY <1>1, <1>2, <2>1 DEF Spawn, ReadsSig
<1>3. CASE ~Spawn
  <2>1. \A t \in Conns : pc'[t] = pc[t]
    BY <1>1, <1>3 DEF MainStep, Outer, MakeSubset, MakeChanSeq, Flow, Open, ResetForceClose,
      Loop, Receive, Wait, Close, FreeChanSeq, FreeSubset, Sleep
  <2>2. \/ mutexsig' = NoThread
        \/ /\ mutexsig' = mutexsig
           /\ pc[Main] \in {"subset", "chanseq", "reset", "receive", "wait", "close",
                            "freeChanSeq", "freeSubset"}
    BY <1>3 DEF MainStep, Outer, MakeSubset, MakeChanSeq, Flow, Open, ResetForceClose,
      Loop, Receive, Wait, Close, FreeChanSeq, FreeSubset, Sleep
  <2>3. UNCHANGED <<mutexSend, times, arg, inTime, sent, nextGroup>>
    BY <1>3 DEF MainStep, Outer, MakeSubset, MakeChanSeq, Flow, Open, ResetForceClose,
      Loop, Receive, Wait, Close, FreeChanSeq, FreeSubset, Sleep
  <2>4. pc[Main] \in {"subset", "chanseq", "reset", "receive", "wait", "close",
                     "freeChanSeq", "freeSubset"} => ~ReadsSig(Main)
    BY DEF ReadsSig
  <2>5. mutexsig' = NoThread \/ (mutexsig' = mutexsig /\ ~ReadsSig(Main))
    BY <2>2, <2>4, Zenon
  <2> QED
    BY <2>1, <2>3, <2>5, Zenon DEF request
<1> QED
  BY <1>2, <1>3

\* Where the main thread goes, and what it holds there.
LEMMA MainGoes ==
  ASSUME TypeOK, CreatedOnce, OwnResources, MainStep
  PROVE  /\ pc[Main] \in BeforeClose =>
              /\ conn' = conn
              /\ pc'[Main] \in BeforeClose \/ mutexSend = NoThread
         /\ conn' \in {conn, conn + 1} /\ (conn' # conn => conn < MaxConnections)
         /\ pc'[Main] \in BeforeSpawn => conn' # conn \/ pc[Main] \in BeforeSpawn
         /\ pc'[Main] \in HasSubset => conn' # conn \/ pc[Main] \in HasSubset
         /\ OwnResources'
<1> USE DEF At, Goto, ReadSig, shared, OwnResources, HasSubset, HasSocket, BeforeSpawn, BeforeClose
<1>1. /\ pc \in [Threads -> MainLabels \cup RequestLabels]
      /\ Main \in Threads
      /\ conn \in 0 .. MaxConnections
  BY Constants DEF TypeOK
<1>2. CASE Outer BY <1>1, <1>2 DEF Outer
<1>3. CASE MakeSubset BY <1>1, <1>3 DEF MakeSubset
<1>4. CASE MakeChanSeq BY <1>1, <1>4 DEF MakeChanSeq
<1>5. CASE Flow BY <1>1, <1>5 DEF Flow
<1>6. CASE Open BY <1>1, <1>6 DEF Open
<1>7. CASE Spawn
  <2>1. conn # Main
    BY <1>7, Constants DEF Spawn, CreatedOnce
  <2> QED
    BY <1>1, <1>7, <2>1 DEF Spawn
<1>8. CASE ResetForceClose BY <1>1, <1>8 DEF ResetForceClose
<1>9. CASE Loop BY <1>1, <1>9 DEF Loop
<1>10. CASE Receive BY <1>1, <1>10 DEF Receive
<1>11. CASE Wait BY <1>1, <1>11 DEF Wait, WaitsForMutex
<1>12. CASE Close BY <1>1, <1>12 DEF Close
<1>13. CASE FreeChanSeq BY <1>1, <1>13 DEF FreeChanSeq
<1>14. CASE FreeSubset BY <1>1, <1>14 DEF FreeSubset
<1>15. CASE Sleep BY <1>1, <1>15 DEF Sleep
<1> QED
  BY <1>2, <1>3, <1>4, <1>5, <1>6, <1>7, <1>8, <1>9, <1>10, <1>11, <1>12, <1>13, <1>14, <1>15
  DEF MainStep

\* The steps of the main thread keep the control invariant.
LEMMA MainControl == TypeOK /\ Control /\ MainStep => Control'
<1> SUFFICES ASSUME TypeOK, Control, MainStep PROVE Control'
  OBVIOUS
<1>1. /\ SigHeldByReader /\ OneRequests /\ CreatedOnce
      /\ OwnResources /\ WaitedFor /\ RequestsLeft
  BY DEF Control
<1>2. /\ \A t \in Conns :
           \/ pc'[t] = pc[t]
           \/ t = conn /\ pc[t] = "none" /\ pc'[t] = "created" /\ pc'[Main] = "reset"
      /\ mutexsig' = NoThread \/ (mutexsig' = mutexsig /\ ~ReadsSig(Main))
      /\ UNCHANGED <<mutexSend, times, arg, inTime, sent, nextGroup>>
  BY <1>1, MainMoves
<1>3. \A t \in Conns : Requesting(t)' <=> Requesting(t)
  BY <1>2 DEF Requesting
<1>4. mutexsig \in Threads \cup {NoThread} /\ inTime \subseteq Conns
  BY DEF TypeOK
<1>5. SigHeldByReader'
  BY <1>1, <1>2, <1>4 DEF SigHeldByReader, ReadsSig, Threads
<1>6. OneRequests'
  BY <1>1, <1>2, <1>3 DEF OneRequests
<1>7. CreatedOnce'
  <2>0. /\ conn' \in {conn, conn + 1} /\ (conn' # conn => conn < MaxConnections)
        /\ pc'[Main] \in BeforeSpawn => conn' # conn \/ pc[Main] \in BeforeSpawn
        /\ pc'[Main] \in HasSubset => conn' # conn \/ pc[Main] \in HasSubset
    BY <1>1, MainGoes
  <2>. conn \in 0 .. MaxConnections
    BY DEF TypeOK
  <2>1. conn' = conn \/ (conn' = conn + 1 /\ conn + 1 \in Conns)
    BY <2>0, NextConn, Zenon
  <2>2. \A t \in Conns : t > conn' => pc'[t] = "none"
    BY <1>1, <1>2, <2>1 DEF CreatedOnce, Conns
  <2>3. pc'[Main] \in BeforeSpawn => pc'[conn'] = "none"
    BY <1>1, <1>2, <2>0, <2>1 DEF CreatedOnce, Conns, BeforeSpawn, HasSubset
  <2>4. pc'[Main] \in HasSubset => conn' \in Conns
    BY <1>1, <1>2, <2>0, <2>1 DEF CreatedOnce
  <2> QED
    BY <2>2, <2>3, <2>4 DEF CreatedOnce
<1>8. OwnResources'
  BY <1>1, MainGoes
<1>9. WaitedFor'
  <2>1. \A t \in inTime : pc'[t] \notin {"none", "created"}
    BY <1>1, <1>2, <1>4 DEF WaitedFor
  <2> SUFFICES ASSUME NEW t \in inTime, Requesting(t)
               PROVE  /\ conn' = t /\ pc'[Main] \in BeforeClose
                      /\ pc'[t] = "send" => arg'[t] = [socket |-> t, list |-> t]
    BY <1>2, <1>3, <1>4, <2>1 DEF WaitedFor
  <2>2. t \in Conns /\ mutexSend = t /\ t # NoThread
    BY <1>1, <1>4, Constants DEF OneRequests
  <2>3. /\ conn = t /\ pc[Main] \in BeforeClose
        /\ pc[t] = "send" => arg[t] = [socket |-> t, list |-> t]
    BY <1>1 DEF WaitedFor
  <2> QED
    BY <1>1, <1>2, <2>2, <2>3, MainGoes
<1>10. RequestsLeft'
  BY <1>1, <1>2 DEF RequestsLeft
<1> QED
  BY <1>5, <1>6, <1>7, <1>8, <1>9, <1>10 DEF Control

\* A step of a request thread moves no other thread and leaves what main has.
LEMMA RequestMoves ==
  ASSUME TypeOK, NEW t \in Conns, RequestStep(t)
  PROVE  /\ pc' \in [Threads -> MainLabels \cup RequestLabels]
         /\ \A u \in Threads \ {t} : pc'[u] = pc[u]
         /\ pc'[Main] = pc[Main]
         /\ \A u \in Conns \ {t} : times'[u] = times[u] /\ arg'[u] = arg[u]
         /\ UNCHANGED <<conn, subset, naqssock>>
<1>1. t # Main /\ Main \in Threads /\ t \in Threads
  BY Constants
<1>2. /\ pc \in [Threads -> MainLabels \cup RequestLabels]
      /\ times \in [Conns -> 0 .. Groups]
      /\ arg \in [Conns -> [socket : 0 .. MaxConnections, list : 0 .. MaxConnections]]
  BY DEF TypeOK
<1> USE DEF At, Goto, ReadSig, shared, othersOfRequest
<1>3. CASE Begin(t)
  BY <1>1, <1>2, <1>3, Zenon DEF Begin, RequestLabels
<1>4. CASE Check(t)
  BY <1>1, <1>2, <1>4 DEF Check, RequestLabels
<1>5. CASE Send(t)
  BY <1>1, <1>2, <1>5 DEF Send, RequestLabels
<1>6. CASE Pause(t)
  BY <1>1, <1>2, <1>6 DEF Pause, RequestLabels
<1>7. CASE Finish(t)
  BY <1>1, <1>2, <1>7 DEF Finish, RequestLabels, request
<1> QED
  BY <1>3, <1>4, <1>5, <1>6, <1>7 DEF RequestStep

\* What a step does to the thread that takes it.
LEMMA RequestGoes ==
  ASSUME TypeOK, Control, NEW t \in Conns, RequestStep(t)
  PROVE  /\ mutexsig' = NoThread \/ (mutexsig' = mutexsig /\ mutexsig # t)
         /\ \/ /\ pc[t] = "created" /\ ~Requesting(t) /\ mutexSend = NoThread
               /\ Requesting(t)' /\ mutexSend' = t
               /\ inTime' \in {inTime, inTime \cup {t}}
               /\ t \in inTime' /\ t \notin inTime => conn = t /\ pc[Main] \in BeforeClose
            \/ /\ Requesting(t) /\ mutexSend = t
               /\ Requesting(t)' /\ mutexSend' = t
               /\ inTime' = inTime
            \/ /\ Requesting(t) /\ mutexSend = t
               /\ ~Requesting(t)' /\ mutexSend' = NoThread
               /\ inTime' = inTime
         /\ pc'[t] = "send" => /\ times'[t] = times[t] /\ times[t] > 0
                               /\ arg'[t] = [socket |-> naqssock, list |-> subset]
<1>1. /\ t # Main /\ Main \in Threads /\ t \in Threads /\ t # NoThread
      /\ pc \in [Threads -> MainLabels \cup RequestLabels]
      /\ times \in [Conns -> 0 .. Groups]
      /\ arg \in [Conns -> [socket : 0 .. MaxConnections, list : 0 .. MaxConnections]]
  BY Constants DEF TypeOK
<1>2. /\ SigHeldByReader /\ OneRequests /\ RequestsLeft
      /\ mutexsig = t => ReadsSig(t)
  BY <1>1 DEF Control, SigHeldByReader
<1> USE DEF At, Goto, ReadSig, shared, othersOfRequest, Requesting, BeforeClose
<1>3. CASE Begin(t)
  BY <1>1, <1>2, <1>3 DEF Begin, TakesMutex, ReadsSig
<1>4. CASE Check(t)
  <2>1. mutexsig' = NoThread \/ (mutexsig' = mutexsig /\ mutexsig # t)
    BY <1>1, <1>2, <1>4 DEF Check, ReadsSig
  <2>2. mutexSend = t
    BY <1>2, <1>4 DEF Check, OneRequests
  <2>3. pc'[t] = "send" => times[t] > 0
    BY <1>1, <1>2, <1>4 DEF Check, ReadsSig
  <2> QED
    BY <1>1, <1>4, <2>1, <2>2, <2>3 DEF Check
<1>5. CASE Send(t)
  BY <1>1, <1>2, <1>5 DEF Send, ReadsSig, OneRequests
<1>6. CASE Pause(t)
  BY <1>1, <1>2, <1>6 DEF Pause, ReadsSig, OneRequests
<1>7. CASE Finish(t)
  BY <1>1, <1>2, <1>7 DEF Finish, ReadsSig, OneRequests, request
<1> QED
  BY <1>3, <1>4, <1>5, <1>6, <1>7 DEF RequestStep

\* Only a thread that was created takes a step, and it is not created again.
LEMMA RequestCreated ==
  ASSUME TypeOK, NEW t \in Conns, RequestStep(t)
  PROVE  pc[t] # "none" /\ pc'[t] \notin {"none", "created"}
<1>1. t \in Threads /\ pc \in [Threads -> MainLabels \cup RequestLabels]
  BY Constants DEF TypeOK
<1> QED
  BY <1>1 DEF RequestStep, Begin, Check, Send, Pause, Finish, At, Goto, ReadSig

\* Until it closes the connection, main has its socket and its channels.
LEMMA OwnedBeforeClose ==
  OwnResources /\ pc[Main] \in BeforeClose => subset = conn /\ naqssock = conn
BY DEF OwnResources, BeforeClose, HasSubset, HasSocket

\* The steps of the request threads keep the control invariant.
LEMMA RequestControl ==
  ASSUME NEW t \in Conns
  PROVE  TypeOK /\ Control /\ RequestStep(t) => Control'
<1> SUFFICES ASSUME TypeOK, Control, RequestStep(t) PROVE Control'
  OBVIOUS
<1>1. /\ SigHeldByReader /\ OneRequests /\ CreatedOnce
      /\ OwnResources /\ WaitedFor /\ RequestsLeft
  BY DEF Control
<1>2. /\ \A u \in Threads \ {t} : pc'[u] = pc[u]
      /\ pc'[Main] = pc[Main]
      /\ \A u \in Conns \ {t} : times'[u] = times[u] /\ arg'[u] = arg[u]
      /\ UNCHANGED <<conn, subset, naqssock>>
  BY RequestMoves
<1>3. \A u \in Conns \ {t} : u \in Threads /\ pc'[u] = pc[u] /\ (Requesting(u)' <=> Requesting(u))
  BY <1>2, Constants DEF Requesting
<1>4. SigHeldByReader'
  <2>1. mutexsig' = NoThread \/ (mutexsig' = mutexsig /\ mutexsig # t)
    BY RequestGoes
  <2>2. ASSUME NEW u \in Threads \ {t}, ReadsSig(u)
        PROVE  ReadsSig(u)'
    <3>1. pc'[u] = pc[u]
      BY <1>2
    <3>2. u \in Conns => times'[u] = times[u]
      BY <1>2
    <3>3. u \notin Conns => pc[u] # "check"
      BY DEF TypeOK, Threads, MainLabels
    <3> QED
      BY <2>2, <3>1, <3>2, <3>3 DEF ReadsSig
  <2> QED
    BY <1>1, <2>1, <2>2 DEF SigHeldByReader, TypeOK
<1>5. OneRequests'
  BY <1>1, <1>3, RequestGoes, Constants DEF OneRequests
<1>6. CreatedOnce'
  <2>1. \A u \in Conns : u > conn => u # t /\ pc'[u] = "none"
    BY <1>1, <1>3, RequestCreated DEF CreatedOnce
  <2>2. pc[Main] \in BeforeSpawn => conn \in Conns /\ conn # t
    BY <1>1, RequestCreated DEF CreatedOnce, BeforeSpawn, HasSubset
  <2> QED
    BY <1>1, <1>2, <1>3, <2>1, <2>2 DEF CreatedOnce
<1>7. OwnResources'
  BY <1>1, <1>2 DEF OwnResources
<1>8. WaitedFor'
  <2> SUFFICES ASSUME NEW u \in inTime'
               PROVE  /\ pc'[u] \notin {"none", "created"}
                      /\ Requesting(u)' =>
                           /\ conn = u /\ pc[Main] \in BeforeClose
                           /\ pc'[u] = "send" => arg'[u] = [socket |-> u, list |-> u]
    BY <1>2 DEF WaitedFor
  <2>1. CASE u # t
    <3>1. u \in inTime /\ u \in Conns
      BY <2>1, RequestGoes DEF TypeOK
    <3> QED
      BY <2>1, <3>1, <1>1, <1>2, <1>3 DEF WaitedFor
  <2>2. CASE u = t
    <3>1. pc'[t] \notin {"none", "created"}
      BY RequestCreated
    <3>2. Requesting(t)' => conn = t /\ pc[Main] \in BeforeClose
      <4>1. t \in inTime => pc[t] # "created" /\ (Requesting(t) => conn = t /\ pc[Main] \in BeforeClose)
        BY <1>1 DEF WaitedFor
      <4> QED
        BY <2>2, <4>1, RequestGoes
    <3>3. conn = t /\ pc[Main] \in BeforeClose => subset = t /\ naqssock = t
      BY <1>1, OwnedBeforeClose
    <3> QED
      BY <2>2, <3>1, <3>2, <3>3, RequestGoes DEF Requesting
  <2> QED
    BY <2>1, <2>2
<1>9. RequestsLeft'
  BY <1>1, <1>2, <1>3, RequestGoes DEF RequestsLeft
<1> QED
  BY <1>4, <1>5, <1>6, <1>7, <1>8, <1>9 DEF Control

\* A signal moves nothing but a thread that pauses.
LEMMA SignalMoves ==
  ASSUME TypeOK, NEW t \in Threads, LockSig(t) \/ Signal(t) \/ ShutdownHandler
  PROVE  /\ pc'[Main] = pc[Main]
         /\ \A u \in Conns : pc'[u] = pc[u] \/ (pc[u] = "pause" /\ pc'[u] = "check")
         /\ UNCHANGED <<conn, subset, naqssock, mutexSend, times, arg, inTime, sent, nextGroup>>
         /\ mutexsig' = mutexsig \/ (mutexsig' = t /\ ReadsSig(t) /\ pc' = pc)
<1>1. /\ pc \in [Threads -> MainLabels \cup RequestLabels]
      /\ pc[Main] # "pause" /\ Main \in Threads /\ Conns \subseteq Threads
  BY Constants DEF TypeOK, MainLabels
<1>2. /\ UNCHANGED <<conn, subset, naqssock, mutexSend, times, arg, inTime, sent, nextGroup>>
      /\ mutexsig' = mutexsig \/ (mutexsig' = t /\ ReadsSig(t) /\ pc' = pc)
  BY Zenon DEF LockSig, Signal, Term, Usr1, Alrm, ShutdownHandler, othersOfSignal, shared, request
<1>3. Interrupt(t) \/ pc' = pc
  BY Zenon DEF LockSig, Signal, Term, Usr1, Alrm, ShutdownHandler
<1>4. pc' = pc \/ (pc[t] = "pause" /\ pc' = [pc EXCEPT ![t] = "check"])
  BY <1>3 DEF Interrupt, Goto
<1> QED
  BY <1>1, <1>2, <1>4

\* Signals keep the control invariant.
LEMMA SignalControl ==
  ASSUME NEW t \in Threads
  PROVE  TypeOK /\ Control /\ (LockSig(t) \/ Signal(t) \/ ShutdownHandler) => Control'
<1> SUFFICES ASSUME TypeOK, Control, LockSig(t) \/ Signal(t) \/ ShutdownHandler PROVE Control'
  OBVIOUS
<1>1. /\ SigHeldByReader /\ OneRequests /\ CreatedOnce
      /\ OwnResources /\ WaitedFor /\ RequestsLeft
  BY DEF Control
<1>2. /\ pc'[Main] = pc[Main]
      /\ \A u \in Conns : pc'[u] = pc[u] \/ (pc[u] = "pause" /\ pc'[u] = "check")
      /\ UNCHANGED <<conn, subset, naqssock, mutexSend, times, arg, inTime, sent, nextGroup>>
      /\ mutexsig' = mutexsig \/ (mutexsig' = t /\ ReadsSig(t) /\ pc' = pc)
  BY SignalMoves
<1>3. \A u \in Conns : Requesting(u)' <=> Requesting(u)
  BY <1>2 DEF Requesting
<1>4. ASSUME NEW u \in Threads, ReadsSig(u)
      PROVE  ReadsSig(u)'
  <2>1. pc'[u] = pc[u] /\ times' = times
    BY <1>2, <1>4 DEF Threads, ReadsSig
  <2> QED
    BY <1>4, <2>1 DEF ReadsSig
<1>5. SigHeldByReader'
  BY <1>1, <1>2, <1>4 DEF SigHeldByReader, TypeOK
<1>6. OneRequests'
  BY <1>1, <1>2, <1>3 DEF OneRequests
<1>7. CreatedOnce'
  BY <1>1, <1>2 DEF CreatedOnce, BeforeSpawn, HasSubset
<1>8. OwnResources'
  BY <1>1, <1>2 DEF OwnResources
<1>9. WaitedFor'
  BY <1>1, <1>2, <1>3 DEF WaitedFor, TypeOK
<1>10. RequestsLeft'
  BY <1>1, <1>2 DEF RequestsLeft
<1> QED
  BY <1>5, <1>6, <1>7, <1>8, <1>9, <1>10 DEF Control

\* Steps other than a call that requests leave the requests sent and how far
\* each thread has come.
LEMMA ProgressKept ==
  ASSUME TypeOK, Progress, UNCHANGED <<sent, nextGroup>>,
         \A t \in Conns :
           /\ pc'[t] \in {"none", "created"} => pc[t] \in {"none", "created"}
           /\ Requesting(t)' => \/ Requesting(t) /\ times'[t] = times[t]
                                \/ pc[t] = "created" /\ times'[t] = Groups
  PROVE  Progress'
<1> SUFFICES ASSUME NEW t \in Conns
             PROVE  /\ pc'[t] \in {"none", "created"} => \A g \in 1 .. Groups : ~Requested(t, g)'
                    /\ Requesting(t)' => \A g \in 1 .. Groups : Requested(t, g)' <=> g < Group(t)'
  BY DEF Progress
<1>1. \A g \in 1 .. Groups : Requested(t, g)' <=> Requested(t, g)
  BY DEF Requested
<1>2. ASSUME pc'[t] \in {"none", "created"}
      PROVE  \A g \in 1 .. Groups : ~Requested(t, g)'
  BY <1>1, <1>2 DEF Progress
<1>3. ASSUME Requesting(t), times'[t] = times[t]
      PROVE  \A g \in 1 .. Groups : Requested(t, g)' <=> g < Group(t)'
  BY <1>1, <1>3 DEF Progress, Group, First
<1>4. ASSUME pc[t] = "created", times'[t] = Groups
      PROVE  \A g \in 1 .. Groups : Requested(t, g)' <=> g < Group(t)'
  <2>1. Group(t)' = 1 /\ \A g \in 1 .. Groups : ~(g < 1)
    BY <1>4, Constants DEF Group, First
  <2> QED
    BY <1>1, <1>4, <2>1 DEF Progress
<1> QED
  BY <1>2, <1>3, <1>4

\* A request is one for the thread and the group it names.
LEMMA RequestedAfter ==
  ASSUME TypeOK, NEW t \in Conns, Group(t) <= Groups, NEW s \in Reaches(t),
         sent' = Append(sent, [by |-> t, on |-> s, group |-> Group(t)])
  PROVE  \A u \in Conns, g \in 1 .. Groups :
           Requested(u, g)' <=> Requested(u, g) \/ (u = t /\ g = Group(t))
<1> DEFINE n == Len(sent)
<1>1. /\ n \in Nat /\ DOMAIN sent = 1 .. n /\ DOMAIN sent' = 1 .. (n + 1)
      /\ \A k \in 1 .. n : sent'[k] = sent[k]
      /\ sent'[n + 1] = [by |-> t, on |-> s, group |-> Group(t)]
  BY SendAppends
<1> HIDE DEF n
<1>2. /\ DOMAIN sent' = DOMAIN sent \cup {n + 1} /\ n + 1 \notin DOMAIN sent
      /\ \A k \in DOMAIN sent : sent'[k] = sent[k]
  BY <1>1
<1>3. sent'[n + 1].by = t /\ sent'[n + 1].group = Group(t)
  BY <1>1
<1> QED
  BY <1>2, <1>3, Zenon DEF Requested

\* A request appended in the order of its thread keeps the order.
LEMMA OrderAfter ==
  ASSUME TypeOK, Progress, RequestsInOrder,
         NEW t \in Conns, Requesting(t), Group(t) <= Groups, NEW s \in Reaches(t),
         sent' = Append(sent, [by |-> t, on |-> s, group |-> Group(t)])
  PROVE  RequestsInOrder'
<1> DEFINE n == Len(sent)
<1>1. /\ n \in Nat /\ DOMAIN sent = 1 .. n /\ DOMAIN sent' = 1 .. (n + 1)
      /\ \A k \in 1 .. n : sent'[k] = sent[k]
      /\ sent'[n + 1] = [by |-> t, on |-> s, group |-> Group(t)]
  BY SendAppends
<1>2. sent'[n + 1].by = t /\ sent'[n + 1].group = Group(t)
  BY <1>1
<1>3. \A k \in 1 .. n : sent[k].group \in 1 .. Groups
  <2>1. sent \in Seq([by : Conns, on : 0 .. MaxConnections, group : 1 .. Groups])
    BY DEF TypeOK
  <2>2. \A k \in 1 .. n : sent[k] \in [by : Conns, on : 0 .. MaxConnections, group : 1 .. Groups]
    BY <2>1, ElementOfSeq
  <2> QED
    BY <2>2
<1>4. /\ Group(t) \in 1 .. Groups
      /\ \A g \in 1 .. Groups : Requested(t, g) <=> g < Group(t)
  BY GroupType DEF Progress
<1> HIDE DEF n
<1> SUFFICES ASSUME NEW k \in 1 .. (n + 1)
             PROVE  /\ \A j \in 1 .. (k - 1) : sent'[j].by = sent'[k].by => sent'[j].group < sent'[k].group
                    /\ \A g \in 1 .. (sent'[k].group - 1) :
                         \E j \in 1 .. (k - 1) : sent'[j].by = sent'[k].by /\ sent'[j].group = g
  BY <1>1 DEF RequestsInOrder
<1>5. CASE k = n + 1
  <2>1. ASSUME NEW j \in 1 .. n, sent[j].by = t
        PROVE  sent[j].group < Group(t)
    BY <2>1, <1>1, <1>3, <1>4 DEF Requested
  <2>2. ASSUME NEW g \in 1 .. (Group(t) - 1)
        PROVE  \E j \in 1 .. n : sent[j].by = t /\ sent[j].group = g
    <3>1. g \in 1 .. Groups /\ g < Group(t)
      BY <1>4, Constants
    <3> QED
      BY <3>1, <1>1, <1>4 DEF Requested
  <2>3. k - 1 = n
    BY <1>1, <1>5
  <2> QED
    BY <1>1, <1>2, <1>5, <2>1, <2>2, <2>3
<1>6. CASE k # n + 1
  <2>1. k \in 1 .. n /\ \A j \in 1 .. (k - 1) : j \in 1 .. n
    BY <1>1, <1>6
  <2>2. /\ \A j \in 1 .. (k - 1) : sent[j].by = sent[k].by => sent[j].group < sent[k].group
        /\ \A g \in 1 .. (sent[k].group - 1) :
             \E j \in 1 .. (k - 1) : sent[j].by = sent[k].by /\ sent[j].group = g
    BY <1>1, <2>1 DEF RequestsInOrder
  <2> QED
    BY <1>1, <2>1, <2>2
<1> QED
  BY <1>5, <1>6

\* A call keeps the progress of its thread and the order of its requests.
LEMMA SendProgress ==
  ASSUME TypeOK, Control, Progress, RequestsInOrder, NEW t \in Conns, Send(t)
  PROVE  Progress' /\ RequestsInOrder'
<1>1. /\ Requesting(t) /\ Requesting(t)' /\ pc'[t] \notin {"none", "created"}
      /\ times' = [times EXCEPT ![t] = times[t] - 1] /\ times[t] > 0
  BY Constants DEF Send, At, Goto, Requesting, TypeOK, Control, RequestsLeft
<1>2. \A u \in Conns \ {t} : pc'[u] = pc[u] /\ ~Requesting(u) /\ ~Requesting(u)'
  <2>1. \A u \in Conns \ {t} : pc'[u] = pc[u]
    BY RequestMoves, Constants DEF RequestStep
  <2> QED
    BY <1>1, <2>1 DEF Control, OneRequests, Requesting
<1>3. Group(t)' = nextGroup'
  <2>1. times'[t] # Groups
    BY <1>1, Countdown DEF TypeOK
  <2> QED
    BY <2>1 DEF Group, First
<1>4. ASSUME Requesting(t)' => \A g \in 1 .. Groups : Requested(t, g)' <=> g < Group(t)',
             \A u \in Conns \ {t}, g \in 1 .. Groups : Requested(u, g)' <=> Requested(u, g)
      PROVE  Progress'
  BY <1>1, <1>2, <1>4 DEF Progress
<1>5. CASE nextGroup' = Group(t) /\ UNCHANGED sent
  <2>1. \A u \in Conns, g \in 1 .. Groups : Requested(u, g)' <=> Requested(u, g)
    BY <1>5 DEF Requested
  <2>2. Progress'
    BY <1>1, <1>3, <1>4, <1>5, <2>1 DEF Progress
  <2> QED
    BY <1>5, <2>2 DEF RequestsInOrder
<1>6. ASSUME Group(t) <= Groups, nextGroup' = Group(t) + 1, NEW s \in Reaches(t),
             sent' = Append(sent, [by |-> t, on |-> s, group |-> Group(t)])
      PROVE  Progress' /\ RequestsInOrder'
  <2>1. \A u \in Conns, g \in 1 .. Groups :
          Requested(u, g)' <=> Requested(u, g) \/ (u = t /\ g = Group(t))
    BY <1>6, RequestedAfter
  <2>2. \A g \in 1 .. Groups : Requested(t, g) <=> g < Group(t)
    BY <1>1 DEF Progress
  <2>3. Group(t) \in 1 .. Groups
    BY <1>6, GroupType
  <2>4. \A g \in 1 .. Groups : Requested(t, g)' <=> g < Group(t)'
    BY <1>3, <1>6, <2>1, <2>2, <2>3, Constants
  <2>5. Progress'
    BY <1>4, <2>1, <2>4
  <2> QED
    BY <1>1, <1>6, <2>5, OrderAfter
<1>7. \/ nextGroup' = Group(t) /\ UNCHANGED sent
      \/ /\ Group(t) <= Groups /\ nextGroup' = Group(t) + 1
         /\ \E s \in Reaches(t) : sent' = Append(sent, [by |-> t, on |-> s, group |-> Group(t)])
  BY Zenon DEF Send
<1> QED
  BY <1>5, <1>6, <1>7

\* Every step keeps the inductive invariant.
LEMMA NextIInv == IInv /\ [Next]_vars => IInv'
<1> SUFFICES ASSUME IInv, [Next]_vars PROVE IInv'
  OBVIOUS
<1>1. TypeOK /\ Control /\ Progress /\ RequestsInOrder /\ CreatedOnce /\ RequestsLeft
  BY DEF IInv, Control
<1>2. CASE MainStep
  <2>1. UNCHANGED <<sent, nextGroup>>
    BY <1>1, <1>2, MainMoves
  <2>2. Progress'
    <3>1. \A t \in Conns :
            /\ pc'[t] \in {"none", "created"} => pc[t] \in {"none", "created"}
            /\ Requesting(t)' => Requesting(t) /\ times'[t] = times[t]
      BY <1>1, <1>2, MainMoves DEF Requesting
    <3> QED
      BY <1>1, <2>1, <3>1, ProgressKept
  <2>3. RequestsInOrder'
    BY <1>1, <2>1 DEF RequestsInOrder
  <2> QED
    BY <1>1, <1>2, <2>2, <2>3, MainTypes, MainControl DEF IInv
<1>3. ASSUME NEW t \in Conns, RequestStep(t)
      PROVE  IInv'
  <2>1. Progress' /\ RequestsInOrder'
    <3>1. CASE Send(t)
      BY <1>1, <3>1, SendProgress
    <3>2. CASE ~Send(t)
      <4>1. UNCHANGED <<sent, nextGroup>>
        BY <1>3, <3>2 DEF RequestStep, Begin, Check, Pause, Finish, request
      <4>2. \A u \in Conns \ {t} : pc'[u] = pc[u] /\ times'[u] = times[u]
        BY <1>1, <1>3, RequestMoves, Constants
      <4>3. pc'[t] \notin {"none", "created"}
        BY <1>1, <1>3, RequestCreated
      <4>4. Requesting(t)' => \/ Requesting(t) /\ times'[t] = times[t]
                              \/ pc[t] = "created" /\ times'[t] = Groups
        BY <1>1, <1>3, <3>2 DEF RequestStep, Begin, Check, Pause, Finish, request, At, ReadSig,
          Goto, Requesting, TypeOK
      <4>5. \A u \in Conns :
              /\ pc'[u] \in {"none", "created"} => pc[u] \in {"none", "created"}
              /\ Requesting(u)' => \/ Requesting(u) /\ times'[u] = times[u]
                                   \/ pc[u] = "created" /\ times'[u] = Groups
        BY <4>2, <4>3, <4>4 DEF Requesting
      <4>6. Progress'
        BY <1>1, <4>1, <4>5, ProgressKept
      <4> QED
        BY <1>1, <4>1, <4>6 DEF RequestsInOrder
    <3> QED
      BY <3>1, <3>2
  <2> QED
    BY <1>1, <1>3, <2>1, RequestTypes, RequestControl DEF IInv
<1>4. ASSUME NEW t \in Threads, LockSig(t) \/ Signal(t) \/ ShutdownHandler
      PROVE  IInv'
  <2>1. /\ UNCHANGED <<sent, nextGroup, times>>
        /\ \A u \in Conns : pc'[u] = pc[u] \/ (pc[u] = "pause" /\ pc'[u] = "check")
    BY <1>1, <1>4, SignalMoves
  <2>2. \A u \in Conns :
          /\ pc'[u] \in {"none", "created"} => pc[u] \in {"none", "created"}
          /\ Requesting(u)' => Requesting(u) /\ times'[u] = times[u]
    BY <2>1 DEF Requesting
  <2>3. Progress'
    BY <1>1, <2>1, <2>2, ProgressKept
  <2>4. RequestsInOrder'
    BY <1>1, <2>1 DEF RequestsInOrder
  <2> QED
    BY <1>1, <1>4, <2>3, <2>4, SignalTypes, SignalControl DEF IInv
<1>5. CASE UNCHANGED vars
  <2> USE <1>5 DEF vars, shared, request
  <2>1. TypeOK'
    BY <1>1 DEF TypeOK
  <2>2. Control'
    BY <1>1 DEF Control, SigHeldByReader, ReadsSig, OneRequests, CreatedOnce, OwnResources,
      WaitedFor, RequestsLeft, Requesting
  <2>3. Progress' /\ RequestsInOrder'
    BY <1>1 DEF Progress, Requested, Requesting, Group, First, RequestsInOrder
  <2> QED
    BY <2>1, <2>2, <2>3 DEF IInv
<1>6. Main \in Threads
  BY Constants
<1> QED
  BY <1>2, <1>3, <1>4, <1>5, <1>6 DEF Next

-----------------------------------------------------------------------------
\* The inductive invariant holds in every reachable state.
THEOREM InductiveInvariant == Spec => []IInv
BY InitIInv, NextIInv, PTL DEF Spec

\* The variables keep their types: no call asks for a group beyond the last
\* and no thread makes more calls than there are groups.
THEOREM TypeCorrect == Spec => []TypeOK
<1>1. IInv => TypeOK
  BY DEF IInv
<1> QED
  BY <1>1, InductiveInvariant, PTL

\* A request thread that got the mutex before main waited for it works on
\* the socket and the channel list of its own connection until it ends.
THEOREM NoTeardownUnderRequests == Spec => []RequestsBeforeTeardown
<1>1. IInv => RequestsBeforeTeardown
  BY OwnedBeforeClose DEF IInv, Control, WaitedFor, RequestsBeforeTeardown
<1> QED
  BY <1>1, InductiveInvariant, PTL

\* Each thread requests the groups from the first one on, in order and none
\* twice, although all threads share the index of the next group.
THEOREM InOrderOnce == Spec => []RequestsInOrder
<1>1. IInv => RequestsInOrder
  BY DEF IInv
<1> QED
  BY <1>1, InductiveInvariant, PTL

\* No two request threads request at the same time.
THEOREM RequestsExclude ==
  Spec => [](\A t, u \in Conns : Requesting(t) /\ Requesting(u) => t = u)
<1>1. IInv => \A t, u \in Conns : Requesting(t) /\ Requesting(u) => t = u
  BY DEF IInv, Control, OneRequests
<1> QED
  BY <1>1, InductiveInvariant, PTL
=============================================================================
