------------------------------- MODULE Connection -------------------------------
(***************************************************************************)
(* The connections to NaqsServer: the main thread of nmxptool opens one,   *)
(* starts a detached thread that requests the channels on it, receives     *)
(* until something ends the loop, waits for the thread and tears the       *)
(* connection down.  Signals interrupt either thread at any moment.        *)
(*                                                                         *)
(* Connection c uses socket c, the c-th channelList_subset and the c-th    *)
(* request thread, which is thread c; thread 0 is the main thread.  Every  *)
(* nmxptool_sigcondition_read() is two steps, LockSig and the step that    *)
(* uses the value, so that a signal can come between them.                 *)
(*                                                                         *)
(* The flow modelled is Private Data Stream without state file: one turn   *)
(* of the times_flow loop for every turn of the loop "Exit only on         *)
(* request".                                                               *)
(***************************************************************************)
EXTENDS Integers, Sequences

CONSTANTS
  MaxConnections,  \* bound of the model: the server refuses further ones
  Groups,          \* times_channel, the requests needed for all channels
  MaxSignals       \* bound of the model: signals sent to the process

ASSUME ConnectionsAssumption == MaxConnections \in Nat \ {0}
ASSUME GroupsAssumption == Groups \in Nat \ {0}
ASSUME SignalsAssumption == MaxSignals \in Nat

VARIABLES
  pc,            \* where each thread is
  conn,          \* the number of the current connection
  naqssock,      \* the open socket, 0 when closed
  subset,        \* channelList_subset, 0 for NULL
  chanSeq,       \* channelList_Seq, 0 for NULL
  sigcondition,  \* a signal to exit has been noted
  forceClose,    \* flag_force_close_connection
  mutexsig,      \* the thread that holds it
  mutexSend,     \* mutex_sendAddTimeSeriesChannel: the thread that holds it
  handler,       \* the thread ShutdownHandler() runs in
  times,         \* times_channel of each request thread
  early,         \* whether its usleep() was interrupted
  arg,           \* the socket and the list of its call in progress
  nextGroup,     \* static int i: the next group of channels to request
  sent,          \* history: the requests sent
  inTime,        \* history: threads that got the mutex before the wait for it
  signals        \* history: the signals that came

shared == <<naqssock, subset, chanSeq, conn>>
request == <<times, early, arg, nextGroup, sent>>
vars == <<pc, shared, sigcondition, forceClose, mutexsig, mutexSend, handler,
          request, inTime, signals>>

Main == 0
NoThread == -1
Conns == 1 .. MaxConnections
Threads == {Main} \cup Conns

-----------------------------------------------------------------------------
(* Threads and nmxptool_sigcondition_read()                                *)

Ended == pc[Main] \in {"returned", "exited"}

\* A thread takes its steps unless the process has ended or the handler of a
\* signal has interrupted it.
Runs(t) == ~Ended /\ handler # t

At(t, l) == Runs(t) /\ pc[t] = l
Goto(t, l) == pc' = [pc EXCEPT ![t] = l]

\* The places that call nmxptool_sigcondition_read().
ReadsSig(t) ==
  \/ pc[t] \in {"outer", "flow", "open", "loop", "sleep"}
  \/ pc[t] = "check" /\ times[t] > 0

LockSig(t) ==
  /\ Runs(t)
  /\ ReadsSig(t)
  /\ mutexsig = NoThread
  /\ mutexsig' = t
  /\ UNCHANGED <<pc, shared, sigcondition, forceClose, mutexSend, handler,
                 request, inTime, signals>>

\* The thread reads sigcondition and unlocks.
ReadSig(t, l) == At(t, l) /\ mutexsig = t /\ mutexsig' = NoThread

-----------------------------------------------------------------------------
(* The main thread                                                         *)

othersOfMain == <<sigcondition, mutexSend, handler, request, inTime, signals>>

\* while(EXIT_CONDITION)
Outer ==
  /\ ReadSig(Main, "outer")
  /\ Goto(Main, IF sigcondition THEN "exited" ELSE "subset")
  /\ UNCHANGED <<shared, forceClose, othersOfMain>>

\* nmxp_getAvailableChannelList() and nmxp_chan_subset(), or a failure.
MakeSubset ==
  /\ At(Main, "subset")
  /\ \/ /\ conn < MaxConnections
        /\ conn' = conn + 1
        /\ subset' = conn'
        /\ Goto(Main, "chanseq")
     \/ /\ Goto(Main, "returned")
        /\ UNCHANGED <<conn, subset>>
  /\ UNCHANGED <<naqssock, chanSeq, forceClose, mutexsig, othersOfMain>>

MakeChanSeq ==
  /\ At(Main, "chanseq")
  /\ chanSeq' = conn
  /\ Goto(Main, "flow")
  /\ UNCHANGED <<naqssock, subset, conn, forceClose, mutexsig, othersOfMain>>

\* The condition of the times_flow loop.
Flow ==
  /\ ReadSig(Main, "flow")
  /\ Goto(Main, IF sigcondition THEN "freeChanSeq" ELSE "open")
  /\ UNCHANGED <<shared, forceClose, othersOfMain>>

\* nmxp_openSocket(), nmxp_sendConnect() and nmxp_receiveChannelList(): main
\* returns if one of them fails or a signal to exit has come.
Open ==
  /\ ReadSig(Main, "open")
  /\ \/ /\ ~sigcondition
        /\ naqssock' = conn
        /\ Goto(Main, "spawn")
     \/ /\ Goto(Main, "returned")
        /\ UNCHANGED naqssock
  /\ UNCHANGED <<subset, chanSeq, conn, forceClose, othersOfMain>>

\* pthread_create() of p_nmxp_sendAddTimeSeriesChannel.
Spawn ==
  /\ At(Main, "spawn")
  /\ pc' = [pc EXCEPT ![Main] = "reset", ![conn] = "created"]
  /\ UNCHANGED <<shared, forceClose, mutexsig, othersOfMain>>

ResetForceClose ==
  /\ At(Main, "reset")
  /\ forceClose' = FALSE
  /\ Goto(Main, "loop")
  /\ UNCHANGED <<shared, mutexsig, othersOfMain>>

LeavesOnForceClose == forceClose                \* mutant: no sigcondition

LeavesOnSignal == sigcondition                  \* mutant: no force close

LeavesLoop == sigcondition \/ forceClose

\* The condition of the PDS loop, where exitpdscondition is set.
Loop ==
  /\ ReadSig(Main, "loop")
  /\ Goto(Main, IF LeavesLoop THEN "wait" ELSE "receive")
  /\ UNCHANGED <<shared, forceClose, othersOfMain>>

\* nmxp_receiveData() returns a packet or times out; or there has been no
\* packet for a minute; or there is an error, which clears exitpdscondition.
Receive ==
  /\ At(Main, "receive")
  /\ \/ Goto(Main, "loop") /\ UNCHANGED forceClose
     \/ Goto(Main, "loop") /\ forceClose' = TRUE
     \/ Goto(Main, "wait") /\ UNCHANGED forceClose
  /\ UNCHANGED <<shared, mutexsig, othersOfMain>>

WaitsForNobody == TRUE                          \* mutant: no mutex taken

WaitsForMutex == mutexSend = NoThread

\* "Waiting for p_nmxp_sendAddTimeSeriesChannel()": the mutex is locked, and
\* unlocked at once.
Wait ==
  /\ At(Main, "wait")
  /\ WaitsForMutex
  /\ Goto(Main, "close")
  /\ UNCHANGED <<shared, forceClose, mutexsig, othersOfMain>>

\* Flush (RawStream), terminate the subscription, close the socket.
Close ==
  /\ At(Main, "close")
  /\ naqssock' = 0
  /\ Goto(Main, "freeChanSeq")
  /\ UNCHANGED <<subset, chanSeq, conn, forceClose, mutexsig, othersOfMain>>

FreeChanSeq ==
  /\ At(Main, "freeChanSeq")
  /\ chanSeq' = 0
  /\ Goto(Main, "freeSubset")
  /\ UNCHANGED <<naqssock, subset, conn, forceClose, mutexsig, othersOfMain>>

FreeSubset ==
  /\ At(Main, "freeSubset")
  /\ subset' = 0
  /\ Goto(Main, "sleep")
  /\ UNCHANGED <<naqssock, chanSeq, conn, forceClose, mutexsig, othersOfMain>>

\* if(EXIT_CONDITION) nmxp_sleep(networkdelay)
Sleep ==
  /\ ReadSig(Main, "sleep")
  /\ Goto(Main, "outer")
  /\ UNCHANGED <<shared, forceClose, othersOfMain>>

MainStep ==
  \/ Outer \/ MakeSubset \/ MakeChanSeq \/ Flow \/ Open \/ Spawn
  \/ ResetForceClose \/ Loop \/ Receive \/ Wait \/ Close
  \/ FreeChanSeq \/ FreeSubset \/ Sleep

-----------------------------------------------------------------------------
(* The request thread p_nmxp_sendAddTimeSeriesChannel()                    *)

othersOfRequest == <<shared, sigcondition, forceClose, handler, signals>>

TakesMutex == mutexSend = NoThread

\* The mutex is taken and times_channel computed from channelList_subset.
\* The thread is in time if main has not waited for it yet.
Begin(t) ==
  /\ At(t, "created")
  /\ TakesMutex
  /\ mutexSend' = t
  /\ times' = [times EXCEPT ![t] = Groups]
  /\ inTime' = IF conn = t /\ pc[Main] \in {"reset", "loop", "receive", "wait"}
               THEN inTime \cup {t} ELSE inTime
  /\ Goto(t, "check")
  /\ UNCHANGED <<mutexsig, early, arg, nextGroup, sent, othersOfRequest>>

\* while(times_channel > 0 && !sigcondition): the arguments of the call.
Check(t) ==
  /\ \/ /\ ReadSig(t, "check")
        /\ ~sigcondition
        /\ arg' = [arg EXCEPT ![t] = [socket |-> naqssock, list |-> subset]]
        /\ Goto(t, "send")
     \/ /\ ReadSig(t, "check")
        /\ sigcondition
        /\ Goto(t, "unlock")
        /\ UNCHANGED arg
     \/ /\ At(t, "check")
        /\ times[t] = 0
        /\ Goto(t, "unlock")
        /\ UNCHANGED <<arg, mutexsig>>
  /\ UNCHANGED <<mutexSend, times, early, nextGroup, sent, inTime, othersOfRequest>>

First(t) == times[t] = Groups

NoRestart(t) == nextGroup                        \* mutant: no flag_restart

FromZero(t) == IF First(t) THEN 0 ELSE nextGroup \* mutant: off by one

Group(t) == IF First(t) THEN 1 ELSE nextGroup

\* Where a request ends up: a descriptor closed in the meantime may be that
\* of the next connection.
Reaches(t) ==
  IF arg[t].socket = 0 THEN {0} ELSE {arg[t].socket, naqssock}

\* Less than n_usec have passed since the last request.
TooSoon(t) == ~First(t) /\ early[t]

\* nmxp_sendAddTimeSeriesChannel(): the next group of channels is requested,
\* unless it is too soon: then the call does nothing, and counts.
Send(t) ==
  /\ At(t, "send")
  /\ \/ /\ TooSoon(t) \/ Group(t) > Groups
        /\ nextGroup' = Group(t)
        /\ UNCHANGED sent
     \/ /\ ~TooSoon(t)
        /\ Group(t) <= Groups
        /\ nextGroup' = Group(t) + 1
        /\ \E s \in Reaches(t) : sent' = Append(sent, [by |-> t, on |-> s, group |-> Group(t)])
  /\ times' = [times EXCEPT ![t] = @ - 1]
  /\ Goto(t, IF times[t] > 1 THEN "pause" ELSE "check")
  /\ UNCHANGED <<mutexsig, mutexSend, early, arg, inTime, othersOfRequest>>

\* nmxp_usleep(usec)
Pause(t) ==
  /\ At(t, "pause")
  /\ early' = [early EXCEPT ![t] = FALSE]
  /\ Goto(t, "check")
  /\ UNCHANGED <<mutexsig, mutexSend, times, arg, nextGroup, sent, inTime, othersOfRequest>>

Finish(t) ==
  /\ At(t, "unlock")
  /\ mutexSend' = NoThread
  /\ Goto(t, "done")
  /\ UNCHANGED <<mutexsig, request, inTime, othersOfRequest>>

RequestStep(t) == Begin(t) \/ Check(t) \/ Send(t) \/ Pause(t) \/ Finish(t)

-----------------------------------------------------------------------------
(* Signals: any thread may be interrupted                                  *)

Alive(t) == ~Ended /\ pc[t] \notin {"none", "done"}

Sent(s) ==
  /\ Len(signals) < MaxSignals
  /\ signals' = Append(signals, s)

\* A signal ends the usleep() of the thread it interrupts.
Interrupt(t) ==
  IF pc[t] = "pause"
  THEN Goto(t, "check") /\ early' = [early EXCEPT ![t] = TRUE]
  ELSE UNCHANGED <<pc, early>>

othersOfSignal == <<shared, mutexSend, times, arg, nextGroup, sent, inTime>>

\* TERM, INT or QUIT: ShutdownHandler() starts.
Term(t) ==
  /\ Alive(t)
  /\ handler = NoThread
  /\ Sent("TERM")
  /\ handler' = t
  /\ Interrupt(t)
  /\ UNCHANGED <<sigcondition, forceClose, mutexsig, othersOfSignal>>

\* nmxptool_sigcondition_write() from the handler, which then returns.
ShutdownHandler ==
  /\ ~Ended
  /\ handler # NoThread
  /\ mutexsig = NoThread
  /\ sigcondition' = TRUE
  /\ handler' = NoThread
  /\ UNCHANGED <<pc, early, forceClose, mutexsig, signals, othersOfSignal>>

\* USR1: CloseConnectionHandler()
Usr1(t) ==
  /\ Alive(t)
  /\ Sent("USR1")
  /\ forceClose' = TRUE
  /\ Interrupt(t)
  /\ UNCHANGED <<sigcondition, mutexsig, handler, othersOfSignal>>

\* ALRM: nmxptool_AlarmHandler() reads channelList_subset and, unless that
\* is NULL, what channelList_Seq points to.
Alrm(t) ==
  /\ Alive(t)
  /\ Sent("ALRM")
  /\ Interrupt(t)
  /\ UNCHANGED <<sigcondition, forceClose, mutexsig, handler, othersOfSignal>>

Signal(t) == Term(t) \/ Usr1(t) \/ Alrm(t)

-----------------------------------------------------------------------------
Init ==
  /\ pc = [t \in Threads |-> IF t = Main THEN "outer" ELSE "none"]
  /\ conn = 0
  /\ naqssock = 0
  /\ subset = 0
  /\ chanSeq = 0
  /\ sigcondition = FALSE
  /\ forceClose = FALSE
  /\ mutexsig = NoThread
  /\ mutexSend = NoThread
  /\ handler = NoThread
  /\ times = [t \in Conns |-> 0]
  /\ early = [t \in Conns |-> FALSE]
  /\ arg = [t \in Conns |-> [socket |-> 0, list |-> 0]]
  /\ nextGroup = 1
  /\ sent = <<>>
  /\ inTime = {}
  /\ signals = <<>>

Next ==
  \/ \E t \in Threads : LockSig(t)
  \/ MainStep
  \/ \E t \in Conns : RequestStep(t)
  \/ \E t \in Threads : Signal(t)
  \/ ShutdownHandler

Spec == Init /\ [][Next]_vars

\* The threads are scheduled, nmxp_receiveData() returns within
\* NMXP_HIGHEST_TIMEOUT, and who waits for mutexsig while the main loop takes
\* it again and again gets it, as the main thread spends its time in recv()
\* without it.
FairSpec ==
  /\ Spec
  /\ WF_vars(MainStep) /\ WF_vars(LockSig(Main))
  /\ \A t \in Conns : WF_vars(RequestStep(t)) /\ SF_vars(LockSig(t))
  /\ SF_vars(ShutdownHandler)

-----------------------------------------------------------------------------
(* Properties                                                              *)

MainLabels == {"outer", "subset", "chanseq", "flow", "open", "spawn", "reset",
               "loop", "receive", "wait", "close", "freeChanSeq", "freeSubset",
               "sleep", "exited", "returned"}
RequestLabels == {"none", "created", "check", "send", "pause", "unlock", "done"}

TypeOK ==
  /\ pc \in [Threads -> MainLabels \cup RequestLabels]
  /\ pc[Main] \in MainLabels
  /\ \A t \in Conns : pc[t] \in RequestLabels
  /\ conn \in 0 .. MaxConnections /\ naqssock \in 0 .. MaxConnections
  /\ subset \in 0 .. MaxConnections /\ chanSeq \in 0 .. MaxConnections
  /\ sigcondition \in BOOLEAN /\ forceClose \in BOOLEAN
  /\ mutexsig \in Threads \cup {NoThread}
  /\ mutexSend \in Threads \cup {NoThread}
  /\ handler \in Threads \cup {NoThread}
  /\ times \in [Conns -> 0 .. Groups]
  /\ early \in [Conns -> BOOLEAN]
  /\ arg \in [Conns -> [socket : 0 .. MaxConnections, list : 0 .. MaxConnections]]
  /\ nextGroup \in 1 .. (Groups + 1)
  /\ sent \in Seq([by : Conns, on : 0 .. MaxConnections, group : 1 .. Groups])
  /\ inTime \subseteq Conns
  /\ signals \in Seq({"TERM", "USR1", "ALRM"}) /\ Len(signals) <= MaxSignals

Requesting(t) == pc[t] \in {"check", "send", "pause", "unlock"}

\* A request thread that got the mutex before main waited for it has, until
\* it ends, the socket and the channel list of its own connection, whatever
\* ends the loop of the main thread meanwhile.
RequestsBeforeTeardown ==
  \A t \in inTime :
    Requesting(t) => subset = t /\ naqssock = t
                     /\ (pc[t] = "send" => arg[t] = [socket |-> t, list |-> t])

\* The index of the next group is a static variable shared by all request
\* threads, those of closed connections too.  Still each thread requests
\* the groups from the first one on, in order and none twice.
RequestsInOrder ==
  \A k \in DOMAIN sent :
    LET earlier == {j \in 1 .. (k - 1) : sent[j].by = sent[k].by}
    IN /\ \A j \in earlier : sent[j].group < sent[k].group
       /\ \A g \in 1 .. (sent[k].group - 1) : \E j \in earlier : sent[j].group = g

SelfDeadlock ==
  handler # NoThread /\ mutexsig = handler

\* After a signal to exit has been noted the process ends, wherever its
\* threads are, unless ShutdownHandler() has interrupted a thread that was
\* just reading sigcondition.
ShutdownCompletes == sigcondition ~> (Ended \/ SelfDeadlock)

InLoop(c) == conn = c /\ pc[Main] \in {"loop", "receive"}

\* USR1, or a minute without data, in the receive loop ends the connection.
ForceCloseCloses ==
  \A c \in Conns : (forceClose /\ InLoop(c)) ~> (naqssock # c \/ Ended \/ SelfDeadlock)

NoPauseCut == \A k \in DOMAIN signals : signals[k] = "TERM"

\* "nC is the number of channels to request at a time", says --help of
\* --mschan: so every channel is requested on a connection that stays open,
\* late threads of earlier connections or not, as long as no signal has cut
\* a pause between two requests short.
AllRequested ==
  \A c \in Conns :
    (naqssock = c /\ pc[c] # "none") ~>
      \/ \A g \in 1 .. Groups : \E k \in DOMAIN sent : sent[k] = [by |-> c, on |-> c, group |-> g]
      \/ naqssock # c \/ sigcondition \/ Ended \/ SelfDeadlock \/ ~NoPauseCut

\* "Sending these signals to nmxptool causes it to immediately attempt to
\* gracefully terminate", says README.md of TERM, INT and QUIT.
TermTerminates == (\E k \in DOMAIN signals : signals[k] = "TERM") ~> Ended

\* "Waiting for p_nmxp_sendAddTimeSeriesChannel()", says the code of locking
\* and unlocking the mutex: afterwards the thread should have ended.
WaitedForRequests ==
  pc[Main] = "close" => pc[conn] = "done"
=============================================================================
