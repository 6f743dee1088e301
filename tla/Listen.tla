--------------------------------- MODULE Listen ---------------------------------
(***************************************************************************)
(* The server that --listen starts: a thread accepts clients, a thread for *)
(* each client reads its commands, and the main thread prints every packet *)
(* it handles to the clients that asked for it.  They share the table of   *)
(* clients under mutex_occ.  While a client has its "raw" or "params"      *)
(* printed, under mutex_cur_fd, nmxp_log_send_socket() is in the lists of  *)
(* nmxp_log() and cur_fd is that client's descriptor: meanwhile what any   *)
(* thread logs goes to that client.  Listed and cur_fd # 0 are one state   *)
(* here.                                                                   *)
(*                                                                         *)
(* A send() that fails ends the thread that calls it, whichever it is,     *)
(* after it has unlocked mutex_occ, whoever holds it (POSIX leaves that    *)
(* undefined; the mutex of Linux is then free).  Descriptors are numbers   *)
(* that the next client gets again; 0, standard input, is never one.       *)
(***************************************************************************)
EXTENDS Integers, SequencesExt

CONSTANTS
  MaxClients,   \* bound of the model: the clients that connect
  Given         \* bound of the model: the commands they give

Commands == {"print", "raw", "answered", "silent", "exit"}

ASSUME ClientsAssumption == MaxClients \in Nat \ {0}
ASSUME GivenAssumption == Given \subseteq Commands

VARIABLES
  pc,         \* where each thread is
  out,        \* the descriptor it has passed to nmxptool_send_ctrl(), 0 if none
  back,       \* where it goes on after that
  fd,         \* the descriptor it uses at its end: its client's, or one that failed
  i,          \* the index of the main thread's loop
  table,      \* ds, the first occ elements
  mutexOcc, mutexCurFd,   \* the thread that holds it
  curFd,      \* cur_fd
  owner,      \* the client each descriptor is a connection to, 0 if closed
  peer,       \* what each client does
  asked,      \* history: a client gave the command print, raw or params
  raws,       \* history: the clients that gave raw or params
  astray      \* history: a failed send() was to another thread's client, or
              \* mutex_occ was unlocked for another thread

threads == <<pc, out, back, fd, i>>
shared == <<table, mutexOcc, mutexCurFd, curFd>>
sockets == <<owner, peer>>
history == <<asked, raws, astray>>
vars == <<threads, shared, sockets, history>>

Clients == 1 .. MaxClients
Main == 0
NoThread == -1
Threads == {Main} \cup Clients
Fds == Clients          \* as many as clients

Goto(t, l) == pc' = [pc EXCEPT ![t] = l]

\* nmxp_log(), and then l: nmxp_log_send_socket() finds cur_fd not 0.
LogThen(t, l) ==
  IF curFd # 0
    THEN Goto(t, "logRead") /\ back' = [back EXCEPT ![t] = l]
    ELSE Goto(t, l) /\ UNCHANGED back

-----------------------------------------------------------------------------
(* Clients                                                                 *)

\* A client goes away: the first send() to it still succeeds.
GoAway(c) ==
  /\ peer[c] \in {"here", "stalled"}
  /\ peer' = [peer EXCEPT ![c] = "closing"]
  /\ UNCHANGED <<owner, threads, shared, history>>

\* A client stops reading, and a send() to it blocks.
Stall(c) ==
  /\ peer[c] = "here"
  /\ peer' = [peer EXCEPT ![c] = "stalled"]
  /\ UNCHANGED <<owner, threads, shared, history>>

Gone(c) == peer[c] \in {"closing", "reset"}

\* What is at the other end of a descriptor.
Peer(f) == IF f = 0 \/ owner[f] = 0 THEN "none" ELSE peer[owner[f]]

LeavesLocked == mutexOcc            \* mutant: a thread that ends does not unlock
Unlocks == NoThread

\* nmxptool_send_ctrl(): the thread goes on at l and leaves mutex_occ to m, or it
\* unlocks it and is on its way to its end.
SendCtrl(t, f, l, m) ==
  \/ /\ Peer(f) \in {"here", "closing"}
     /\ peer' = [peer EXCEPT ![owner[f]] = IF @ = "closing" THEN "reset" ELSE @]
     /\ Goto(t, l)
     /\ mutexOcc' = m
     /\ UNCHANGED <<fd, astray>>
  \/ /\ Peer(f) \in {"none", "reset"}
     /\ fd' = [fd EXCEPT ![t] = f]
     /\ astray' = (astray \/ t = Main \/ f # fd[t] \/ mutexOcc # t)
     /\ mutexOcc' = Unlocks
     /\ Goto(t, "remove")
     /\ UNCHANGED peer

-----------------------------------------------------------------------------
(* What any thread may do                                                  *)

\* nmxp_log_send_socket() reads cur_fd again and passes what it reads, which may
\* be 0 by now, and which nothing keeps open until it is used.
LogRead(t) ==
  /\ pc[t] = "logRead"
  /\ out' = [out EXCEPT ![t] = curFd]
  /\ Goto(t, "send")
  /\ UNCHANGED <<back, fd, i, shared, sockets, history>>

Send(t) ==
  /\ pc[t] = "send"
  /\ SendCtrl(t, out[t], back[t], mutexOcc)
  /\ out' = [out EXCEPT ![t] = 0]
  /\ back' = [back EXCEPT ![t] = "idle"]
  /\ UNCHANGED <<i, table, mutexCurFd, curFd, owner, asked, raws>>

LastOf(f) == {Len(table)} \ {0}      \* mutant: the last element is removed

\* The first element with descriptor f, if there is one.
FirstOf(f) ==
  {k \in DOMAIN table : table[k].fd = f /\ \A j \in 1 .. (k - 1) : table[j].fd # f}

\* nmxptool_fd_rem(): the elements behind the one removed move up.
FdRem(t) ==
  /\ pc[t] = "remove"
  /\ mutexOcc = NoThread
  /\ \/ \E k \in FirstOf(fd[t]) : table' = RemoveAt(table, k)
     \/ FirstOf(fd[t]) = {} /\ UNCHANGED table
  /\ Goto(t, "close")
  /\ UNCHANGED <<out, back, fd, i, mutexOcc, mutexCurFd, curFd, sockets, history>>

Close(t) ==
  /\ pc[t] = "close"
  /\ IF Peer(fd[t]) = "none"
       THEN UNCHANGED sockets
       ELSE /\ owner' = [owner EXCEPT ![fd[t]] = 0]
            /\ peer' = [peer EXCEPT ![owner[fd[t]]] =
                           IF Gone(owner[fd[t]]) THEN "reset" ELSE "closed"]
  /\ fd' = [fd EXCEPT ![t] = 0]
  /\ Goto(t, "ended")
  /\ UNCHANGED <<out, back, i, shared, history>>

ThreadStep(t) == LogRead(t) \/ Send(t) \/ FdRem(t) \/ Close(t)

-----------------------------------------------------------------------------
(* The main thread                                                         *)

MainLogs ==
  /\ pc[Main] = "idle" /\ curFd # 0
  /\ LogThen(Main, "idle")
  /\ UNCHANGED <<out, fd, i, shared, sockets, history>>

\* A packet is handled: nmxptool_listen_print_seq_no().
MainPrints ==
  /\ pc[Main] = "idle"
  /\ Goto(Main, "lock")
  /\ UNCHANGED <<out, back, fd, i, shared, sockets, history>>

MainLocks ==
  /\ pc[Main] = "lock"
  /\ mutexOcc = NoThread
  /\ mutexOcc' = Main
  /\ i' = 1
  /\ Goto(Main, "printing")
  /\ UNCHANGED <<out, back, fd, table, mutexCurFd, curFd, sockets, history>>

MainSends ==
  /\ pc[Main] = "printing"
  /\ i <= Len(table)
  /\ IF table[i].prints
       THEN /\ out' = [out EXCEPT ![Main] = table[i].fd]
            /\ back' = [back EXCEPT ![Main] = "printing"]
            /\ Goto(Main, "send")
       ELSE UNCHANGED <<pc, out, back>>
  /\ i' = i + 1
  /\ UNCHANGED <<fd, shared, sockets, history>>

MainUnlocks ==
  /\ pc[Main] = "printing"
  /\ i > Len(table)
  /\ mutexOcc' = NoThread
  /\ i' = 1
  /\ Goto(Main, "idle")
  /\ UNCHANGED <<out, back, fd, table, mutexCurFd, curFd, sockets, history>>

MainStep == MainLocks \/ MainSends \/ MainUnlocks \/ ThreadStep(Main)

-----------------------------------------------------------------------------
(* The thread of a client: nmxptool_p_man_sockfd()                         *)

AsksAtOnce == TRUE                  \* mutant: a client that has not asked is printed to
Asks == FALSE

\* A new connection gets the lowest descriptor that is free.
LowestFree(f) == owner[f] = 0 /\ \A g \in 1 .. (f - 1) : owner[g] # 0

\* accept(), the thread it starts, and its nmxptool_fd_add() and nmxp_log().
\* Clients are numbered as they connect.
Accept(c) ==
  /\ peer[c] = "absent"
  /\ \A d \in 1 .. (c - 1) : peer[d] # "absent"
  /\ mutexOcc = NoThread
  /\ peer' = [peer EXCEPT ![c] = "here"]
  /\ \E f \in Fds :
       /\ LowestFree(f)
       /\ owner' = [owner EXCEPT ![f] = c]
       /\ fd' = [fd EXCEPT ![c] = f]
       /\ table' = Append(table, [fd |-> f, prints |-> Asks])
  /\ LogThen(c, "prompt")
  /\ UNCHANGED <<out, i, mutexOcc, mutexCurFd, curFd, history>>

\* The welcome message and every prompt are sent under mutex_occ.
Prompt(c) ==
  /\ pc[c] = "prompt"
  /\ mutexOcc = NoThread
  /\ mutexOcc' = c
  /\ Goto(c, "prompting")
  /\ UNCHANGED <<out, back, fd, i, table, mutexCurFd, curFd, sockets, history>>

SendPrompt(c) ==
  /\ pc[c] = "prompting"
  /\ SendCtrl(c, fd[c], "read", NoThread)
  /\ UNCHANGED <<out, back, i, table, mutexCurFd, curFd, owner, asked, raws>>

NothingToRead(c) == Peer(fd[c]) \in {"none", "closing", "reset"}

\* read(): a command, or nothing when the client has gone away.
ReadCommand(c) ==
  /\ pc[c] = "read"
  /\ \E command \in IF NothingToRead(c) THEN {"silent"} ELSE Given :
       LogThen(c, command)
  /\ UNCHANGED <<out, fd, i, shared, sockets, history>>

\* nmxptool_fd_command(): the command is noted in the table, and then obeyed.
\* "print" and "exit" are answered as commands that do not exist.
Command(c) ==
  /\ pc[c] \in Commands
  /\ mutexOcc = NoThread
  /\ table' = [k \in DOMAIN table |->
       IF table[k].fd = fd[c] THEN [table[k] EXCEPT !.prints = pc[c] = "print"] ELSE table[k]]
  /\ Goto(c, CASE pc[c] = "raw"                   -> "obey"
               [] pc[c] = "silent"                -> "prompt"
               [] pc[c] \in {"answered", "print"} -> "answer"
               [] pc[c] = "exit"                  -> "answerExit")
  /\ asked' = (asked \/ pc[c] \in {"print", "raw"})
  /\ raws' = IF pc[c] = "raw" THEN raws \cup {c} ELSE raws
  /\ UNCHANGED <<out, back, fd, i, mutexOcc, mutexCurFd, curFd, sockets, astray>>

\* After the answer to "exit": nmxptool_fd_rem() and close().
Answer(c) ==
  /\ pc[c] \in {"answer", "answerExit"}
  /\ SendCtrl(c, fd[c], IF pc[c] = "answer" THEN "prompt" ELSE "remove", mutexOcc)
  /\ UNCHANGED <<out, back, i, table, mutexCurFd, curFd, owner, asked, raws>>

\* What is printed goes through nmxp_log(), line by line.
BeginRaw(c) ==
  /\ pc[c] = "obey"
  /\ mutexCurFd = NoThread
  /\ mutexCurFd' = c
  /\ curFd' = fd[c]
  /\ Goto(c, "logRead")
  /\ back' = [back EXCEPT ![c] = "endRaw"]
  /\ UNCHANGED <<out, fd, i, table, mutexOcc, sockets, history>>

RawGoesOn(c) ==
  /\ pc[c] = "endRaw"
  /\ Goto(c, "logRead")
  /\ back' = [back EXCEPT ![c] = "endRaw"]
  /\ UNCHANGED <<out, fd, i, shared, sockets, history>>

KeepsMutex == mutexCurFd            \* mutant: not unlocked
Released == NoThread

EndRaw(c) ==
  /\ pc[c] = "endRaw"
  /\ curFd' = 0
  /\ mutexCurFd' = Released
  /\ Goto(c, "prompt")
  /\ UNCHANGED <<out, back, fd, i, table, mutexOcc, sockets, history>>

ClientStep(c) ==
  \/ Prompt(c) \/ SendPrompt(c) \/ Command(c) \/ Answer(c)
  \/ BeginRaw(c) \/ EndRaw(c) \/ ThreadStep(c)

-----------------------------------------------------------------------------
Init ==
  /\ pc = [t \in Threads |-> IF t = Main THEN "idle" ELSE "none"]
  /\ out = [t \in Threads |-> 0]
  /\ back = [t \in Threads |-> "idle"]
  /\ fd = [t \in Threads |-> 0]
  /\ i = 1
  /\ table = <<>>
  /\ mutexOcc = NoThread
  /\ mutexCurFd = NoThread
  /\ curFd = 0
  /\ owner = [f \in Fds |-> 0]
  /\ peer = [c \in Clients |-> "absent"]
  /\ asked = FALSE
  /\ raws = {}
  /\ astray = FALSE

Next ==
  \/ MainLogs \/ MainPrints \/ MainStep
  \/ \E c \in Clients : Accept(c) \/ GoAway(c) \/ Stall(c) \/ ReadCommand(c)
                          \/ RawGoesOn(c) \/ ClientStep(c)

Spec == Init /\ [][Next]_vars

\* Threads run, and the main thread gets mutex_occ some day although others take
\* it again and again; that is strong fairness.  Clients owe nothing.
FairSpec ==
  /\ Spec
  /\ SF_vars(MainStep)
  /\ \A c \in Clients : WF_vars(ClientStep(c))

-----------------------------------------------------------------------------
(* Properties                                                              *)

Registered(c) == pc[c] \notin {"none", "close", "ended"}
InSection(t) == \/ pc[t] \in {"printing", "prompting"}
                \/ pc[t] = "send" /\ back[t] = "printing"

\* Unless a failed send() ended the wrong thread or unlocked for another one,
\* the table holds the descriptor of every client that has been added and not
\* removed, once, and it is still that client's: no packet is printed to a
\* closed descriptor or to a client that got the number of one that left.  And
\* mutex_occ excludes.
TableIsClients ==
  ~astray =>
    /\ \A c \in Clients : Registered(c) =>
         owner[fd[c]] = c /\ \E k \in DOMAIN table : table[k].fd = fd[c]
    /\ \A k \in DOMAIN table :
         \E c \in Clients : Registered(c) /\ table[k].fd = fd[c]
    /\ \A j, k \in DOMAIN table : table[j].fd = table[k].fd => j = k
    /\ \A s, t \in Threads : InSection(s) /\ InSection(t) => s = t

\* Only two things end the thread that receives the data: that a client had its
\* "raw" or "params" printed, or that a client has gone away while packets were
\* printed.  Clients that connect, leave with "exit", stop reading or go away
\* without that do not.
MainSurvives ==
  pc[Main] \in {"remove", "close", "ended"} =>
    raws # {} \/ (asked /\ \E c \in Clients : peer[c] = "reset")

\* As long as nobody has left, nmxp_log() is listed only while a client's thread
\* obeys its "raw" or "params", which gives mutex_cur_fd back, and cur_fd is that
\* client's.  A line that another thread logs meanwhile may be late: it still goes
\* only to a client that gave one of the two.
RawGoesToAsker ==
  (\A c \in Clients : peer[c] \in {"absent", "here", "stalled"}) =>
    /\ IF mutexCurFd = NoThread
         THEN curFd = 0
         ELSE curFd = fd[mutexCurFd] /\ owner[curFd] = mutexCurFd
                /\ pc[mutexCurFd] \in {"logRead", "send", "endRaw"}
    /\ \A t \in Threads : pc[t] = "send" /\ back[t] # "printing" /\ out[t] # 0 =>
         owner[out[t]] \in raws

\* Main is held up by its clients for ever only by one that has stopped reading.
MainGoesOn ==
  pc[Main] = "lock" ~> pc[Main] \in {"idle", "ended"} \/ \E c \in Clients : peer[c] = "stalled"
=============================================================================
