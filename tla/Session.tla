-------------------------------- MODULE Session --------------------------------
(***************************************************************************)
(* One conversation of nmxptool with a Nanometrics server, message by      *)
(* message (Framing shows how messages are cut out of the stream):         *)
(*   "meta"  nmxp_getMetaChannelList(): the DataServer is asked for the    *)
(*           channels, their times and their networks;                     *)
(*   "data"  the DAP flow of main(): for every period and every channel a  *)
(*           data request, and sleeping with keep-alive messages;          *)
(*   "list"  nmxp_getAvailableChannelList(): NaqsServer's channels.        *)
(* In the first two the answer to a request is any number of messages and  *)
(* then READY.  No message says which request it answers, and after a read *)
(* that failed (it timed out, or a signal interrupted recv()) both         *)
(* functions go on to the next request, whose answer they then expect      *)
(* where what is left of the late one, or of a message, still comes.       *)
(***************************************************************************)
EXTENDS Integers, FiniteSets, SequencesExt

CONSTANTS
  Channels,     \* the channels, a sequence in the order of the list
  WithInfo,     \* those whose key has channel number 0
  MaxPackets,   \* bound of the model: packets of a channel in a period
  Periods,      \* bound of the model: rounds of --delay
  MaxTimes,     \* the messages nmxp_waitReady() reads before it gives up
  MaxRest       \* bound of the model: reads of a header in what is left of a message

Keys == {Channels[i] : i \in DOMAIN Channels}
NoKey == "none"

ASSUME ChannelsAssumption ==
  /\ Channels \in Seq(Keys) /\ IsInjective(Channels)
  /\ NoKey \notin Keys
  /\ WithInfo \subseteq Keys
ASSUME NumbersAssumption ==
  /\ MaxPackets \in Nat \ {0}
  /\ Periods \in Nat \ {0}
  /\ MaxTimes \in Nat
  /\ MaxRest \in Nat

VARIABLES
  mode,      \* which of the conversations
  pc,        \* where the client is
  todo,      \* the requests of the phase or round that are not yet sent
  request,   \* the last one sent
  times,     \* of nmxp_waitReady()
  answers,   \* the messages sent by the server of which nothing is read
  rest,      \* of the message before them, which was left unfinished: the reads
             \* of a header that it takes to pass over what is left of it
  gone,      \* the server has closed the connection
  sig,       \* sigcondition
  failures,  \* history: the reads that failed
  list,      \* chan_list: what is known of each channel, see Known
  handled,   \* history: the packets handled
  asked      \* history: the data packets that the requests sent ask for

server == <<answers, rest, gone>>
vars == <<mode, pc, todo, request, times, server, sig, failures, list, handled, asked>>

Request(kind, key, period) == [kind |-> kind, key |-> key, period |-> period]
NoRequest == Request("none", NoKey, 0)
Known == [listed : BOOLEAN, times : {"none", "right", "wrong"},
          network : {"none", "right", "wrong"}]

\* The n-th message of the answer to r; READY is number 0.
Message(r, n) == [to |-> r, n |-> n]
Ready(r) == Message(r, 0)
IsReady(message) == message.n = 0

Answer(r, n) == [i \in 1 .. n |-> Message(r, i)] \o <<Ready(r)>>

\* The number of messages before READY.
Sizes(r) ==
  CASE r.kind = "pending" -> {0}
    [] r.kind = "data"    -> 0 .. MaxPackets
    [] OTHER              -> {1}

\* What the server may send before it is ready: nothing, a word of zeros, and
\* messages of other types.
Greeting == Request("greeting", NoKey, 0)
Greetings == {Answer(Greeting, n) : n \in 0 .. (MaxTimes + 1)}

-----------------------------------------------------------------------------
(* The server                                                              *)

\* The server answers r, unless it has closed the connection.
Answered(r) ==
  \/ gone /\ UNCHANGED <<answers, asked>>
  \/ /\ ~gone
     /\ \E n \in Sizes(r) :
          /\ answers' = answers \o Answer(r, n)
          /\ asked' = IF r.kind = "data" THEN asked \cup {Message(r, i) : i \in 1 .. n}
                                         ELSE asked

Leave ==
  /\ ~gone
  /\ gone' = TRUE
  /\ UNCHANGED <<mode, pc, todo, request, times, answers, rest, sig, failures, list, handled,
                 asked>>

Signal ==
  /\ ~sig
  /\ sig' = TRUE
  /\ UNCHANGED <<mode, pc, todo, request, times, server, failures, list, handled, asked>>

-----------------------------------------------------------------------------
(* The handshake                                                           *)

progress == <<mode, sig, list, handled>>

\* nmxp_openSocket() tries once, and not at all after a signal.
OpenSocket ==
  /\ pc = "open"
  /\ \/ ~gone /\ ~sig /\ pc' = IF mode = "list" THEN "connect" ELSE "login"
     \/ pc' = "failed"
  /\ UNCHANGED <<progress, todo, request, times, server, failures, asked>>

\* nmxp_readConnectionTime() and nmxp_sendConnectRequest(), or one of them fails.
Login ==
  /\ pc = "login"
  /\ \/ /\ ~gone
        /\ pc' = "waitReady"
        /\ answers' \in Greetings
     \/ /\ pc' = "failed"
        /\ UNCHANGED answers
  /\ UNCHANGED <<progress, todo, request, times, rest, gone, failures, asked>>

\* nmxp_sendConnect(), or its failure, after which the socket is closed.
SendConnect ==
  /\ pc = "connect"
  /\ \/ /\ ~gone
        /\ pc' = "receiveList"
        /\ \E n \in {1, 2} : answers' = <<Message(Greeting, n)>>
     \/ /\ gone
        /\ pc' = "failed"
        /\ UNCHANGED answers
  /\ UNCHANGED <<progress, todo, request, times, rest, gone, failures, asked>>

\* A read gives the next message.
Read ==
  /\ rest = 0
  /\ answers # <<>>
  /\ answers' = Tail(answers)
  /\ UNCHANGED <<rest, failures>>

message == Head(answers)

\* The read of a header takes its bytes from what is left of a message.
PassOver ==
  /\ rest > 0
  /\ rest' = rest - 1
  /\ UNCHANGED answers

\* A read ends inside the next message.
Cut ==
  /\ rest <= 1
  /\ answers # <<>>
  /\ answers' = Tail(answers)
  /\ rest' \in 1 .. MaxRest

\* A read that fails has read nothing, or a part of a message, or from the middle
\* of one all it asked for, and found no signature.
Misses == UNCHANGED <<answers, rest>> \/ PassOver \/ Cut

NeverEof ==                               \* mutant: recv() = 0 is tried again
  /\ ~(gone /\ answers = <<>>)
  /\ failures' = failures + 1
  /\ Misses

\* A read may fail at any time: it times out, or a signal interrupts recv(),
\* which is not tried again, or the connection is closed.
ReadFails ==
  /\ failures' = failures + 1
  /\ Misses

\* In the middle of a message a word of zeros passes for the type: the signature
\* is not looked at, and the read gives a message of no type and no length.
ReadNothing ==
  /\ rest > 0
  /\ PassOver \/ Cut
  /\ UNCHANGED failures

\* What follows the handshake, and what follows a keep-alive message.
AfterReady == IF request = NoRequest THEN "send" ELSE "sleep"

TooMany == times + 1 > MaxTimes

\* nmxp_waitReady(): messages before READY are read and forgotten, but not
\* more than MaxTimes, the READY included.  TERMINATE and words that are no
\* header end it, but a word of zeros is passed over.
WaitReady ==
  /\ pc = "waitReady"
  /\ \/ /\ Read
        /\ times' = IF IsReady(message) THEN 0 ELSE times + 1
        /\ pc' = CASE TooMany                         -> "failed"
                   [] ~TooMany /\ IsReady(message)   -> AfterReady
                   [] ~TooMany /\ ~IsReady(message)  -> "waitReady"
     \/ /\ Read /\ ~IsReady(message) /\ message.to = Greeting
        /\ pc' = "failed"
        /\ UNCHANGED times
     \/ /\ ReadFails
        /\ pc' = "failed"
        /\ UNCHANGED times
     \/ /\ rest = 1 /\ PassOver
        /\ UNCHANGED <<pc, times, failures>>
  /\ UNCHANGED <<progress, todo, request, gone, asked>>

\* nmxp_receiveChannelList(), which returns no list and no error when the
\* message is of another type (here the second of the greeting), and
\* nmxp_chan_getType(), which reads the list whether there is one or not.
ReceiveList ==
  /\ pc = "receiveList"
  /\ \/ Read /\ pc' = IF message.n = 1 THEN "end" ELSE "crashed"
     \/ ReadFails /\ pc' = "failed"
  /\ UNCHANGED <<progress, todo, request, times, gone, asked>>

-----------------------------------------------------------------------------
(* Requests                                                                *)

DataRequests(period) ==
  [i \in 1 .. Len(Channels) |-> Request("data", Channels[i], period)]

\* The requests of nmxp_getMetaChannelList(): the last ones are those of a loop
\* over the list, see Skip.
MetaRequests ==
  <<Request("channels", NoKey, 0), Request("precis", NoKey, 0)>> \o
    [i \in 1 .. Len(Channels) |-> Request("info", Channels[i], 0)]

FirstRequests == IF mode = "data" THEN DataRequests(1) ELSE MetaRequests

InfoOfOthers(k) == k \notin WithInfo /\ list[k].listed   \* mutant: the condition inverted
InfoWanted(k) == k \in WithInfo /\ list[k].listed

\* The condition in the loop over the list.
Wanted(r) == r.kind = "info" => InfoWanted(r.key)

\* The condition of the loops of main(); nmxp_getMetaChannelList() has none.
GoesOn == ~(mode = "data" /\ sig)

\* send() of nmxp_send_ctrl() returned less than asked for.
SendMayFail == gone

\* After a send that failed main() ends the round; nmxp_getMetaChannelList()
\* does not look.
Send ==
  /\ pc = "send"
  /\ todo # <<>>
  /\ GoesOn
  /\ Wanted(Head(todo))
  /\ request' = Head(todo)
  /\ \/ /\ Answered(request')
        /\ pc' = "receive"
        /\ todo' = Tail(todo)
     \/ /\ SendMayFail /\ mode = "data"
        /\ todo' = <<>>
        /\ UNCHANGED <<pc, answers, asked>>
  /\ UNCHANGED <<progress, times, rest, gone, failures>>

\* A channel of which nothing more is asked.
Skip ==
  /\ pc = "send"
  /\ todo # <<>>
  /\ ~Wanted(Head(todo))
  /\ todo' = Tail(todo)
  /\ UNCHANGED <<progress, pc, request, times, server, failures, asked>>

Field(kind) ==
  CASE kind = "channels" -> "listed"
    [] kind = "precis"   -> "times"
    [] kind = "info"     -> "network"

\* nmxp_meta_chan_add(), nmxp_meta_chan_set_times() or _set_network() for the
\* channels the message is about.
Understood(k) ==
  IF message.to.key \notin {NoKey, k} THEN list[k]
  ELSE IF message.to.kind = "channels" THEN [list[k] EXCEPT !.listed = TRUE]
  ELSE IF list[k].listed THEN [list[k] EXCEPT ![Field(message.to.kind)] = "right"]
  ELSE list[k]

\* Bytes that are not the answer are taken for it: what they say of which
\* channels is arbitrary, and where they end before the list they are taken for
\* the program reads beyond them.
Misunderstand ==
  \/ /\ pc' = "crashed"
     /\ UNCHANGED list
  \/ /\ UNCHANGED pc
     /\ \E ks \in SUBSET {k \in Keys : list[k].listed} :
          list' = [k \in Keys |->
            IF k \in ks THEN [list[k] EXCEPT ![Field(request.kind)] = "wrong"] ELSE list[k]]

\* The type of the message is not looked at; the answer to an "info" request
\* names its channel.
Understand ==
  \/ /\ message.to.kind = request.kind
     /\ list' = [k \in Keys |-> Understood(k)]
     /\ UNCHANGED pc
  \/ /\ message.to.kind # request.kind
     /\ Misunderstand

\* nmxp_data_trim() leaves nothing of a packet of another period, and a packet
\* of another channel is not handled.
IsForRequest ==
  /\ message.to.period = request.period
  /\ message.to.key = request.key

Handle == handled' = IF IsForRequest THEN handled \cup {message} ELSE handled

EndsOnFirst == TRUE                       \* mutant: one message for each request
EndsAnswer == IsReady(message)

\* A message of no type ends no answer, and there are no samples in it.
Receive ==
  /\ pc = "receive"
  /\ \/ /\ Read
        /\ EndsAnswer \/ ~GoesOn
        /\ pc' = "send"
        /\ UNCHANGED <<list, handled>>
     \/ /\ Read
        /\ ~EndsAnswer /\ GoesOn
        /\ IF mode = "data" THEN Handle /\ UNCHANGED <<list, pc>>
                            ELSE Understand /\ UNCHANGED handled
     \/ /\ ReadNothing
        /\ UNCHANGED handled
        /\ \/ mode # "data" /\ Misunderstand
           \/ mode = "data" /\ UNCHANGED list /\ pc' = IF GoesOn THEN pc ELSE "send"
     \/ /\ ReadFails
        /\ pc' = "send"
        /\ UNCHANGED <<list, handled>>
  /\ UNCHANGED <<mode, sig, todo, request, times, gone, asked>>

\* After the last request: the next period of --delay, or the end.
NextPhase ==
  /\ pc = "send"
  /\ todo = <<>> \/ ~GoesOn
  /\ IF mode = "data" /\ GoesOn /\ request.period < Periods
     THEN todo' = DataRequests(request.period + 1) /\ pc' = "sleep"
     ELSE todo' = <<>> /\ pc' = "end"
  /\ UNCHANGED <<progress, request, times, server, failures, asked>>

-----------------------------------------------------------------------------
(* Sleeping until the next period is due                                   *)

WakeUp ==
  /\ pc = "sleep"
  /\ pc' = "send"
  /\ UNCHANGED <<progress, todo, request, times, server, failures, asked>>

NotWaited == "sleep"                      \* mutant: its answer is not read
AfterKeepAlive == "waitReady"

\* NMXP_DAP_TIMEOUT_KEEPALIVE seconds have passed: nmxp_sendRequestPending(),
\* then nmxp_waitReady().
KeepAlive ==
  /\ pc = "sleep"
  /\ ~sig
  /\ Answered(Request("pending", NoKey, 0))
  /\ pc' = AfterKeepAlive
  /\ times' = 0
  /\ UNCHANGED <<progress, todo, request, rest, gone, failures>>

\* nmxp_sendTerminateSubscription() and nmxp_closeSocket().
End ==
  /\ pc = "end"
  /\ pc' = "done"
  /\ UNCHANGED <<progress, todo, request, times, server, failures, asked>>

-----------------------------------------------------------------------------
Init ==
  /\ mode \in {"meta", "data", "list"}
  /\ pc = "open"
  /\ todo = FirstRequests
  /\ request = NoRequest
  /\ times = 0
  /\ answers = <<>>
  /\ rest = 0
  /\ gone = FALSE
  /\ sig = FALSE
  /\ failures = 0
  /\ list = [k \in Keys |-> [listed |-> FALSE, times |-> "none", network |-> "none"]]
  /\ handled = {}
  /\ asked = {}

Client ==
  \/ OpenSocket \/ Login \/ SendConnect \/ WaitReady \/ ReceiveList
  \/ Send \/ Skip \/ Receive \/ NextPhase \/ WakeUp \/ KeepAlive \/ End

Next == Leave \/ Signal \/ Client

Spec == Init /\ [][Next]_vars

\* The main thread runs; a sleep ends, however many keep-alive messages it takes.
FairSpec == Spec /\ WF_vars(Client) /\ SF_vars(WakeUp)

-----------------------------------------------------------------------------
(* Properties                                                              *)

\* Every variable keeps its type; nmxp_waitReady() reads MaxTimes messages at
\* most.
TypeOK ==
  /\ mode \in {"meta", "data", "list"}
  /\ pc \in {"open", "login", "connect", "waitReady", "receiveList", "send", "receive", "sleep",
             "end", "done", "failed", "crashed"}
  /\ pc = "waitReady" => times <= MaxTimes
  /\ list \in [Keys -> Known]
  /\ gone \in BOOLEAN /\ sig \in BOOLEAN
  /\ failures \in Nat /\ rest \in 0 .. MaxRest

\* Requests and answers stay in step until a read fails, by a time-out or by a
\* signal: whenever a request is sent nothing of an earlier answer is left, and
\* no answer is taken for the answer to another request.
InStep ==
  failures = 0 =>
    /\ pc \in {"send", "sleep"} /\ GoesOn => answers = <<>> /\ rest = 0
    /\ \A k \in Keys : "wrong" \notin {list[k].times, list[k].network}

\* The answers of which the end is not read.
Unread(q) == Cardinality({i \in 1 .. Len(q) : IsReady(q[i])})

\* Each read that fails puts the client at most one answer behind: when it sends
\* the next request no more answers are to come than reads have failed.
FewUnread == pc \in {"send", "sleep"} /\ GoesOn => Unread(answers) <= failures

\* A conversation that no failed read, no signal and no server disturbed learned
\* the times of all channels and the network of those that are asked for it,
\* or handled every packet that was asked for.
Complete ==
  pc = "done" /\ failures = 0 /\ ~gone /\ ~sig =>
    /\ mode = "meta" => \A k \in Keys :
         list[k] = [listed |-> TRUE, times |-> "right",
                    network |-> IF k \in WithInfo THEN "right" ELSE "none"]
    /\ mode = "data" => handled = asked

\* The conversation ends, whatever the server does or does not send.
Ends == <>(pc \in {"done", "failed", "crashed"})
=============================================================================
