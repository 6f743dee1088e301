-------------------------------- MODULE Framing --------------------------------
(***************************************************************************)
(* How nmxptool cuts the stream of bytes from NaqsServer into messages:    *)
(* the receiving loop of main() around nmxp_receiveData(),                 *)
(* nmxp_receiveMessage(), nmxp_receiveHeader() and nmxp_recv_ctrl().       *)
(*                                                                         *)
(* The unit is the byte: a message is a header of HeaderLength bytes       *)
(* (signature, type, length) and a body of `length` bytes; byte p of the   *)
(* k-th message is <<k, p>>.  recv() may return any part of what is asked  *)
(* for, one byte included, a read may time out anywhere, and nothing puts  *)
(* the reader back at the beginning of a message but chance: of            *)
(* HeaderLength bytes that do not begin with a signature                   *)
(* nmxp_receiveHeader() makes an error or an empty message of type 0, and  *)
(* in both cases recv_errno is 0 and main() reads on.  Nowhere but at the  *)
(* beginning of a message is there a signature (assumption).               *)
(***************************************************************************)
EXTENDS Integers, Sequences

CONSTANTS
  HeaderLength,    \* sizeof(NMXP_MESSAGE_HEADER), 12 in the code
  Kinds,           \* what can be sent: records [data: BOOLEAN, length: Nat]
  MaxMessages,     \* bound of the model: the server sends no more
  BufferLength,    \* NMXP_MAX_LENGTH_DATA_BUFFER, in bytes
  RecvTimeouts,    \* values of -T, in units of time
  HighestTimeout,  \* NMXP_HIGHEST_TIMEOUT
  Watchdog         \* timeout_pds_receiveddata

\* No data message is without a body.
ASSUME KindsAssumption ==
  Kinds \subseteq {k \in [data : BOOLEAN, length : Nat] : k.data => k.length > 0}
ASSUME HeaderAssumption == HeaderLength \in Nat \ {0}
ASSUME BufferAssumption == BufferLength \in Nat
ASSUME TimeAssumption ==
  /\ RecvTimeouts \subseteq Nat
  /\ HighestTimeout \in Nat \ {0}
  /\ Watchdog \in Nat \ {0}

VARIABLES
  timeoutrecv,  \* params.timeoutrecv
  sent,         \* history: the messages sent
  fin,          \* the server has closed its end
  stream,       \* the bytes sent and not yet read
  pc,           \* the read in progress, "header" or "body", or "closed"
  head,         \* the message whose header has been read, 0 if none
  buffer,       \* the bytes the read in progress has got
  wait,         \* the time spent in the recv() in progress
  quiet,        \* the time since lasttime_pds_receiveddata
  handed,       \* history: the bodies that became packets
  faulted       \* history: a message was left before its end

reading == <<pc, head, buffer, wait, quiet>>
vars == <<timeoutrecv, sent, fin, stream, reading, handed, faulted>>

Byte(k, p) == <<k, p>>
Bytes(k, length) == [p \in 1 .. (HeaderLength + length) |-> Byte(k, p)]
Body(k) == [p \in 1 .. sent[k].length |-> Byte(k, HeaderLength + p)]

-----------------------------------------------------------------------------
(* The server and the network                                              *)

Send == \E kind \in Kinds :
  /\ ~fin
  /\ Len(sent) < MaxMessages
  /\ sent' = Append(sent, kind)
  /\ stream' = stream \o Bytes(Len(sent'), kind.length)
  /\ UNCHANGED <<timeoutrecv, fin, reading, handed, faulted>>

Close ==
  /\ ~fin
  /\ fin' = TRUE
  /\ UNCHANGED <<timeoutrecv, sent, stream, reading, handed, faulted>>

-----------------------------------------------------------------------------
(* nmxp_recv_ctrl()                                                        *)

LimitNoHighest ==                    \* mutant: 0 is not the highest time-out
  IF pc = "header" /\ timeoutrecv > 0 THEN timeoutrecv ELSE 100

\* SO_RCVTIMEO: that of the caller for the header, the highest for the body.
Limit ==
  IF pc = "header" /\ timeoutrecv > 0 THEN timeoutrecv ELSE HighestTimeout

Needed == IF pc = "header" THEN HeaderLength ELSE sent[head].length

\* The bytes the next recv() may add.
Got == {buffer \o SubSeq(stream, 1, n) :
         n \in {m \in 1 .. Len(stream) : Len(buffer) + m <= Needed}}

CompleteAtOnce(bytes) == Len(bytes) > 0           \* mutant: one recv() only
Complete(bytes) == Len(bytes) = Needed

Tick ==
  /\ pc # "closed"
  /\ wait < Limit
  /\ wait' = wait + 1
  /\ quiet' = quiet + 1
  /\ UNCHANGED <<timeoutrecv, sent, fin, stream, pc, head, buffer, handed, faulted>>

\* recv() returned, and bytes is what has been read.
Receives(bytes) ==
  /\ stream' = SubSeq(stream, Len(bytes) - Len(buffer) + 1, Len(stream))
  /\ wait' = 0
  /\ UNCHANGED <<timeoutrecv, sent, fin>>

RecvPart ==
  /\ pc # "closed"
  /\ \E bytes \in Got :
       /\ ~Complete(bytes)
       /\ Receives(bytes)
       /\ buffer' = bytes
  /\ UNCHANGED <<pc, head, quiet, handed, faulted>>

-----------------------------------------------------------------------------
(* nmxp_receiveMessage() returns to the loop of main().                    *)

SinceMessage(pd) == 0                             \* mutant: any return is data
SinceData(pd) == IF pd THEN 0 ELSE quiet

\* pd: there is a packet.  goesOn: recv_errno is 0 or EWOULDBLOCK.
Return(pd, goesOn) ==
  /\ quiet' = SinceData(pd)
  /\ pc' = IF goesOn /\ quiet' < Watchdog THEN "header" ELSE "closed"
  /\ head' = 0
  /\ buffer' = <<>>

IsHeaderUnchecked(bytes) == TRUE                  \* mutant: signature not read
\* The bytes begin with a signature.
IsHeader(bytes) == bytes[1][2] = 1

TooLong(k) == sent[k].length > BufferLength

RecvHeader ==
  /\ pc = "header"
  /\ \E bytes \in Got :
       /\ Complete(bytes)
       /\ Receives(bytes)
       /\ LET k == bytes[1][1]
              hasBody == IsHeader(bytes) /\ ~TooLong(k) /\ sent[k].length > 0
          IN \/ /\ hasBody
                /\ pc' = "body"
                /\ head' = k
                /\ buffer' = <<>>
                /\ UNCHANGED <<quiet, faulted>>
             \/ /\ ~hasBody
                /\ Return(FALSE, TRUE)
                /\ faulted' = (faulted \/ TooLong(k))
  /\ UNCHANGED handed

RecvBody ==
  /\ pc = "body"
  /\ \E bytes \in Got :
       /\ Complete(bytes)
       /\ Receives(bytes)
       /\ handed' = IF sent[head].data THEN Append(handed, bytes) ELSE handed
  /\ Return(sent[head].data, TRUE)
  /\ UNCHANGED faulted

\* EWOULDBLOCK: what has been read is forgotten, and the loop goes on.
TimedOut ==
  /\ pc # "closed"
  /\ wait = Limit
  /\ wait' = 0
  /\ faulted' = (faulted \/ pc = "body" \/ buffer # <<>>)
  /\ Return(FALSE, TRUE)
  /\ UNCHANGED <<timeoutrecv, sent, fin, stream, handed>>

\* The end of the stream (recv_errno = -100), or EINTR by a signal.
Fails ==
  /\ pc # "closed"
  /\ wait' = 0
  /\ Return(FALSE, FALSE)
  /\ UNCHANGED <<timeoutrecv, sent, fin, stream, handed, faulted>>

EndOfStream == fin /\ stream = <<>> /\ Fails
Interrupted == Fails

-----------------------------------------------------------------------------
Init ==
  /\ timeoutrecv \in RecvTimeouts
  /\ sent = <<>>
  /\ fin = FALSE
  /\ stream = <<>>
  /\ pc = "header"
  /\ head = 0
  /\ buffer = <<>>
  /\ wait = 0
  /\ quiet = 0
  /\ handed = <<>>
  /\ faulted = FALSE

Reader == RecvPart \/ RecvHeader \/ RecvBody \/ TimedOut \/ EndOfStream

Next == Send \/ Close \/ Tick \/ Reader \/ Interrupted

Spec == Init /\ [][Next]_vars

\* Time passes and the main thread runs; nothing is asked of the server, of
\* the network or of who sends signals.
FairSpec == Spec /\ WF_vars(Tick) /\ WF_vars(Reader)

-----------------------------------------------------------------------------
(* Properties                                                              *)

\* Every variable keeps its type, and a body is read only into a buffer
\* that holds it.
TypeOK ==
  /\ timeoutrecv \in RecvTimeouts
  /\ sent \in Seq(Kinds)
  /\ fin \in BOOLEAN
  /\ pc \in {"header", "body", "closed"}
  /\ head \in 0 .. Len(sent)
  /\ head # 0 <=> pc = "body"
  /\ pc = "body" => sent[head].length \in 1 .. BufferLength
  /\ buffer # <<>> => Len(buffer) < Needed
  /\ wait \in 0 .. Limit
  /\ quiet \in Nat
  /\ faulted \in BOOLEAN

\* Data messages all of whose bytes have been read.
IsRead(k) ==
  /\ sent[k].data
  /\ \A i \in DOMAIN stream : stream[i][1] # k
  /\ head # k

Bodies == {handed[i] : i \in DOMAIN handed}

\* Until a message is left before its end (by a time-out inside it, or because
\* it is longer than the buffer) the reader is at the beginning of a message
\* whenever it starts to read one, and every data message that has been read
\* became a packet: however the stream is split among the recv().
NothingLostUntilFault ==
  ~faulted =>
    /\ pc = "header" /\ buffer = <<>> /\ stream # <<>> => stream[1][2] = 1
    /\ pc # "closed" =>
         \A k \in DOMAIN sent : IsRead(k) /\ buffer = <<>> => Body(k) \in Bodies

\* The data messages that were sent after the last one handed on.
LastHanded == IF handed = <<>> THEN 0 ELSE handed[Len(handed)][1][1]
Outstanding ==
  {[nr |-> k, message |-> Body(k)] :
     k \in {j \in DOMAIN sent : sent[j].data /\ j > LastHanded}}

Fifo == INSTANCE LossyFifo WITH
  outstanding <- Outstanding, delivered <- handed

\* Whatever is lost, the packets handed on are messages as they were sent, none
\* made of the bytes of two, and they keep their order: bytes read out of step
\* are never taken for a packet.
ImplementsLossyFifo == Fifo!Spec

\* main() looks at the watchdog only between two messages, and every recv() of
\* a message may bring one byte at the end of its time-out: the connection is
\* kept without data for less than the watchdog and a time-out for each byte of
\* the header and of the body that are being read.
SilenceBounded ==
  pc # "closed" =>
    quiet < Watchdog + HeaderLength * (IF timeoutrecv > 0 THEN timeoutrecv ELSE HighestTimeout)
                     + (IF pc = "body" THEN sent[head].length * HighestTimeout ELSE 0)

\* A server that does not send any more, whether it closes its end or not, and
\* wherever in a message it stops, ends the connection.
SilenceEndsConnection == <>(pc = "closed")
=============================================================================
