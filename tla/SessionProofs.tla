----------------------------- MODULE SessionProofs -----------------------------
(***************************************************************************)
(* What Session guarantees for every list of channels, every number of     *)
(* packets, periods and messages read before READY, whichever reads fail.  *)
(***************************************************************************)
EXTENDS Session, SequenceTheorems, FiniteSetTheorems, TLAPS

Kinds == {"none", "greeting", "pending", "data", "channels", "precis", "info"}
Requests == [kind : Kinds, key : Keys \cup {NoKey}, period : Nat]
Messages == [to : Requests, n : Nat]

Types ==
  /\ TypeOK
  /\ times \in Nat /\ (pc \in {"open", "login"} => times = 0)
  /\ todo \in Seq(Requests)
  /\ request \in Requests
  /\ answers \in Seq(Messages)

\* The requests of nmxp_getMetaChannelList() that are sent or skipped.
sent == Len(MetaRequests) - Len(todo)

\* What is still to be sent are the last requests, and the answer that is read is
\* that to the one before them.
RequestsOK ==
  /\ pc \in {"connect", "receiveList"} => mode = "list"
  /\ pc = "receive" /\ request.kind = "info" => request.key \in WithInfo
  /\ mode = "data" =>
       /\ \A i \in 1 .. Len(todo) : todo[i].kind = "data"
       /\ request.kind \in {"none", "data"}
       /\ pc = "receive" => request.kind = "data"
  /\ mode # "data" =>
       /\ sent \in 0 .. Len(MetaRequests)
       /\ \A i \in 1 .. Len(todo) : todo[i] = MetaRequests[sent + i]
       /\ sent = 0 => request = NoRequest
       /\ pc = "receive" => sent >= 1 /\ request = MetaRequests[sent]

\* READY, and only READY, is at the end of an answer.
Closed(q) == \A i \in 1 .. Len(q) : q[i].n = 0 <=> i = Len(q)

\* No answer can be late: no read has failed and the answers are read to their
\* end, or there is none before that to the first request.
NoneLate ==
  \/ failures = 0 /\ GoesOn
  \/ request = NoRequest
  \/ pc = "receive" /\ request.kind = "channels"

\* Then nothing is left of an answer when it is not being read.
AnswersOK ==
  NoneLate =>
    /\ pc \in {"open", "login", "connect", "send", "sleep"} => answers = <<>> /\ rest = 0
    /\ pc = "waitReady" => Closed(answers) /\ rest = 0
    /\ pc = "receive" => Closed(answers) /\ rest = 0 /\ \A i \in 1 .. Len(answers) : answers[i].to = request

Calm == failures = 0 /\ ~gone /\ ~sig

NothingWrong ==
  failures = 0 => \A k \in Keys : list[k].times # "wrong" /\ list[k].network # "wrong"

\* The data packets that have come and are not read.
Coming == {m \in {answers[i] : i \in 1 .. Len(answers)} : m.n # 0}

PacketsOK ==
  mode = "data" /\ Calm => asked = handled \cup (IF pc = "receive" THEN Coming ELSE {})

\* The requests of nmxp_getMetaChannelList() whose answer has been understood.
understood == IF pc = "receive" /\ Len(answers) = 2 THEN sent - 1 ELSE sent

InfoUnderstood(k) == \E j \in 1 .. Len(Channels) : Channels[j] = k /\ j + 2 <= understood

ListOK ==
  mode = "meta" /\ Calm =>
    /\ pc = "receive" => Len(answers) \in {1, 2}
    /\ pc \in {"end", "done"} => todo = <<>>
    /\ \A k \in Keys :
         /\ list[k].listed = (understood >= 1)
         /\ list[k].times = IF understood >= 2 THEN "right" ELSE "none"
         /\ list[k].network = IF k \in WithInfo /\ InfoUnderstood(k) THEN "right" ELSE "none"

\* One answer more is unread while one is waited for.
UnreadOK ==
  GoesOn =>
    /\ pc \in {"send", "sleep"} => Unread(answers) <= failures
    /\ pc \in {"waitReady", "receive"} => Unread(answers) <= failures + 1

\* The inductive invariant.
IInv == Types /\ RequestsOK /\ AnswersOK /\ NothingWrong /\ PacketsOK /\ ListOK /\ UnreadOK

-----------------------------------------------------------------------------
\* What is assumed of the channels and the numbers.
LEMMA Given ==
  /\ Channels \in Seq(Keys) /\ Len(Channels) \in Nat /\ NoKey \notin Keys
  /\ MaxPackets \in Nat /\ Periods \in Nat /\ MaxTimes \in Nat /\ MaxRest \in Nat
  /\ WithInfo \subseteq Keys
<1>1. Channels \in Seq(Keys) /\ NoKey \notin Keys /\ WithInfo \subseteq Keys
  BY ChannelsAssumption DEF ChannelsAssumption
<1>2. MaxPackets \in Nat /\ Periods \in Nat /\ MaxTimes \in Nat /\ MaxRest \in Nat
  BY NumbersAssumption DEF NumbersAssumption
<1> QED
  BY <1>1, <1>2, LenProperties

\* Every key is that of a channel of the list.
LEMMA KeyIndex ==
  /\ \A j \in 1 .. Len(Channels) : Channels[j] \in Keys
  /\ \A k \in Keys : \E j \in 1 .. Len(Channels) : Channels[j] = k
<1>1. DOMAIN Channels = 1 .. Len(Channels)
  BY Given, LenProperties
<1> QED
  BY <1>1 DEF Keys

\* The requests of nmxp_getMetaChannelList().
LEMMA MetaFacts ==
  /\ MetaRequests \in Seq(Requests) /\ Len(MetaRequests) = Len(Channels) + 2
  /\ MetaRequests[1] = Request("channels", NoKey, 0)
  /\ MetaRequests[2] = Request("precis", NoKey, 0)
  /\ \A i \in 3 .. (Len(Channels) + 2) : MetaRequests[i] = Request("info", Channels[i - 2], 0)
<1> DEFINE a == <<Request("channels", NoKey, 0), Request("precis", NoKey, 0)>>
           b == [i \in 1 .. Len(Channels) |-> Request("info", Channels[i], 0)]
<1>1. a \in Seq(Requests) /\ Len(a) = 2 /\ a[1] = Request("channels", NoKey, 0) /\ a[2] = Request("precis", NoKey, 0)
  <2>1. Request("channels", NoKey, 0) \in Requests /\ Request("precis", NoKey, 0) \in Requests
    BY DEF Request, Requests, Kinds
  <2> QED
    BY <2>1
<1>2. b \in Seq(Requests) /\ Len(b) = Len(Channels) /\ \A i \in 1 .. Len(Channels) : b[i] = Request("info", Channels[i], 0)
  <2>1. \A i \in 1 .. Len(Channels) : Request("info", Channels[i], 0) \in Requests
    BY KeyIndex DEF Request, Requests, Kinds
  <2>2. Len(Channels) \in Nat
    BY Given
  <2> QED
    BY <2>1, <2>2
<1>3. MetaRequests = a \o b
  BY DEF MetaRequests
<1> HIDE DEF a, b
<1>4. /\ a \o b \in Seq(Requests) /\ Len(a \o b) = Len(a) + Len(b)
      /\ \A i \in 1 .. (Len(a) + Len(b)) : (a \o b)[i] = IF i <= Len(a) THEN a[i] ELSE b[i - Len(a)]
  <2>1. a \in Seq(Requests) /\ b \in Seq(Requests)
    BY <1>1, <1>2
  <2> QED
    BY ONLY <2>1, ConcatProperties
<1>5. Len(Channels) \in Nat
  BY Given
<1>6. Len(MetaRequests) = Len(Channels) + 2 /\ MetaRequests \in Seq(Requests)
  BY <1>1, <1>2, <1>3, <1>4, <1>5
<1>7. /\ 1 \in 1 .. (2 + Len(Channels)) /\ 2 \in 1 .. (2 + Len(Channels))
      /\ \A i \in 3 .. (Len(Channels) + 2) : i \in 1 .. (2 + Len(Channels)) /\ ~(i <= 2) /\ i - 2 \in 1 .. Len(Channels)
  BY <1>5
<1>8. MetaRequests[1] = a[1] /\ MetaRequests[2] = a[2]
  BY <1>1, <1>2, <1>3, <1>4, <1>7
<1>9. \A i \in 3 .. (Len(Channels) + 2) : MetaRequests[i] = b[i - 2]
  BY <1>1, <1>2, <1>3, <1>4, <1>7
<1> QED
  BY <1>1, <1>2, <1>6, <1>7, <1>8, <1>9

\* None of them is of another kind.
LEMMA MetaKinds ==
  ASSUME NEW i \in 1 .. Len(MetaRequests)
  PROVE  /\ MetaRequests[i].kind \in {"channels", "precis", "info"}
         /\ MetaRequests[i].kind = "channels" <=> i = 1
         /\ MetaRequests[i].kind = "info" <=> i >= 3
         /\ MetaRequests[i] # NoRequest
<1>1. i = 1 \/ i = 2 \/ i \in 3 .. (Len(Channels) + 2)
  BY MetaFacts, Given
<1>2. CASE i = 1
  BY <1>2, MetaFacts DEF Request, NoRequest
<1>3. CASE i = 2
  BY <1>3, MetaFacts DEF Request, NoRequest
<1>4. CASE i \in 3 .. (Len(Channels) + 2)
  <2>1. MetaRequests[i] = Request("info", Channels[i - 2], 0) /\ i >= 3 /\ i # 1
    BY <1>4, MetaFacts
  <2> QED
    BY <2>1 DEF Request, NoRequest
<1> QED
  BY <1>1, <1>2, <1>3, <1>4

\* An answer is its messages and then READY.
LEMMA AnswerFacts ==
  ASSUME NEW r \in Requests, NEW n \in Nat
  PROVE  /\ Answer(r, n) \in Seq(Messages) /\ Len(Answer(r, n)) = n + 1
         /\ \A i \in 1 .. n : Answer(r, n)[i] = Message(r, i)
         /\ Answer(r, n)[n + 1] = Message(r, 0)
         /\ Closed(Answer(r, n)) /\ \A i \in 1 .. (n + 1) : Answer(r, n)[i].to = r
<1> DEFINE a == [i \in 1 .. n |-> Message(r, i)]
           b == <<Message(r, 0)>>
<1>1. a \in Seq(Messages) /\ Len(a) = n /\ \A i \in 1 .. n : a[i] = Message(r, i)
  <2>1. \A i \in 1 .. n : Message(r, i) \in Messages
    BY DEF Message, Messages
  <2> QED
    BY <2>1
<1>2. b \in Seq(Messages) /\ Len(b) = 1 /\ b[1] = Message(r, 0)
  <2>1. Message(r, 0) \in Messages
    BY DEF Message, Messages
  <2> QED
    BY <2>1
<1>3. Answer(r, n) = a \o b
  BY DEF Answer, Ready
<1> HIDE DEF a, b
<1>4. /\ a \o b \in Seq(Messages) /\ Len(a \o b) = Len(a) + Len(b)
      /\ \A i \in 1 .. (Len(a) + Len(b)) : (a \o b)[i] = IF i <= Len(a) THEN a[i] ELSE b[i - Len(a)]
  BY ONLY <1>1, <1>2, ConcatProperties
<1> DEFINE q == Answer(r, n)
<1>5. q \in Seq(Messages) /\ Len(q) = n + 1
  BY <1>1, <1>2, <1>3, <1>4
<1>6. \A i \in 1 .. n : q[i] = Message(r, i)
  BY <1>1, <1>2, <1>3, <1>4
<1>7. q[n + 1] = Message(r, 0)
  BY <1>1, <1>2, <1>3, <1>4
<1> HIDE DEF q
<1>8. \A i \in 1 .. (n + 1) : i \in 1 .. n \/ i = n + 1
  OBVIOUS
<1>9. \A i \in 1 .. (n + 1) : q[i].to = r /\ (q[i].n = 0 <=> i = n + 1)
  <2> SUFFICES ASSUME NEW i \in 1 .. (n + 1)
               PROVE  q[i].to = r /\ (q[i].n = 0 <=> i = n + 1)
    OBVIOUS
  <2>1. CASE i \in 1 .. n
    <3>1. i # 0 /\ i # n + 1
      BY <2>1
    <3>2. q[i] = Message(r, i)
      BY <1>6, <2>1
    <3>3. Message(r, i).to = r /\ Message(r, i).n = i
      BY DEF Message
    <3> QED
      BY <3>1, <3>2, <3>3
  <2>2. CASE i = n + 1
    BY <1>7, <2>2 DEF Message
  <2> QED
    BY <1>8, <2>1, <2>2
<1>10. Closed(q)
  BY <1>5, <1>9 DEF Closed
<1> QED
  BY <1>5, <1>6, <1>7, <1>9, <1>10 DEF q

\* Reading the first message of an answer.
LEMMA ReadFacts ==
  ASSUME NEW q \in Seq(Messages), q # <<>>
  PROVE  /\ Tail(q) \in Seq(Messages) /\ Head(q) = q[1] /\ q[1] \in Messages
         /\ Len(q) \in Nat /\ Len(q) >= 1 /\ Len(Tail(q)) = Len(q) - 1
         /\ \A i \in 1 .. Len(Tail(q)) : Tail(q)[i] = q[i + 1]
         /\ Closed(q) => Closed(Tail(q)) /\ (q[1].n = 0 <=> Tail(q) = <<>>)
<1>1. /\ Tail(q) \in Seq(Messages) /\ Head(q) = q[1] /\ q[1] \in Messages
      /\ Len(q) \in Nat /\ Len(q) >= 1 /\ Len(Tail(q)) = Len(q) - 1
      /\ \A i \in 1 .. Len(Tail(q)) : Tail(q)[i] = q[i + 1]
  BY HeadTailProperties
<1>2. Tail(q) = <<>> <=> Len(q) = 1
  BY <1>1
<1>3. 1 \in 1 .. Len(q) /\ \A i \in 1 .. Len(Tail(q)) : i + 1 \in 1 .. Len(q) /\ (i = Len(Tail(q)) <=> i + 1 = Len(q))
  BY <1>1
<1> QED
  BY <1>1, <1>2, <1>3 DEF Closed

\* The places of the READYs.
ReadyAt(q) == {i \in 1 .. Len(q) : IsReady(q[i])}

LEMMA UnreadType ==
  ASSUME NEW q \in Seq(Messages)
  PROVE  IsFiniteSet(ReadyAt(q)) /\ Unread(q) \in Nat /\ Unread(q) = Cardinality(ReadyAt(q))
<1>1. IsFiniteSet(1 .. Len(q)) /\ ReadyAt(q) \subseteq 1 .. Len(q)
  <2>1. Len(q) \in Nat /\ 1 \in Int
    BY LenProperties
  <2> QED
    BY <2>1, FS_Interval DEF ReadyAt
<1>2. IsFiniteSet(ReadyAt(q))
  BY <1>1, FS_Subset
<1>3. Unread(q) = Cardinality(ReadyAt(q))
  BY DEF Unread, ReadyAt
<1> QED
  BY <1>2, <1>3, FS_CardinalityType

\* Reading a message takes away its READY and no other.
LEMMA UnreadTail ==
  ASSUME NEW q \in Seq(Messages), q # <<>>
  PROVE  Unread(Tail(q)) = Unread(q) - (IF q[1].n = 0 THEN 1 ELSE 0)
<1> DEFINE t == Tail(q)
           S == ReadyAt(q) \ {1}
<1>1. /\ t \in Seq(Messages) /\ Len(q) \in Nat /\ Len(q) >= 1 /\ Len(t) = Len(q) - 1
      /\ \A i \in 1 .. Len(t) : t[i] = q[i + 1]
  BY HeadTailProperties
<1> HIDE DEF t
<1>2. /\ \A i \in 1 .. Len(t) : i + 1 \in 1 .. Len(q) /\ i + 1 # 1
      /\ \A i \in 1 .. Len(q) : i # 1 => i - 1 \in 1 .. Len(t) /\ (i - 1) + 1 = i
      /\ 1 \in 1 .. Len(q)
  BY <1>1
<1>3. ExistsBijection(ReadyAt(t), S)
  <2> DEFINE f == [i \in ReadyAt(t) |-> i + 1]
  <2>1. f \in [ReadyAt(t) -> S]
    BY <1>1, <1>2 DEF ReadyAt
  <2>2. \A i, j \in ReadyAt(t) : f[i] = f[j] => i = j
    BY <1>1 DEF ReadyAt
  <2>3. \A i \in S : \E j \in ReadyAt(t) : f[j] = i
    <3> SUFFICES ASSUME NEW i \in S PROVE i - 1 \in ReadyAt(t) /\ (i - 1) + 1 = i
      OBVIOUS
    <3>1. i \in 1 .. Len(q) /\ IsReady(q[i]) /\ i # 1
      BY DEF ReadyAt
    <3>2. i - 1 \in 1 .. Len(t) /\ (i - 1) + 1 = i
      BY <1>2, <3>1
    <3>3. t[i - 1] = q[i]
      BY <1>1, <3>2
    <3> QED
      BY <3>1, <3>2, <3>3 DEF ReadyAt
  <2> HIDE DEF f, S
  <2>4. f \in Bijection(ReadyAt(t), S)
    BY <2>1, <2>2, <2>3 DEF Bijection, Injection, IsInjective, Surjection
  <2> QED
    BY <2>4 DEF ExistsBijection
<1>4. IsFiniteSet(ReadyAt(q)) /\ IsFiniteSet(ReadyAt(t)) /\ Unread(q) = Cardinality(ReadyAt(q)) /\ Unread(t) = Cardinality(ReadyAt(t))
  BY <1>1, UnreadType
<1>5. Cardinality(S) = Cardinality(ReadyAt(t))
  BY <1>3, <1>4, FS_Bijection
<1>6. Cardinality(S) = IF 1 \in ReadyAt(q) THEN Cardinality(ReadyAt(q)) - 1 ELSE Cardinality(ReadyAt(q))
  BY <1>4, FS_RemoveElement
<1>7. 1 \in ReadyAt(q) <=> q[1].n = 0
  BY <1>2 DEF ReadyAt, IsReady
<1>8. Cardinality(ReadyAt(q)) \in Nat
  BY <1>4, FS_CardinalityType
<1> QED
  BY <1>4, <1>5, <1>6, <1>7, <1>8 DEF t

\* An answer adds one READY.
LEMMA UnreadAnswer ==
  ASSUME NEW q \in Seq(Messages), NEW r \in Requests, NEW n \in Nat
  PROVE  Unread(q \o Answer(r, n)) = Unread(q) + 1
<1> DEFINE a == Answer(r, n)
           t == q \o a
           last == Len(q) + (n + 1)
<1>1. /\ a \in Seq(Messages) /\ Len(a) = n + 1
      /\ \A i \in 1 .. n : a[i] = Message(r, i)
      /\ a[n + 1] = Message(r, 0)
  BY AnswerFacts
<1>2. /\ t \in Seq(Messages) /\ Len(t) = Len(q) + Len(a) /\ Len(q) \in Nat
      /\ \A i \in 1 .. (Len(q) + Len(a)) : t[i] = IF i <= Len(q) THEN q[i] ELSE a[i - Len(q)]
  <2> HIDE DEF a
  <2> QED
    BY <1>1, ConcatProperties, LenProperties
<1> HIDE DEF a, t
<1>3. \A i \in 1 .. Len(t) :
        /\ i <= Len(q) => i \in 1 .. Len(q) /\ i # last
        /\ ~(i <= Len(q)) => i - Len(q) \in 1 .. (n + 1) /\ (i - Len(q) = n + 1 <=> i = last)
  BY <1>1, <1>2
<1>4. \A i \in 1 .. Len(q) : i \in 1 .. Len(t) /\ i <= Len(q) /\ i # last
  BY <1>1, <1>2
<1>5. last \in 1 .. Len(t) /\ ~(last <= Len(q)) /\ last - Len(q) = n + 1
  BY <1>1, <1>2
<1>6. \A j \in 1 .. (n + 1) : IsReady(a[j]) <=> j = n + 1
  <2>0. \A j : Message(r, j).n = j
    BY DEF Message
  <2>1. \A j \in 1 .. n : a[j].n = j /\ j # 0 /\ j # n + 1
    BY <1>1, <2>0
  <2>2. a[n + 1].n = 0
    BY <1>1, <2>0
  <2>3. \A j \in 1 .. (n + 1) : j \in 1 .. n \/ j = n + 1
    OBVIOUS
  <2> QED
    BY <2>1, <2>2, <2>3 DEF IsReady
<1>7. ReadyAt(t) = ReadyAt(q) \cup {last} /\ last \notin ReadyAt(q)
  <2>1. \A i \in 1 .. Len(t) : IsReady(t[i]) <=> (IF i <= Len(q) THEN IsReady(q[i]) ELSE i = last)
    BY <1>1, <1>2, <1>3, <1>6
  <2> HIDE DEF last
  <2> QED
    BY <1>3, <1>4, <1>5, <2>1 DEF ReadyAt
<1>8. IsFiniteSet(ReadyAt(q)) /\ Unread(q) = Cardinality(ReadyAt(q)) /\ Unread(t) = Cardinality(ReadyAt(t))
  BY <1>2, UnreadType
<1>9. Cardinality(ReadyAt(q) \cup {last}) = Cardinality(ReadyAt(q)) + 1
  BY <1>7, <1>8, FS_AddElement
<1> QED
  BY <1>7, <1>8, <1>9 DEF t, a

LEMMA UnreadNone == Unread(<<>>) = 0
<1>1. ReadyAt(<<>>) = {}
  <2>1. Len(<<>>) = 0
    BY EmptySeq
  <2>2. 1 .. 0 = {}
    OBVIOUS
  <2> QED
    BY <2>1, <2>2 DEF ReadyAt
<1> QED
  BY <1>1, UnreadType, EmptySeq, FS_EmptySet

\* No read adds one.
LEMMA UnreadRead ==
  ASSUME Types, Read \/ ReadFails \/ ReadNothing \/ PassOver
  PROVE  /\ Unread(answers) \in Nat /\ Unread(answers') \in Nat
         /\ Unread(answers') <= Unread(answers)
         /\ Read => Unread(answers') = Unread(answers) - (IF IsReady(message) THEN 1 ELSE 0)
<1>1. answers \in Seq(Messages)
  BY DEF Types
<1>2. Unread(answers) \in Nat
  BY <1>1, UnreadType
<1>3. CASE answers # <<>> /\ answers' = Tail(answers)
  <2>1. Unread(Tail(answers)) = Unread(answers) - (IF IsReady(message) THEN 1 ELSE 0)
    BY <1>1, <1>3, UnreadTail, ReadFacts DEF IsReady, message
  <2>2. Unread(Tail(answers)) \in Nat
    BY <1>1, <1>3, ReadFacts, UnreadType
  <2> QED
    BY <1>2, <1>3, <2>1, <2>2
<1>4. CASE answers' = answers /\ ~Read
  BY <1>2, <1>4
<1>5. \/ answers # <<>> /\ answers' = Tail(answers)
      \/ answers' = answers /\ ~Read
  <2>1. CASE Read
    BY <2>1 DEF Read
  <2>2. CASE ~Read
    BY <2>2 DEF ReadFails, ReadNothing, Misses, PassOver, Cut
  <2> QED
    BY <2>1, <2>2
<1> QED
  BY <1>3, <1>4, <1>5

-----------------------------------------------------------------------------
\* An answer is read to a request that has been sent.
LEMMA Requested ==
  ASSUME Types, RequestsOK, pc = "receive"
  PROVE  /\ request # NoRequest
         /\ mode # "data" => /\ sent \in 1 .. Len(MetaRequests) /\ request = MetaRequests[sent]
                             /\ request.kind \in {"channels", "precis", "info"}
<1>1. CASE mode = "data"
  BY <1>1 DEF RequestsOK, NoRequest, Request
<1>2. CASE mode # "data"
  <2>1. sent \in 1 .. Len(MetaRequests) /\ request = MetaRequests[sent]
    BY <1>2, MetaFacts DEF RequestsOK
  <2> QED
    BY <1>2, <2>1, MetaKinds
<1> QED
  BY <1>1, <1>2

\* A step that neither sends nor receives leaves what was asked and learned.
LEMMA Elsewhere ==
  ASSUME IInv, UNCHANGED <<mode, todo, request, list, handled, asked>>,
         pc # "receive", pc' # "receive",
         failures' = 0 => failures = 0, gone => gone', sig => sig',
         sig \in BOOLEAN, sig' \in BOOLEAN, gone \in BOOLEAN, gone' \in BOOLEAN,
         pc' \in {"connect", "receiveList"} => mode = "list",
         mode = "meta" /\ Calm /\ pc' \in {"end", "done"} => todo = <<>>
  PROVE  /\ RequestsOK' /\ NothingWrong' /\ PacketsOK' /\ ListOK'
         /\ NoneLate' => NoneLate
<1>1. Types /\ RequestsOK /\ NothingWrong /\ PacketsOK /\ ListOK
  BY DEF IInv
<1>2. sent' = sent
  BY DEF sent
<1>3. Calm' => Calm
  BY DEF Calm
<1>4. RequestsOK'
  BY <1>1, <1>2 DEF RequestsOK
<1>5. NothingWrong'
  BY <1>1 DEF NothingWrong
<1>6. PacketsOK'
  BY <1>1, <1>3 DEF PacketsOK
<1>7. understood' = understood
  BY <1>2 DEF understood
<1>8. ListOK'
  BY <1>1, <1>3, <1>7 DEF ListOK, InfoUnderstood
<1>9. NoneLate' => NoneLate
  BY DEF NoneLate, GoesOn
<1> QED
  BY <1>4, <1>5, <1>6, <1>8, <1>9

LEMMA OpenSocketKeeps == ASSUME IInv, OpenSocket PROVE IInv'
<1>1. Types /\ AnswersOK
  BY DEF IInv
<1>2. /\ pc = "open" /\ pc' \in {"connect", "login", "failed"} /\ (pc' = "connect" => mode = "list")
      /\ UNCHANGED <<mode, sig, list, handled, todo, request, times, answers, rest, gone, failures, asked>>
  BY DEF OpenSocket, progress, server
<1>3. Types'
  BY <1>1, <1>2 DEF Types, TypeOK
<1>4. RequestsOK' /\ NothingWrong' /\ PacketsOK' /\ ListOK' /\ (NoneLate' => NoneLate)
  BY <1>1, <1>2, Elsewhere DEF Types, TypeOK
<1>5. AnswersOK'
  BY <1>1, <1>2, <1>4 DEF AnswersOK
<1>6. UnreadOK'
  BY <1>2 DEF UnreadOK
<1> QED
  BY <1>3, <1>4, <1>5, <1>6 DEF IInv

LEMMA LoginKeeps == ASSUME IInv, Login PROVE IInv'
<1>1. Types /\ AnswersOK
  BY DEF IInv
<1>2. /\ pc = "login" /\ pc' \in {"waitReady", "failed"}
      /\ UNCHANGED <<mode, sig, list, handled, todo, request, times, rest, gone, failures, asked>>
  BY DEF Login, progress
<1>3. /\ answers' \in Seq(Messages)
      /\ pc' = "waitReady" => Closed(answers') /\ Unread(answers') = 1
  <2>1. CASE pc' = "waitReady"
    <3>1. PICK n \in 0 .. (MaxTimes + 1) : answers' = Answer(Greeting, n)
      BY <2>1 DEF Login, Greetings
    <3>2. n \in Nat /\ Greeting \in Requests
      BY DEF Greeting, Request, Requests, Kinds
    <3>3. Unread(<<>> \o Answer(Greeting, n)) = 1 /\ <<>> \o Answer(Greeting, n) = Answer(Greeting, n)
      <4>1. Answer(Greeting, n) \in Seq(Messages) /\ <<>> \in Seq(Messages)
        BY <3>2, AnswerFacts, EmptySeq
      <4>2. Unread(<<>> \o Answer(Greeting, n)) = Unread(<<>>) + 1
        BY <3>2, <4>1, UnreadAnswer
      <4>3. <<>> \o Answer(Greeting, n) = Answer(Greeting, n)
        BY <4>1, ConcatEmptySeq
      <4> QED
        BY <4>2, <4>3, UnreadNone
    <3> QED
      BY <3>1, <3>2, <3>3, AnswerFacts
  <2>2. CASE pc' # "waitReady"
    BY <1>1, <2>2 DEF Login, Types
  <2> QED
    BY <2>1, <2>2
<1>4. Types'
  BY <1>1, <1>2, <1>3, Given DEF Types, TypeOK
<1>5. RequestsOK' /\ NothingWrong' /\ PacketsOK' /\ ListOK' /\ (NoneLate' => NoneLate)
  BY <1>1, <1>2, Elsewhere DEF Types, TypeOK
<1>6. AnswersOK'
  BY <1>1, <1>2, <1>3, <1>5 DEF AnswersOK
<1>7. UnreadOK'
  BY <1>1, <1>2, <1>3 DEF UnreadOK, Types, TypeOK
<1> QED
  BY <1>4, <1>5, <1>6, <1>7 DEF IInv

LEMMA SendConnectKeeps == ASSUME IInv, SendConnect PROVE IInv'
<1>1. Types /\ AnswersOK /\ RequestsOK
  BY DEF IInv
<1>2. /\ pc = "connect" /\ pc' \in {"receiveList", "failed"}
      /\ UNCHANGED <<mode, sig, list, handled, todo, request, times, rest, gone, failures, asked>>
  BY DEF SendConnect, progress
<1>3. answers' \in Seq(Messages)
  <2>1. \A n \in {1, 2} : Message(Greeting, n) \in Messages
    BY DEF Greeting, Request, Requests, Kinds, Message, Messages
  <2> QED
    <3>1. CASE \E n \in {1, 2} : answers' = <<Message(Greeting, n)>>
      BY <2>1, <3>1
    <3>2. CASE answers' = answers
      BY <1>1, <3>2 DEF Types
    <3> QED
      BY <3>1, <3>2 DEF SendConnect
<1>4. Types'
  BY <1>1, <1>2, <1>3 DEF Types, TypeOK
<1>5. RequestsOK' /\ NothingWrong' /\ PacketsOK' /\ ListOK'
  BY <1>1, <1>2, Elsewhere DEF Types, TypeOK, RequestsOK
<1>6. AnswersOK' /\ UnreadOK'
  BY <1>2 DEF AnswersOK, UnreadOK
<1> QED
  BY <1>4, <1>5, <1>6 DEF IInv

\* A read, whether it gives a message or not.
LEMMA AnyRead ==
  ASSUME Types, Read \/ ReadFails \/ ReadNothing \/ (PassOver /\ failures' = failures)
  PROVE  /\ answers' \in Seq(Messages) /\ rest' \in 0 .. MaxRest /\ failures' \in Nat
         /\ failures' = IF ReadFails THEN failures + 1 ELSE failures
<1>1. rest \in 0 .. MaxRest /\ MaxRest \in Nat /\ failures \in Nat /\ answers \in Seq(Messages)
  BY Given DEF Types, TypeOK
<1>2. /\ rest' = rest \/ (rest > 0 /\ rest' = rest - 1) \/ rest' \in 1 .. MaxRest
      /\ answers' = answers \/ (answers # <<>> /\ answers' = Tail(answers))
      /\ failures' = IF ReadFails THEN failures + 1 ELSE failures
  <2>1. CASE ReadFails
    BY <2>1 DEF ReadFails, Misses, PassOver, Cut
  <2>2. CASE ~ReadFails
    BY <2>2 DEF Read, ReadNothing, PassOver, Cut
  <2> QED
    BY <2>1, <2>2
<1>3. rest' \in 0 .. MaxRest
  BY <1>1, <1>2
<1>4. answers' \in Seq(Messages)
  BY <1>1, <1>2, ReadFacts
<1> QED
  BY <1>1, <1>2, <1>3, <1>4

LEMMA WaitReadyKeeps == ASSUME IInv, WaitReady PROVE IInv'
<1>1. Types /\ AnswersOK
  BY DEF IInv
<1>2. /\ pc = "waitReady" /\ UNCHANGED <<mode, sig, list, handled, todo, request, gone, asked>>
      /\ \/ Read \/ ReadFails
         \/ PassOver /\ UNCHANGED <<pc, times, failures>>
  BY DEF WaitReady, progress
<1>3. /\ pc' \in {"failed", "send", "sleep", "waitReady"}
      /\ pc' # "failed" => Read \/ (pc' = pc /\ PassOver)
      /\ pc' \in {"send", "sleep"} => Read /\ IsReady(message)
      /\ pc' = "waitReady" => times' <= MaxTimes /\ (Read => ~IsReady(message))
      /\ times' \in Nat
  <2>1. CASE /\ Read
             /\ times' = IF IsReady(message) THEN 0 ELSE times + 1
             /\ pc' = CASE TooMany                         -> "failed"
                        [] ~TooMany /\ IsReady(message)   -> AfterReady
                        [] ~TooMany /\ ~IsReady(message)  -> "waitReady"
    <3>1. CASE TooMany
      BY <1>1, <2>1, <3>1 DEF Types
    <3>2. CASE ~TooMany /\ IsReady(message)
      BY <2>1, <3>2 DEF AfterReady
    <3>3. CASE ~TooMany /\ ~IsReady(message)
      <4>1. ~(times + 1 > MaxTimes) /\ times' = times + 1 /\ pc' = "waitReady"
        BY <2>1, <3>3 DEF TooMany
      <4>2. times' <= MaxTimes /\ times' \in Nat
        BY <1>1, <4>1, Given DEF Types
      <4> QED
        BY <2>1, <3>3, <4>1, <4>2
    <3> QED
      BY <3>1, <3>2, <3>3
  <2>2. CASE rest = 1 /\ PassOver /\ UNCHANGED <<pc, times, failures>>
    BY <1>1, <1>2, <2>2 DEF Types, TypeOK, Read, PassOver
  <2> QED
    BY <1>1, <2>1, <2>2 DEF WaitReady, Types
<1>4. /\ answers' \in Seq(Messages) /\ rest' \in 0 .. MaxRest /\ failures' \in Nat
      /\ failures' = 0 => failures = 0
  BY <1>1, <1>2, AnyRead DEF Types, TypeOK
<1>5. Types'
  BY <1>1, <1>2, <1>3, <1>4 DEF Types, TypeOK
<1>6. RequestsOK' /\ NothingWrong' /\ PacketsOK' /\ ListOK' /\ (NoneLate' => NoneLate)
  BY <1>1, <1>2, <1>3, <1>4, Elsewhere DEF Types, TypeOK
<1>7. AnswersOK'
  <2> SUFFICES ASSUME NoneLate', pc' # "failed"
               PROVE  /\ pc' \in {"send", "sleep"} => answers' = <<>>
                      /\ pc' = "waitReady" => Closed(answers')
                      /\ rest' = 0
    BY <1>3 DEF AnswersOK
  <2>1. /\ Closed(answers) /\ answers \in Seq(Messages) /\ answers # <<>> /\ answers' = Tail(answers)
        /\ rest = 0 /\ rest' = 0
    BY <1>1, <1>2, <1>3, <1>6 DEF AnswersOK, Read, PassOver, Types
  <2>2. Closed(answers') /\ (IsReady(message) <=> answers' = <<>>)
    BY <2>1, ReadFacts DEF IsReady, message
  <2>3. ~(PassOver /\ rest = 0)
    BY DEF PassOver
  <2> QED
    BY <1>3, <2>1, <2>2, <2>3
<1>8. UnreadOK'
  <2> SUFFICES ASSUME GoesOn, pc' # "failed"
               PROVE  /\ pc' \in {"send", "sleep"} => Unread(answers') <= failures'
                      /\ pc' = "waitReady" => Unread(answers') <= failures' + 1
    BY <1>2, <1>3 DEF UnreadOK, GoesOn
  <2>1. Unread(answers) <= failures + 1
    BY <1>2 DEF IInv, UnreadOK
  <2>2. /\ Unread(answers) \in Nat /\ Unread(answers') \in Nat
        /\ Unread(answers') <= Unread(answers)
        /\ Read => Unread(answers') = Unread(answers) - (IF IsReady(message) THEN 1 ELSE 0)
    BY <1>1, <1>2, UnreadRead
  <2>3. failures \in Nat /\ failures' \in Nat /\ failures' >= failures
    BY <1>1, <1>2, AnyRead DEF Types, TypeOK
  <2> QED
    BY <1>3, <2>1, <2>2, <2>3
<1> QED
  BY <1>5, <1>6, <1>7, <1>8 DEF IInv

LEMMA ReceiveListKeeps == ASSUME IInv, ReceiveList PROVE IInv'
<1>1. Types /\ AnswersOK /\ RequestsOK
  BY DEF IInv
<1>2. /\ pc = "receiveList" /\ pc' \in {"end", "crashed", "failed"} /\ mode = "list"
      /\ UNCHANGED <<mode, sig, list, handled, todo, request, times, gone, asked>>
      /\ Read \/ ReadFails
  BY <1>1 DEF ReceiveList, progress, RequestsOK
<1>3. /\ answers' \in Seq(Messages) /\ rest' \in 0 .. MaxRest /\ failures' \in Nat
      /\ failures' = 0 => failures = 0
  BY <1>1, <1>2, AnyRead DEF Types, TypeOK
<1>4. Types'
  BY <1>1, <1>2, <1>3 DEF Types, TypeOK
<1>5. RequestsOK' /\ NothingWrong' /\ PacketsOK' /\ ListOK'
  BY <1>1, <1>2, <1>3, Elsewhere DEF Types, TypeOK
<1>6. AnswersOK' /\ UnreadOK'
  BY <1>2 DEF AnswersOK, UnreadOK
<1> QED
  BY <1>4, <1>5, <1>6 DEF IInv
LEMMA KeepAliveKeeps == ASSUME IInv, KeepAlive PROVE IInv'
<1>1. Types /\ AnswersOK
  BY DEF IInv
<1> DEFINE r == Request("pending", NoKey, 0)
<1>2. /\ pc = "sleep" /\ pc' = "waitReady" /\ times' = 0 /\ Answered(r)
      /\ UNCHANGED <<mode, sig, list, handled, todo, request, rest, gone, failures>>
  BY DEF KeepAlive, AfterKeepAlive, progress
<1>3. r \in Requests /\ r.kind = "pending"
  BY DEF Request, Requests, Kinds
<1> HIDE DEF r
<1>4. /\ asked' = asked
      /\ \/ answers' = answers
         \/ answers' = answers \o Answer(r, 0)
  BY <1>2, <1>3 DEF Answered, Sizes
<1>5. Answer(r, 0) \in Seq(Messages) /\ Closed(Answer(r, 0))
  BY <1>3, AnswerFacts
<1>6. answers' \in Seq(Messages)
  BY <1>1, <1>4, <1>5, ConcatProperties DEF Types
<1>7. Types'
  BY <1>1, <1>2, <1>6, Given DEF Types, TypeOK
<1>8. RequestsOK' /\ NothingWrong' /\ PacketsOK' /\ ListOK' /\ (NoneLate' => NoneLate)
  BY <1>1, <1>2, <1>4, Elsewhere DEF Types, TypeOK
<1>9. AnswersOK'
  <2> SUFFICES ASSUME NoneLate' PROVE Closed(answers') /\ rest = 0
    BY <1>2 DEF AnswersOK
  <2>1. answers = <<>> /\ rest = 0
    BY <1>1, <1>2, <1>8 DEF AnswersOK
  <2>2. CASE answers' = answers
    BY <2>1, <2>2, EmptySeq DEF Closed
  <2>3. CASE answers' = answers \o Answer(r, 0)
    BY <1>5, <2>1, <2>3, ConcatEmptySeq
  <2> QED
    BY <1>4, <2>1, <2>2, <2>3
<1>10. UnreadOK'
  <2> SUFFICES ASSUME GoesOn PROVE Unread(answers') <= failures + 1
    BY <1>2 DEF UnreadOK, GoesOn
  <2>1. Unread(answers) <= failures /\ failures \in Nat /\ answers \in Seq(Messages)
    BY <1>1, <1>2 DEF IInv, UnreadOK, Types, TypeOK
  <2>2. Unread(answers) \in Nat /\ Unread(answers \o Answer(r, 0)) = Unread(answers) + 1
    BY <1>3, <2>1, UnreadType, UnreadAnswer
  <2>3. CASE answers' = answers
    BY <2>1, <2>2, <2>3
  <2>4. CASE answers' = answers \o Answer(r, 0)
    BY <2>1, <2>2, <2>4
  <2> QED
    BY <1>4, <2>3, <2>4
<1> QED
  BY <1>7, <1>8, <1>9, <1>10 DEF IInv

\* Waking up, and the end.
LEMMA PcKeeps == ASSUME IInv, WakeUp \/ End PROVE IInv'
<1>1. Types /\ AnswersOK /\ ListOK
  BY DEF IInv
<1>2. /\ (pc = "sleep" /\ pc' = "send") \/ (pc = "end" /\ pc' = "done")
      /\ UNCHANGED <<mode, sig, list, handled, todo, request, times, answers, rest, gone, failures, asked>>
  BY DEF WakeUp, End, progress, server
<1>3. Types'
  BY <1>1, <1>2 DEF Types, TypeOK
<1>4. RequestsOK' /\ NothingWrong' /\ PacketsOK' /\ ListOK' /\ (NoneLate' => NoneLate)
  BY <1>1, <1>2, Elsewhere DEF Types, TypeOK, ListOK
<1>5. AnswersOK'
  BY <1>1, <1>2, <1>4 DEF AnswersOK
<1>6. UnreadOK'
  BY <1>2 DEF IInv, UnreadOK, GoesOn
<1> QED
  BY <1>3, <1>4, <1>5, <1>6 DEF IInv

\* The server leaves, or a signal arrives.
LEMMA DisturbKeeps ==
  ASSUME IInv, UNCHANGED <<mode, pc, todo, request, times, answers, rest, failures, list, handled, asked>>,
         gone' \in {gone, TRUE}, sig' \in {sig, TRUE}
  PROVE  IInv'
<1>1. Types /\ RequestsOK /\ AnswersOK /\ NothingWrong /\ PacketsOK /\ ListOK
  BY DEF IInv
<1>2. Types'
  BY <1>1 DEF Types, TypeOK
<1>3. sent' = sent /\ understood' = understood /\ (Calm' => Calm) /\ (NoneLate' => NoneLate)
  <2>1. sent' = sent
    BY DEF sent
  <2>2. (Calm' => Calm) /\ (sig => sig')
    BY <1>1 DEF Types, TypeOK, Calm
  <2>3. understood' = understood
    BY <2>1 DEF understood
  <2>4. NoneLate' => NoneLate
    BY <2>2 DEF NoneLate, GoesOn
  <2> QED
    BY <2>1, <2>2, <2>3, <2>4
<1>4. RequestsOK' /\ NothingWrong'
  BY <1>1, <1>3 DEF RequestsOK, NothingWrong
<1>5. AnswersOK'
  BY <1>1, <1>3 DEF AnswersOK
<1>6. PacketsOK'
  BY <1>1, <1>3 DEF PacketsOK, Coming
<1>7. ListOK'
  BY <1>1, <1>3 DEF ListOK, InfoUnderstood
<1>8. UnreadOK'
  BY DEF IInv, Types, TypeOK, UnreadOK, GoesOn
<1> QED
  BY <1>2, <1>4, <1>5, <1>6, <1>7, <1>8 DEF IInv

-----------------------------------------------------------------------------
\* The first of the requests that are not sent yet.
LEMMA FirstRequest ==
  ASSUME Types, RequestsOK, todo # <<>>
  PROVE  /\ Head(todo) = todo[1] /\ todo[1] \in Requests /\ 1 \in 1 .. Len(todo)
         /\ mode = "data" => todo[1].kind = "data"
<1>1. todo \in Seq(Requests) /\ Len(todo) \in Nat /\ Len(todo) # 0
  BY DEF Types
<1>2. 1 \in 1 .. Len(todo) /\ Head(todo) = todo[1] /\ todo[1] \in Requests
  BY <1>1
<1> QED
  BY <1>2 DEF RequestsOK

\* Taking the next request from the list.
LEMMA NextRequest ==
  ASSUME Types, RequestsOK, todo # <<>>, todo' = Tail(todo)
  PROVE  /\ todo' \in Seq(Requests) /\ Head(todo) = todo[1] /\ todo[1] \in Requests
         /\ \A i \in 1 .. Len(todo') : todo'[i] = todo[i + 1]
         /\ mode = "data" => todo[1].kind = "data" /\ \A i \in 1 .. Len(todo') : todo'[i].kind = "data"
         /\ mode # "data" =>
              /\ sent' = sent + 1 /\ sent \in Nat /\ sent' \in 1 .. Len(MetaRequests)
              /\ todo[1] = MetaRequests[sent']
              /\ \A i \in 1 .. Len(todo') : todo'[i] = MetaRequests[sent' + i]
<1>1. /\ todo \in Seq(Requests) /\ todo' \in Seq(Requests) /\ Head(todo) = todo[1] /\ todo[1] \in Requests
      /\ Len(todo) \in Nat /\ Len(todo) >= 1 /\ Len(todo') = Len(todo) - 1
      /\ \A i \in 1 .. Len(todo') : todo'[i] = todo[i + 1]
  BY HeadTailProperties DEF Types
<1>2. 1 \in 1 .. Len(todo) /\ \A i \in 1 .. Len(todo') : i + 1 \in 1 .. Len(todo)
  BY <1>1
<1>3. mode = "data" => todo[1].kind = "data" /\ \A i \in 1 .. Len(todo') : todo'[i].kind = "data"
  BY <1>1, <1>2 DEF RequestsOK
<1>4. ASSUME mode # "data"
      PROVE  /\ sent' = sent + 1 /\ sent \in Nat /\ sent' \in 1 .. Len(MetaRequests)
             /\ todo[1] = MetaRequests[sent']
             /\ \A i \in 1 .. Len(todo') : todo'[i] = MetaRequests[sent' + i]
  <2>1. /\ sent \in Int /\ \A i \in 1 .. Len(todo) : todo[i] = MetaRequests[sent + i]
        /\ sent \in 0 .. Len(MetaRequests)
    BY <1>4 DEF RequestsOK
  <2>2. sent = Len(MetaRequests) - Len(todo) /\ sent' = Len(MetaRequests) - Len(todo')
    <3>1. Len(MetaRequests)' = Len(MetaRequests)
      BY DEF MetaRequests, Request, NoKey
    <3> QED
      BY <3>1 DEF sent
  <2>3. Len(MetaRequests) \in Nat
    BY MetaFacts, Given
  <2> HIDE DEF sent
  <2>4. sent' = sent + 1 /\ sent' \in 1 .. Len(MetaRequests) /\ sent \in Nat
    BY <1>1, <2>1, <2>2, <2>3
  <2>5. todo[1] = MetaRequests[sent']
    BY <1>2, <2>1, <2>4
  <2>6. ASSUME NEW i \in 1 .. Len(todo')
        PROVE  todo'[i] = MetaRequests[sent' + i]
    <3>1. sent + (i + 1) = sent' + i
      BY <2>1, <2>4
    <3>2. todo'[i] = todo[i + 1] /\ todo[i + 1] = MetaRequests[sent + (i + 1)]
      BY <1>1, <1>2, <2>1
    <3> QED
      BY <3>1, <3>2
  <2> QED
    BY <2>4, <2>5, <2>6
<1> QED
  BY <1>1, <1>3, <1>4

LEMMA SkipKeeps == ASSUME IInv, Skip PROVE IInv'
<1>1. Types /\ RequestsOK /\ AnswersOK /\ NothingWrong /\ PacketsOK /\ ListOK
  BY DEF IInv
<1>2. /\ pc = "send" /\ todo # <<>> /\ todo' = Tail(todo) /\ ~Wanted(Head(todo))
      /\ UNCHANGED <<mode, sig, list, handled, pc, request, times, answers, rest, gone, failures, asked>>
  BY DEF Skip, progress, server
<1>3. /\ todo' \in Seq(Requests) /\ Head(todo) = todo[1]
      /\ mode = "data" => todo[1].kind = "data"
      /\ mode # "data" =>
           /\ sent' = sent + 1 /\ sent \in Nat /\ sent' \in 1 .. Len(MetaRequests)
           /\ todo[1] = MetaRequests[sent']
           /\ \A i \in 1 .. Len(todo') : todo'[i] = MetaRequests[sent' + i]
  BY <1>1, <1>2, NextRequest
<1>4. todo[1].kind = "info" /\ ~InfoWanted(todo[1].key) /\ mode # "data"
  BY <1>2, <1>3 DEF Wanted
<1>5. Types'
  BY <1>1, <1>2, <1>3 DEF Types, TypeOK
<1>6. sent' \in 3 .. (Len(Channels) + 2) /\ todo[1].key = Channels[sent' - 2]
  <2>1. sent' >= 3
    BY <1>3, <1>4, MetaKinds
  <2>2. sent' \in 3 .. (Len(Channels) + 2)
    BY <1>3, <1>4, <2>1, MetaFacts
  <2>3. MetaRequests[sent'] = Request("info", Channels[sent' - 2], 0)
    BY <2>2, MetaFacts
  <2> QED
    BY <1>3, <1>4, <2>2, <2>3 DEF Request
<1>7. sent' # 0 /\ sent' \in 0 .. Len(MetaRequests)
  BY <1>3, <1>4, <1>6
<1>8. RequestsOK'
  BY <1>1, <1>2, <1>3, <1>4, <1>7 DEF RequestsOK
<1>9. NothingWrong' /\ PacketsOK'
  BY <1>1, <1>2 DEF NothingWrong, PacketsOK, Calm
<1>10. AnswersOK'
  BY <1>1, <1>2 DEF AnswersOK, NoneLate, GoesOn
<1>11. ListOK'
  <2> SUFFICES ASSUME mode = "meta", Calm
               PROVE  \A k \in Keys :
                        /\ list[k].listed = (understood' >= 1)
                        /\ list[k].times = IF understood' >= 2 THEN "right" ELSE "none"
                        /\ list[k].network = IF k \in WithInfo /\ InfoUnderstood(k)' THEN "right" ELSE "none"
    BY <1>2 DEF ListOK, Calm
  <2>1. understood = sent /\ understood' = sent'
    BY <1>2 DEF understood
  <2>2. /\ understood' = understood + 1 /\ understood >= 2 /\ understood \in Nat
    BY <1>3, <1>4, <1>6, <2>1
  <2>5. understood >= 1 /\ understood' >= 1 /\ understood' >= 2
    BY <2>2
  <2> DEFINE c == Channels[sent' - 2]
  <2>3. c \in Keys /\ c \notin WithInfo
    <3>1. c \in Keys
      <4>1. sent' - 2 \in 1 .. Len(Channels)
        <5> DEFINE m == sent'
                   l == Len(Channels)
        <5>1. m \in 3 .. (l + 2) /\ l \in Nat
          BY <1>6, Given
        <5> HIDE DEF m, l
        <5>2. m - 2 \in 1 .. l
          BY ONLY <5>1
        <5> QED
          BY <5>2 DEF m, l
      <4> QED
        BY <4>1, KeyIndex
    <3>2. list[c].listed
      BY <1>1, <2>2, <2>5, <3>1 DEF ListOK
    <3> QED
      BY <1>4, <1>6, <3>1, <3>2 DEF InfoWanted
  <2>4. ASSUME NEW k \in Keys, k \in WithInfo
        PROVE  InfoUnderstood(k)' <=> InfoUnderstood(k)
    <3>1. ASSUME NEW j \in 1 .. Len(Channels), Channels[j] = k
          PROVE  j + 2 <= understood' <=> j + 2 <= understood
      <4>1. j # sent' - 2
        BY <2>3, <2>4, <3>1
      <4> DEFINE m == sent'
                 u == understood
                 v == understood'
      <4>2. /\ j # m - 2 /\ m \in Int /\ j \in Int /\ v = m
            /\ v = u + 1 /\ u \in Int
        BY <1>3, <1>4, <2>1, <2>2, <4>1
      <4> HIDE DEF m, u, v
      <4>3. j + 2 <= v <=> j + 2 <= u
        BY ONLY <4>2
      <4> QED
        BY <4>3 DEF u, v
    <3> QED
      BY <3>1 DEF InfoUnderstood
  <2> QED
    BY <1>1, <2>2, <2>4, <2>5 DEF ListOK
<1>12. UnreadOK'
  BY <1>2 DEF IInv, UnreadOK, GoesOn
<1> QED
  BY <1>5, <1>8, <1>9, <1>10, <1>11, <1>12 DEF IInv

LEMMA NextPhaseKeeps == ASSUME IInv, NextPhase PROVE IInv'
<1>1. Types /\ RequestsOK /\ AnswersOK /\ NothingWrong /\ PacketsOK /\ ListOK
  BY DEF IInv
<1>2. /\ pc = "send" /\ UNCHANGED <<mode, sig, list, handled, request, times, answers, rest, gone, failures, asked>>
      /\ todo = <<>> \/ ~GoesOn
      /\ \/ mode = "data" /\ todo' = DataRequests(request.period + 1) /\ pc' = "sleep"
         \/ todo' = <<>> /\ pc' = "end"
  BY DEF NextPhase, progress, server
<1>3. mode # "data" => todo' = todo /\ todo' = <<>> /\ pc' = "end"
  BY <1>2 DEF GoesOn
<1>4. todo' \in Seq(Requests) /\ (mode = "data" => \A i \in 1 .. Len(todo') : todo'[i].kind = "data")
  <2>1. CASE todo' = DataRequests(request.period + 1)
    <3> DEFINE r(i) == Request("data", Channels[i], request.period + 1)
    <3>1. \A i \in 1 .. Len(Channels) : r(i) \in Requests /\ r(i).kind = "data"
      <4>1. request.period + 1 \in Nat
        BY <1>1 DEF Types, Requests
      <4> QED
        BY <4>1, KeyIndex DEF Request, Requests, Kinds
    <3>2. todo' = [i \in 1 .. Len(Channels) |-> r(i)] /\ Len(Channels) \in Nat
      BY <2>1, Given DEF DataRequests
    <3> HIDE DEF r
    <3> QED
      BY <3>1, <3>2
  <2>2. CASE todo' = <<>>
    BY <2>2, EmptySeq
  <2> QED
    BY <1>2, <2>1, <2>2
<1>5. Types'
  BY <1>1, <1>2, <1>4 DEF Types, TypeOK
<1>6. mode # "data" => sent' = sent
  BY <1>3 DEF sent
<1>7. RequestsOK'
  BY <1>1, <1>2, <1>3, <1>4, <1>6 DEF RequestsOK
<1>8. NothingWrong' /\ PacketsOK'
  BY <1>1, <1>2 DEF NothingWrong, PacketsOK, Calm
<1>9. AnswersOK'
  BY <1>1, <1>2 DEF AnswersOK, NoneLate, GoesOn
<1>10. ListOK'
  <2>1. mode = "meta" => understood' = understood
    BY <1>2, <1>3, <1>6 DEF understood
  <2> QED
    BY <1>1, <1>2, <1>3, <2>1 DEF ListOK, InfoUnderstood, Calm
<1>11. UnreadOK'
  BY <1>2 DEF IInv, UnreadOK, GoesOn
<1> QED
  BY <1>5, <1>7, <1>8, <1>9, <1>10, <1>11 DEF IInv
LEMMA SendKeeps == ASSUME IInv, Send PROVE IInv'
<1>1. Types /\ RequestsOK /\ AnswersOK /\ NothingWrong /\ PacketsOK /\ ListOK
  BY DEF IInv
<1> DEFINE r == todo[1]
<1>2. /\ pc = "send" /\ todo # <<>> /\ GoesOn /\ request' = Head(todo)
      /\ UNCHANGED <<mode, sig, list, handled, times, rest, gone, failures>>
  BY DEF Send, progress
<1>3. /\ r \in Requests /\ request' = r
      /\ mode = "data" => r.kind = "data"
  BY <1>1, <1>2, FirstRequest
<1>info. r.kind = "info" => r.key \in WithInfo
  BY <1>1, <1>2, FirstRequest DEF Send, Wanted, InfoWanted
<1>4. CASE Answered(request') /\ pc' = "receive" /\ todo' = Tail(todo)
  <2>1. /\ todo' \in Seq(Requests)
        /\ mode = "data" => \A i \in 1 .. Len(todo') : todo'[i].kind = "data"
        /\ mode # "data" =>
             /\ sent' = sent + 1 /\ sent \in Nat /\ sent' \in 1 .. Len(MetaRequests)
             /\ r = MetaRequests[sent']
             /\ \A i \in 1 .. Len(todo') : todo'[i] = MetaRequests[sent' + i]
    BY <1>1, <1>2, <1>4, NextRequest
  <2>2. /\ mode # "data" => /\ r.kind \in {"channels", "precis", "info"}
                            /\ r.kind = "channels" <=> sent' = 1
                            /\ sent' # 0 /\ sent' \in 0 .. Len(MetaRequests)
        /\ r # NoRequest
    <3>1. CASE mode = "data"
      BY <1>3, <3>1 DEF NoRequest, Request
    <3>2. CASE mode # "data"
      BY <2>1, <3>2, MetaKinds, MetaFacts, Given
    <3> QED
      BY <3>1, <3>2
  <2> HIDE DEF r
  <2>3. \/ gone /\ answers' = answers /\ asked' = asked
        \/ /\ ~gone
           /\ \E n \in Sizes(r) :
                /\ answers' = answers \o Answer(r, n)
                /\ asked' = IF r.kind = "data" THEN asked \cup {Message(r, i) : i \in 1 .. n} ELSE asked
    BY <1>3, <1>4 DEF Answered
  <2>4. \A n \in Sizes(r) : n \in Nat /\ (mode # "data" => n = 1)
    <3>1. CASE mode = "data"
      BY <1>3, <3>1, Given DEF Sizes
    <3>2. CASE mode # "data"
      BY <2>2, <3>2 DEF Sizes
    <3> QED
      BY <3>1, <3>2
  <2>5. answers' \in Seq(Messages)
    <3>1. CASE answers' = answers
      BY <1>1, <3>1 DEF Types
    <3>2. ASSUME NEW n \in Sizes(r), answers' = answers \o Answer(r, n) PROVE answers' \in Seq(Messages)
      <4>1. Answer(r, n) \in Seq(Messages) /\ answers \in Seq(Messages)
        BY <1>1, <1>3, <2>4, AnswerFacts DEF Types
      <4> QED
        BY <3>2, <4>1, ConcatProperties
    <3> QED
      BY <2>3, <3>1, <3>2
  <2>6. Types'
    BY <1>1, <1>2, <1>3, <1>4, <2>1, <2>5 DEF Types, TypeOK
  <2>7. RequestsOK'
    <3>1. CASE mode = "data"
      BY <1>2, <1>3, <1>4, <1>info, <2>1, <3>1 DEF RequestsOK
    <3>2. CASE mode # "data"
      <4>1. sent' >= 1
        BY <2>1, <3>2
      <4> QED
        BY <1>2, <1>3, <1>4, <1>info, <2>1, <2>2, <3>2, <4>1 DEF RequestsOK
    <3> QED
      BY <3>1, <3>2
  <2>8. NothingWrong'
    BY <1>1, <1>2 DEF NothingWrong
  <2>9. NoneLate' => NoneLate /\ answers = <<>> /\ rest = 0
    <3> SUFFICES ASSUME NoneLate' PROVE NoneLate
      BY <1>1, <1>2 DEF AnswersOK
    <3>1. CASE failures = 0
      BY <1>2, <3>1 DEF NoneLate
    <3>2. CASE r.kind = "channels"
      <4>1. mode # "data"
        BY <1>3, <3>2
      <4>2. sent = 0
        BY <2>1, <2>2, <3>2, <4>1
      <4> QED
        BY <1>1, <4>1, <4>2 DEF RequestsOK, NoneLate
    <3> QED
      BY <1>2, <1>3, <2>2, <3>1, <3>2 DEF NoneLate
  <2>10. ASSUME answers = <<>>
         PROVE  \/ gone /\ answers' = <<>>
                \/ /\ ~gone
                   /\ \E n \in Sizes(r) :
                        /\ answers' = Answer(r, n)
                        /\ asked' = IF r.kind = "data" THEN asked \cup {Message(r, i) : i \in 1 .. n} ELSE asked
    <3>1. \A n \in Sizes(r) : answers \o Answer(r, n) = Answer(r, n)
      <4>1. \A n \in Sizes(r) : Answer(r, n) \in Seq(Messages)
        BY <1>3, <2>4, AnswerFacts
      <4> QED
        BY <2>10, <4>1, ConcatEmptySeq
    <3> QED
      BY <2>3, <2>10, <3>1
  <2>11. AnswersOK'
    <3> SUFFICES ASSUME NoneLate'
                 PROVE  Closed(answers') /\ \A i \in 1 .. Len(answers') : answers'[i].to = r
      BY <1>2, <1>3, <1>4, <2>9 DEF AnswersOK
    <3>1. CASE answers' = <<>>
      BY <3>1, EmptySeq DEF Closed
    <3>2. ASSUME NEW n \in Sizes(r), answers' = Answer(r, n)
          PROVE  Closed(answers') /\ \A i \in 1 .. Len(answers') : answers'[i].to = r
      <4>1. n \in Nat /\ r \in Requests
        BY <1>3, <2>4
      <4>2. /\ Len(Answer(r, n)) = n + 1 /\ Closed(Answer(r, n))
            /\ \A i \in 1 .. (n + 1) : Answer(r, n)[i].to = r
        BY ONLY <4>1, AnswerFacts
      <4> QED
        BY <3>2, <4>2
    <3> QED
      BY <2>9, <2>10, <3>1, <3>2
  <2>12. ASSUME Calm'
         PROVE  /\ Calm /\ answers = <<>>
                /\ \E n \in Sizes(r) :
                     /\ answers' = Answer(r, n)
                     /\ asked' = IF r.kind = "data" THEN asked \cup {Message(r, i) : i \in 1 .. n} ELSE asked
    <3>1. Calm /\ NoneLate /\ ~gone
      BY <1>2, <2>12 DEF Calm, NoneLate, GoesOn
    <3>2. answers = <<>>
      BY <1>1, <1>2, <3>1 DEF AnswersOK
    <3> QED
      BY <2>10, <3>1, <3>2
  <2>13. PacketsOK'
    <3> SUFFICES ASSUME mode = "data", Calm' PROVE asked' = handled \cup Coming'
      BY <1>2, <1>4 DEF PacketsOK
    <3>1. Calm /\ asked = handled
      BY <1>1, <1>2, <2>12 DEF PacketsOK
    <3>2. PICK n \in Sizes(r) : answers' = Answer(r, n) /\ asked' = asked \cup {Message(r, i) : i \in 1 .. n}
      BY <1>3, <2>12
    <3>3. /\ Len(answers') = n + 1 /\ answers'[n + 1] = Message(r, 0) /\ n \in Nat
          /\ \A i \in 1 .. n : answers'[i] = Message(r, i)
      <4>1. n \in Nat /\ r \in Requests
        BY <1>3, <2>4
      <4>2. /\ Len(Answer(r, n)) = n + 1 /\ Answer(r, n)[n + 1] = Message(r, 0)
            /\ \A i \in 1 .. n : Answer(r, n)[i] = Message(r, i)
        BY ONLY <4>1, AnswerFacts
      <4> QED
        BY <3>2, <4>1, <4>2
    <3>4. /\ \A i \in 1 .. (n + 1) : i \in 1 .. n \/ i = n + 1
          /\ \A i \in 1 .. n : i \in 1 .. (n + 1) /\ i # 0
      BY <3>3
    <3>5. \A i : Message(r, i).n = i
      BY DEF Message
    <3>6. Coming' = {Message(r, i) : i \in 1 .. n}
      BY <3>3, <3>4, <3>5 DEF Coming
    <3> QED
      BY <3>1, <3>2, <3>6
  <2>14. ListOK'
    <3> SUFFICES ASSUME mode = "meta", Calm'
                 PROVE  Len(answers') = 2 /\ understood' = understood /\ Calm
      BY <1>1, <1>2, <1>4 DEF ListOK, InfoUnderstood
    <3>1. PICK n \in Sizes(r) : answers' = Answer(r, n)
      BY <2>12
    <3>2. Len(answers') = 2
      <4>1. n = 1 /\ n \in Nat /\ r \in Requests
        BY <1>3, <2>4
      <4>2. Len(Answer(r, n)) = n + 1
        BY ONLY <4>1, AnswerFacts
      <4> QED
        BY <3>1, <4>1, <4>2
    <3>3. understood = sent /\ understood' = sent' - 1
      BY <1>2, <1>4, <3>2 DEF understood
    <3> QED
      BY <2>1, <2>12, <3>2, <3>3
  <2>15. UnreadOK'
    <3> SUFFICES ASSUME GoesOn PROVE Unread(answers') <= failures + 1
      BY <1>2, <1>4 DEF UnreadOK, GoesOn
    <3>1. Unread(answers) <= failures /\ failures \in Nat /\ answers \in Seq(Messages)
      BY <1>1, <1>2 DEF IInv, UnreadOK, Types, TypeOK
    <3>2. Unread(answers) \in Nat
      BY <3>1, UnreadType
    <3>3. \A n \in Sizes(r) : Unread(answers \o Answer(r, n)) = Unread(answers) + 1
      BY <1>3, <2>4, <3>1, UnreadAnswer
    <3>4. CASE answers' = answers
      BY <3>1, <3>2, <3>4
    <3>5. ASSUME NEW n \in Sizes(r), answers' = answers \o Answer(r, n)
          PROVE  Unread(answers') <= failures + 1
      BY <3>1, <3>2, <3>3, <3>5
    <3> QED
      BY <2>3, <3>4, <3>5
  <2> QED
    BY <2>6, <2>7, <2>8, <2>11, <2>13, <2>14, <2>15 DEF IInv
<1>5. CASE mode = "data" /\ todo' = <<>> /\ UNCHANGED <<pc, answers, asked>>
  <2>1. request'.kind = "data" /\ request' # NoRequest
    BY <1>3, <1>5 DEF NoRequest, Request
  <2>2. Types'
    BY <1>1, <1>2, <1>3, <1>5, EmptySeq DEF Types, TypeOK
  <2>3. RequestsOK'
    BY <1>1, <1>2, <1>5, <2>1, EmptySeq DEF RequestsOK
  <2>4. NothingWrong' /\ PacketsOK' /\ ListOK'
    BY <1>1, <1>2, <1>5 DEF NothingWrong, PacketsOK, ListOK, Calm
  <2>5. AnswersOK'
    BY <1>1, <1>2, <1>5, <2>1 DEF AnswersOK, NoneLate, GoesOn
  <2>6. UnreadOK'
    BY <1>2, <1>5 DEF IInv, UnreadOK, GoesOn
  <2> QED
    BY <2>2, <2>3, <2>4, <2>5, <2>6 DEF IInv
<1> QED
  BY <1>4, <1>5 DEF Send

-----------------------------------------------------------------------------
\* Of the reads of an answer none leaves more unread.
LEMMA ReceiveUnread ==
  ASSUME IInv, pc = "receive", Read \/ ReadFails \/ ReadNothing, UNCHANGED <<mode, sig>>,
         /\ pc' \in {"receive", "send", "crashed"}
         /\ pc' = "send" /\ GoesOn => ReadFails \/ (Read /\ IsReady(message))
  PROVE  UnreadOK'
<1> SUFFICES ASSUME GoesOn, pc' # "crashed"
             PROVE  /\ pc' = "send" => Unread(answers') <= failures'
                    /\ pc' = "receive" => Unread(answers') <= failures' + 1
  BY DEF UnreadOK, GoesOn
<1>1. Types /\ Unread(answers) <= failures + 1
  BY DEF IInv, UnreadOK
<1>2. /\ Unread(answers) \in Nat /\ Unread(answers') \in Nat
      /\ Unread(answers') <= Unread(answers)
      /\ Read => Unread(answers') = Unread(answers) - (IF IsReady(message) THEN 1 ELSE 0)
  BY <1>1, UnreadRead
<1>3. failures \in Nat /\ failures' = IF ReadFails THEN failures + 1 ELSE failures
  BY <1>1, AnyRead DEF Types, TypeOK
<1>4. Read => failures' = failures
  BY DEF Read
<1> QED
  BY <1>1, <1>2, <1>3, <1>4

\* The end of an answer, or a message that main() does not look at after a signal.
LEMMA ReceiveEnd ==
  ASSUME IInv, pc = "receive", Read, EndsAnswer \/ ~GoesOn, pc' = "send",
         UNCHANGED <<mode, sig, todo, request, times, gone, asked, list, handled>>
  PROVE  IInv'
<1>1. Types /\ RequestsOK /\ AnswersOK /\ NothingWrong /\ PacketsOK /\ ListOK
  BY DEF IInv
<1>2. /\ answers \in Seq(Messages) /\ answers # <<>> /\ answers' = Tail(answers) /\ failures' = failures
      /\ rest = 0 /\ rest' = 0
  BY <1>1 DEF Read, Types
<1>3. /\ answers' \in Seq(Messages) /\ Head(answers) = answers[1]
      /\ Len(answers) \in Nat /\ Len(answers) >= 1
      /\ Closed(answers) => (answers[1].n = 0 <=> answers' = <<>>)
  BY <1>2, ReadFacts
<1>4. Types'
  BY <1>1, <1>2, <1>3 DEF Types, TypeOK
<1>5. sent' = sent
  BY DEF sent
<1>6. RequestsOK'
  BY <1>1, <1>5 DEF RequestsOK
<1>7. NothingWrong'
  BY <1>1, <1>2 DEF NothingWrong
<1>8. ASSUME failures = 0, GoesOn
      PROVE  answers' = <<>> /\ Closed(answers) /\ answers[1].n = 0
  <2>1. Closed(answers)
    BY <1>1, <1>8 DEF AnswersOK, NoneLate
  <2> QED
    BY <1>3, <1>8, <2>1 DEF EndsAnswer, IsReady, message
<1>9. request # NoRequest
  BY <1>1, Requested
<1>10. AnswersOK'
  BY <1>2, <1>8, <1>9 DEF AnswersOK, NoneLate, GoesOn
<1>11. Calm' => Calm /\ failures = 0 /\ GoesOn
  BY <1>2 DEF Calm, GoesOn
<1>12. 1 \in 1 .. Len(answers)
  BY <1>3
<1>13. ASSUME Calm' PROVE Len(answers) = 1 /\ answers[1].n = 0
  BY <1>8, <1>11, <1>12, <1>13 DEF Closed
<1>14. PacketsOK'
  <2> SUFFICES ASSUME mode = "data", Calm' PROVE asked = handled
    BY DEF PacketsOK
  <2>1. asked = handled \cup Coming
    BY <1>1, <1>11 DEF PacketsOK
  <2>2. \A i \in 1 .. 1 : i = 1
    OBVIOUS
  <2>3. Coming = {}
    BY <1>13, <2>2 DEF Coming
  <2> QED
    BY <2>1, <2>3
<1>15. ListOK'
  <2> SUFFICES ASSUME mode = "meta", Calm' PROVE understood' = understood /\ Calm
    BY <1>1 DEF ListOK, InfoUnderstood
  <2>1. Len(answers) # 2
    BY <1>13
  <2> QED
    BY <2>1, <1>5, <1>11 DEF understood
<1>16. UnreadOK'
  BY ReceiveUnread DEF EndsAnswer
<1> QED
  BY <1>4, <1>6, <1>7, <1>10, <1>14, <1>15, <1>16 DEF IInv

\* A read that fails in the middle of an answer.
LEMMA ReceiveFails ==
  ASSUME IInv, pc = "receive", ReadFails, pc' = "send",
         UNCHANGED <<mode, sig, todo, request, times, gone, asked, list, handled>>
  PROVE  IInv'
<1>1. Types /\ RequestsOK /\ AnswersOK /\ NothingWrong
  BY DEF IInv
<1>2. /\ answers' \in Seq(Messages) /\ rest' \in 0 .. MaxRest /\ failures' \in Nat
      /\ failures' = failures + 1 /\ failures \in Nat
  BY <1>1, AnyRead DEF Types, TypeOK
<1>3. failures' # 0
  BY <1>2
<1>4. Types'
  BY <1>1, <1>2 DEF Types, TypeOK
<1>5. sent' = sent
  BY DEF sent
<1>6. RequestsOK'
  BY <1>1, <1>5 DEF RequestsOK
<1>7. NothingWrong'
  BY <1>1, <1>2 DEF NothingWrong
<1>8. AnswersOK'
  <2>1. request # NoRequest
    BY <1>1, Requested
  <2> QED
    BY <1>2, <1>3, <2>1 DEF AnswersOK, NoneLate, GoesOn
<1>9. ~Calm'
  BY <1>3 DEF Calm
<1>10. PacketsOK' /\ ListOK'
  BY <1>9 DEF PacketsOK, ListOK
<1>11. UnreadOK'
  BY ReceiveUnread
<1> QED
  BY <1>4, <1>6, <1>7, <1>8, <1>10, <1>11 DEF IInv

\* A message of no type in the DAP flow: what is left of a message is read, so a
\* read has failed before or a signal has come.
LEMMA ReceiveNothing ==
  ASSUME IInv, pc = "receive", ReadNothing, mode = "data", pc' = IF GoesOn THEN pc ELSE "send",
         UNCHANGED <<mode, sig, todo, request, times, gone, asked, list, handled>>
  PROVE  IInv'
<1>1. Types /\ RequestsOK /\ AnswersOK /\ NothingWrong
  BY DEF IInv
<1>2. ~NoneLate
  BY <1>1 DEF AnswersOK, ReadNothing, Types, TypeOK
<1>3. /\ answers' \in Seq(Messages) /\ rest' \in 0 .. MaxRest /\ failures' = failures
  BY <1>1, AnyRead DEF ReadNothing, Types, TypeOK
<1>4. Types'
  BY <1>1, <1>3 DEF Types, TypeOK
<1>5. RequestsOK' /\ NothingWrong'
  BY <1>1, <1>3 DEF RequestsOK, NothingWrong
<1>6. request # NoRequest /\ request.kind = "data"
  BY <1>1, Requested DEF RequestsOK
<1>7. ~NoneLate' /\ ~Calm'
  BY <1>2, <1>3, <1>6 DEF NoneLate, Calm, GoesOn
<1>8. AnswersOK' /\ PacketsOK' /\ ListOK'
  BY <1>7 DEF AnswersOK, PacketsOK, ListOK
<1>9. UnreadOK'
  BY ReceiveUnread
<1> QED
  BY <1>4, <1>5, <1>8, <1>9 DEF IInv

\* A packet that was asked for is handled.
LEMMA ReceivePacket ==
  ASSUME IInv, pc = "receive", Read, ~EndsAnswer, mode = "data", GoesOn, Handle,
         UNCHANGED <<mode, sig, todo, request, times, gone, asked, list, pc>>
  PROVE  IInv'
<1>1. Types /\ RequestsOK /\ AnswersOK /\ NothingWrong /\ PacketsOK /\ ListOK
  BY DEF IInv
<1>2. /\ answers \in Seq(Messages) /\ answers # <<>> /\ answers' = Tail(answers) /\ failures' = failures
      /\ rest = 0 /\ rest' = 0
  BY <1>1 DEF Read, Types
<1>3. /\ answers' \in Seq(Messages) /\ Head(answers) = answers[1]
      /\ Len(answers) \in Nat /\ Len(answers) >= 1 /\ Len(answers') = Len(answers) - 1
      /\ \A i \in 1 .. Len(answers') : answers'[i] = answers[i + 1]
      /\ Closed(answers) => Closed(answers')
  BY <1>2, ReadFacts
<1>4. message = answers[1] /\ message.n # 0
  BY <1>3 DEF message, EndsAnswer, IsReady
<1>5. /\ \A i \in 1 .. Len(answers') : i + 1 \in 1 .. Len(answers)
      /\ \A i \in 1 .. Len(answers) : i = 1 \/ (i - 1 \in 1 .. Len(answers') /\ (i - 1) + 1 = i)
      /\ 1 \in 1 .. Len(answers)
  BY <1>3
<1>6. Types'
  BY <1>1, <1>2, <1>3 DEF Types, TypeOK
<1>7. RequestsOK' /\ NothingWrong' /\ ListOK'
  BY <1>1, <1>2 DEF RequestsOK, NothingWrong, ListOK
<1>10. UnreadOK'
  BY ReceiveUnread
<1>8. AnswersOK'
  <2> SUFFICES ASSUME NoneLate'
               PROVE  Closed(answers') /\ \A i \in 1 .. Len(answers') : answers'[i].to = request
    BY <1>2 DEF AnswersOK
  <2>1. NoneLate
    BY <1>2 DEF NoneLate, GoesOn
  <2> QED
    BY <1>1, <1>3, <1>5, <2>1 DEF AnswersOK
<1>9. PacketsOK'
  <2> SUFFICES ASSUME Calm' PROVE asked = handled' \cup Coming'
    BY DEF PacketsOK
  <2>1. Calm /\ NoneLate
    BY <1>2 DEF Calm, NoneLate, GoesOn
  <2>2. asked = handled \cup Coming
    BY <1>1, <2>1 DEF PacketsOK
  <2>3. message.to = request
    BY <1>1, <1>4, <1>5, <2>1 DEF AnswersOK
  <2>4. handled' = handled \cup {message}
    BY <2>3 DEF Handle, IsForRequest
  <2>5. Coming = {message} \cup Coming'
    <3> DEFINE q == answers
               t == answers'
    <3>1. \A m : (\E i \in 1 .. Len(q) : m = q[i]) <=> m = q[1] \/ (\E i \in 1 .. Len(t) : m = t[i])
      <4>1. ASSUME NEW m, NEW i \in 1 .. Len(q), m = q[i]
            PROVE  m = q[1] \/ (\E j \in 1 .. Len(t) : m = t[j])
        <5>1. CASE i = 1
          BY <4>1, <5>1
        <5>2. CASE i # 1
          <6>1. i - 1 \in 1 .. Len(t) /\ (i - 1) + 1 = i
            BY <1>5, <5>2
          <6> QED
            BY <1>3, <4>1, <6>1
        <5> QED
          BY <5>1, <5>2
      <4>2. \A j \in 1 .. Len(t) : t[j] = q[j + 1] /\ j + 1 \in 1 .. Len(q)
        BY <1>3, <1>5
      <4>3. 1 \in 1 .. Len(q)
        BY <1>5
      <4> QED
        BY <4>1, <4>2, <4>3
    <3>2. ASSUME NEW m
          PROVE  /\ m \in Coming <=> m.n # 0 /\ \E i \in 1 .. Len(q) : m = q[i]
                 /\ m \in Coming' <=> m.n # 0 /\ \E i \in 1 .. Len(t) : m = t[i]
      BY DEF Coming
    <3> HIDE DEF q, t
    <3>3. \A m : m \in Coming <=> m \in {message} \cup Coming'
      BY <1>4, <3>1, <3>2 DEF q
    <3> QED
      BY <3>3
  <2> QED
    BY <2>2, <2>4, <2>5
<1> QED
  BY <1>6, <1>7, <1>8, <1>9, <1>10 DEF IInv

\* What the message says of a channel.
LEMMA UnderstoodFacts ==
  ASSUME list \in [Keys -> Known], NEW k \in Keys,
         message.to.kind \in {"channels", "precis", "info"}
  PROVE  LET mine == message.to.key \in {NoKey, k}
             kind == message.to.kind
             l == list[k]
         IN  /\ Understood(k) \in Known
             /\ Understood(k).listed = IF mine /\ kind = "channels" THEN TRUE ELSE l.listed
             /\ Understood(k).times = IF mine /\ kind = "precis" /\ l.listed THEN "right" ELSE l.times
             /\ Understood(k).network = IF mine /\ kind = "info" /\ l.listed THEN "right" ELSE l.network
<1> DEFINE mine == message.to.key \in {NoKey, k}
           kind == message.to.kind
           l == list[k]
<1>1. l \in Known
  OBVIOUS
<1>2. CASE ~mine
  BY <1>1, <1>2 DEF Understood
<1>3. CASE mine /\ kind = "channels"
  <2>1. Understood(k) = [l EXCEPT !.listed = TRUE]
    BY <1>3 DEF Understood
  <2> HIDE DEF mine, kind, l
  <2> QED
    BY <1>1, <1>3, <2>1 DEF Known, mine, kind, l
<1>4. CASE mine /\ kind # "channels" /\ ~l.listed
  BY <1>1, <1>4 DEF Understood
<1>5. CASE mine /\ kind = "precis" /\ l.listed
  <2>1. Field(message.to.kind) = "times"
    BY <1>5 DEF Field
  <2>2. Understood(k) = [l EXCEPT !.times = "right"]
    BY <1>5, <2>1 DEF Understood
  <2> HIDE DEF mine, kind, l
  <2> QED
    BY <1>1, <1>5, <2>2 DEF Known, mine, kind, l
<1>6. CASE mine /\ kind = "info" /\ l.listed
  <2>1. Field(message.to.kind) = "network"
    BY <1>6 DEF Field
  <2>2. Understood(k) = [l EXCEPT !.network = "right"]
    BY <1>6, <2>1 DEF Understood
  <2> HIDE DEF mine, kind, l
  <2> QED
    BY <1>1, <1>6, <2>2 DEF Known, mine, kind, l
<1> QED
  BY <1>2, <1>3, <1>4, <1>5, <1>6

\* What is not the answer is taken for it, after a read that failed.
LEMMA ReceiveWrong ==
  ASSUME IInv, pc = "receive", mode # "data", Misunderstand,
         ReadNothing \/ (Read /\ ~EndsAnswer /\ message.to.kind # request.kind),
         UNCHANGED <<mode, sig, todo, request, times, gone, asked, handled>>
  PROVE  IInv'
<1>1. Types /\ RequestsOK /\ AnswersOK
  BY DEF IInv
<1>2. /\ request # NoRequest /\ request.kind \in {"channels", "precis", "info"}
  BY <1>1, Requested
<1>3. ~NoneLate
  <2>1. CASE ReadNothing
    BY <1>1, <2>1 DEF AnswersOK, ReadNothing, Types, TypeOK
  <2>2. CASE Read /\ message.to.kind # request.kind
    <3>1. answers \in Seq(Messages) /\ answers # <<>>
      BY <1>1, <2>2 DEF Read, Types
    <3>2. message = answers[1] /\ 1 \in 1 .. Len(answers)
      BY <3>1, ReadFacts DEF message
    <3> QED
      BY <1>1, <2>2, <3>2 DEF AnswersOK
  <2> QED
    BY <2>1, <2>2
<1>4. failures # 0 /\ request.kind \in {"precis", "info"}
  BY <1>2, <1>3 DEF NoneLate, GoesOn
<1>5. answers' \in Seq(Messages) /\ rest' \in 0 .. MaxRest /\ failures' = failures
  <2>1. ~ReadFails
    BY <1>1 DEF ReadFails, ReadNothing, Read, Types, TypeOK
  <2> QED
    BY <1>1, <2>1, AnyRead
<1>6. list' \in [Keys -> Known] /\ pc' \in {"receive", "crashed"}
  <2>1. CASE UNCHANGED list /\ pc' = "crashed"
    BY <1>1, <2>1 DEF Types, TypeOK
  <2>2. CASE UNCHANGED pc
    <3>1. PICK ks \in SUBSET {k \in Keys : list[k].listed} :
            list' = [k \in Keys |->
              IF k \in ks THEN [list[k] EXCEPT ![Field(request.kind)] = "wrong"] ELSE list[k]]
      BY <2>2 DEF Misunderstand
    <3>2. ASSUME NEW k \in Keys
          PROVE  [list[k] EXCEPT ![Field(request.kind)] = "wrong"] \in Known
      <4> DEFINE l == list[k]
      <4>1. l \in Known
        BY <1>1 DEF Types, TypeOK
      <4> HIDE DEF l
      <4>2. CASE request.kind = "precis"
        <5>1. Field(request.kind) = "times"
          BY <4>2 DEF Field
        <5>2. [l EXCEPT !.times = "wrong"] \in Known
          BY <4>1 DEF Known
        <5> QED
          BY <5>1, <5>2 DEF l
      <4>3. CASE request.kind = "info"
        <5>1. Field(request.kind) = "network"
          BY <4>3 DEF Field
        <5>2. [l EXCEPT !.network = "wrong"] \in Known
          BY <4>1 DEF Known
        <5> QED
          BY <5>1, <5>2 DEF l
      <4> QED
        BY <1>4, <4>2, <4>3
    <3> QED
      BY <1>1, <2>2, <3>1, <3>2 DEF Types, TypeOK
  <2> QED
    BY <2>1, <2>2 DEF Misunderstand
<1>7. Types'
  BY <1>1, <1>5, <1>6 DEF Types, TypeOK
<1>8. sent' = sent
  BY DEF sent
<1>9. RequestsOK'
  BY <1>1, <1>6, <1>8 DEF RequestsOK
<1>10. AnswersOK'
  BY <1>2, <1>4, <1>5 DEF AnswersOK, NoneLate
<1>11. NothingWrong' /\ PacketsOK' /\ ListOK'
  BY <1>4, <1>5 DEF NothingWrong, PacketsOK, ListOK, Calm
<1>12. UnreadOK'
  BY <1>6, ReceiveUnread
<1> QED
  BY <1>7, <1>9, <1>10, <1>11, <1>12 DEF IInv

\* A message of nmxp_getMetaChannelList() is understood.
LEMMA ReceiveItem ==
  ASSUME IInv, pc = "receive", Read, ~EndsAnswer, mode # "data",
         message.to.kind = request.kind, list' = [k \in Keys |-> Understood(k)],
         UNCHANGED <<mode, sig, todo, request, times, gone, asked, handled, pc>>
  PROVE  IInv'
<1>1. Types /\ RequestsOK /\ AnswersOK /\ NothingWrong /\ PacketsOK /\ ListOK
  BY DEF IInv
<1>2. /\ answers \in Seq(Messages) /\ answers # <<>> /\ answers' = Tail(answers) /\ failures' = failures
      /\ rest = 0 /\ rest' = 0
  BY <1>1 DEF Read, Types
<1>3. /\ answers' \in Seq(Messages) /\ Head(answers) = answers[1] /\ answers[1] \in Messages
      /\ Len(answers) \in Nat /\ Len(answers) >= 1 /\ Len(answers') = Len(answers) - 1
      /\ \A i \in 1 .. Len(answers') : answers'[i] = answers[i + 1]
      /\ Closed(answers) => Closed(answers')
  BY <1>2, ReadFacts
<1>4. message = answers[1] /\ message.n # 0 /\ message \in Messages
  BY <1>3 DEF message, EndsAnswer, IsReady
<1>5. 1 \in 1 .. Len(answers) /\ \A i \in 1 .. Len(answers') : i + 1 \in 1 .. Len(answers)
  BY <1>3
<1>6. /\ sent \in 1 .. Len(MetaRequests) /\ request = MetaRequests[sent]
      /\ request.kind \in {"channels", "precis", "info"}
  BY <1>1, Requested
<1>7. NoneLate => message.to = request /\ Closed(answers)
  BY <1>1, <1>4, <1>5 DEF AnswersOK
<1>8. list \in [Keys -> Known]
  BY <1>1 DEF Types, TypeOK
<1>9. \A k \in Keys : list'[k] = Understood(k) /\ Understood(k) \in Known
  BY <1>6, <1>8, UnderstoodFacts
<1>10. list' \in [Keys -> Known]
  BY <1>9
<1>11. Types'
  BY <1>1, <1>2, <1>3, <1>10 DEF Types, TypeOK
<1>12. sent' = sent
  BY DEF sent
<1>13. RequestsOK'
  BY <1>1, <1>12 DEF RequestsOK
<1>14. PacketsOK'
  BY DEF PacketsOK
<1>15. AnswersOK'
  <2> SUFFICES ASSUME NoneLate'
               PROVE  Closed(answers') /\ \A i \in 1 .. Len(answers') : answers'[i].to = request
    BY <1>2 DEF AnswersOK
  <2>1. NoneLate
    BY <1>2 DEF NoneLate, GoesOn
  <2> QED
    BY <1>1, <1>3, <1>5, <2>1 DEF AnswersOK
<1>16. ASSUME failures = 0
       PROVE  /\ message.to = request /\ Closed(answers)
              /\ \A k \in Keys :
                   LET mine == request.key \in {NoKey, k}
                       kind == request.kind
                       l == list[k]
                   IN  /\ list'[k].listed = IF mine /\ kind = "channels" THEN TRUE ELSE l.listed
                       /\ list'[k].times = IF mine /\ kind = "precis" /\ l.listed THEN "right" ELSE l.times
                       /\ list'[k].network = IF mine /\ kind = "info" /\ l.listed THEN "right" ELSE l.network
  <2>1. NoneLate
    BY <1>16 DEF NoneLate, GoesOn
  <2>2. message.to = request /\ Closed(answers)
    BY <1>7, <2>1
  <2>3. \A k \in Keys : list'[k] = Understood(k)
    BY <1>9
  <2> QED
    BY <1>6, <1>8, <2>2, <2>3, UnderstoodFacts
<1>17. NothingWrong'
  <2> SUFFICES ASSUME failures = 0, NEW k \in Keys
               PROVE  list'[k].times # "wrong" /\ list'[k].network # "wrong"
    BY <1>2 DEF NothingWrong
  <2>1. list[k].times # "wrong" /\ list[k].network # "wrong"
    BY <1>1 DEF NothingWrong
  <2> QED
    BY <1>16, <2>1
<1>18. ListOK'
  <2> SUFFICES ASSUME mode = "meta", Calm
               PROVE  /\ Len(answers') = 1
                      /\ \A k \in Keys :
                           /\ list'[k].listed = (understood' >= 1)
                           /\ list'[k].times = IF understood' >= 2 THEN "right" ELSE "none"
                           /\ list'[k].network = IF k \in WithInfo /\ InfoUnderstood(k)' THEN "right" ELSE "none"
    BY <1>2 DEF ListOK, Calm
  <2>1. failures = 0 /\ Len(answers) \in {1, 2}
    BY <1>1 DEF ListOK, Calm
  <2>2. Len(answers) # 1
    BY <1>4, <1>5, <1>16, <2>1 DEF Closed
  <2>3. Len(answers) = 2 /\ Len(answers') = 1
    BY <1>3, <2>1, <2>2
  <2>4. understood = sent - 1 /\ understood' = sent
    BY <1>12, <2>3 DEF understood
  <2> DEFINE m == sent
  <2>5. /\ understood = m - 1 /\ understood' = m /\ m \in Nat /\ m >= 1 /\ m \in 1 .. (Len(Channels) + 2)
        /\ request = MetaRequests[m]
    BY <1>6, <2>4, MetaFacts, Given
  <2> HIDE DEF m
  <2>6. m = 1 \/ m = 2 \/ m \in 3 .. (Len(Channels) + 2)
    BY <2>5, Given
  <2>7. ASSUME NEW k \in Keys
        PROVE  /\ list[k].listed = (m - 1 >= 1)
               /\ list[k].times = IF m - 1 >= 2 THEN "right" ELSE "none"
               /\ list[k].network =
                    IF k \in WithInfo /\ (\E j \in 1 .. Len(Channels) : Channels[j] = k /\ j + 2 <= m - 1)
                    THEN "right" ELSE "none"
    BY <1>1, <2>5 DEF ListOK, InfoUnderstood
  <2>8. ASSUME NEW k \in Keys
        PROVE  /\ list'[k].listed = (m >= 1)
               /\ list'[k].times = IF m >= 2 THEN "right" ELSE "none"
               /\ list'[k].network =
                    IF k \in WithInfo /\ (\E j \in 1 .. Len(Channels) : Channels[j] = k /\ j + 2 <= m)
                    THEN "right" ELSE "none"
    <3>1. CASE m = 1
      <4>1. request.key = NoKey /\ request.kind = "channels"
        BY <2>5, <3>1, MetaFacts DEF Request
      <4>2. \A j \in 1 .. Len(Channels) : ~(j + 2 <= m - 1) /\ ~(j + 2 <= m)
        BY <3>1
      <4>3. list'[k].listed = TRUE /\ list'[k].times = list[k].times /\ list'[k].network = list[k].network
        BY <1>16, <2>1, <4>1
      <4>4. ~(m - 1 >= 2) /\ m >= 1 /\ ~(m >= 2)
        BY <3>1
      <4> QED
        BY <2>7, <4>2, <4>3, <4>4
    <3>2. CASE m = 2
      <4>1. request.key = NoKey /\ request.kind = "precis"
        BY <2>5, <3>2, MetaFacts DEF Request
      <4>2. \A j \in 1 .. Len(Channels) : ~(j + 2 <= m - 1) /\ ~(j + 2 <= m)
        BY <3>2
      <4>3. /\ list'[k].listed = list[k].listed /\ list'[k].network = list[k].network
              /\ list'[k].times = IF list[k].listed THEN "right" ELSE list[k].times
        BY <1>16, <2>1, <4>1
      <4>4. ~(m - 1 >= 2) /\ m - 1 >= 1 /\ m >= 1 /\ m >= 2
        BY <3>2
      <4> QED
        BY <2>7, <4>2, <4>3, <4>4
    <3>3. CASE m \in 3 .. (Len(Channels) + 2)
      <4> DEFINE i == m - 2
                 c == Channels[i]
      <4>1. i \in 1 .. Len(Channels) /\ i + 2 = m
        BY ONLY <2>5, <3>3, Given
      <4>2. request = Request("info", c, 0) /\ c \in Keys
        BY <2>5, <3>3, <4>1, MetaFacts, KeyIndex
      <4>3. request.key = c /\ request.kind = "info" /\ c # NoKey
        BY <4>2, Given DEF Request
      <4>4. m - 1 >= 1 /\ m - 1 >= 2 /\ m >= 1 /\ m >= 2
        BY <2>5, <3>3
      <4>5. list[k].listed
        BY <2>7, <4>4
      <4>6. /\ list'[k].listed = list[k].listed /\ list'[k].times = list[k].times
            /\ list'[k].network = IF k = c THEN "right" ELSE list[k].network
        BY <1>16, <2>1, <4>3, <4>5
      <4>7. ASSUME NEW j \in 1 .. Len(Channels)
            PROVE  j + 2 <= m <=> j + 2 <= m - 1 \/ j = i
        BY <2>5
      <4> HIDE DEF i
      <4>8. CASE k = c
        <5>1. i + 2 <= m
          BY <2>5, <4>1
        <5>2. c \in WithInfo
          BY <1>1, <4>3, <4>8 DEF RequestsOK
        <5> QED
          BY <2>7, <4>1, <4>4, <4>6, <4>8, <5>1, <5>2
      <4>9. CASE k # c
        BY <2>7, <4>4, <4>6, <4>7, <4>9
      <4> QED
        BY <4>8, <4>9
    <3> QED
      BY <2>6, <3>1, <3>2, <3>3
  <2> QED
    BY <2>3, <2>5, <2>8 DEF InfoUnderstood
<1>19. UnreadOK'
  BY ReceiveUnread
<1> QED
  BY <1>11, <1>13, <1>14, <1>15, <1>17, <1>18, <1>19 DEF IInv

LEMMA ReceiveKeeps == ASSUME IInv, Receive PROVE IInv'
<1>1. pc = "receive" /\ UNCHANGED <<mode, sig, todo, request, times, gone, asked>>
  BY DEF Receive
<1>2. CASE /\ Read
           /\ EndsAnswer \/ ~GoesOn
           /\ pc' = "send"
           /\ UNCHANGED <<list, handled>>
  BY <1>1, <1>2, ReceiveEnd
<1>3. CASE /\ Read
           /\ ~EndsAnswer /\ GoesOn
           /\ IF mode = "data" THEN Handle /\ UNCHANGED <<list, pc>>
                               ELSE Understand /\ UNCHANGED handled
  <2>1. CASE mode = "data"
    BY <1>1, <1>3, <2>1, ReceivePacket
  <2>2. CASE mode # "data"
    <3>1. CASE message.to.kind = request.kind
      BY <1>1, <1>3, <2>2, <3>1, ReceiveItem DEF Understand
    <3>2. CASE message.to.kind # request.kind
      BY <1>1, <1>3, <2>2, <3>2, ReceiveWrong DEF Understand
    <3> QED
      BY <3>1, <3>2
  <2> QED
    BY <2>1, <2>2
<1>4. CASE /\ ReadFails
           /\ pc' = "send"
           /\ UNCHANGED <<list, handled>>
  BY <1>1, <1>4, ReceiveFails
<1>5. CASE /\ ReadNothing
           /\ UNCHANGED handled
           /\ \/ mode # "data" /\ Misunderstand
              \/ mode = "data" /\ UNCHANGED list /\ pc' = IF GoesOn THEN pc ELSE "send"
  BY <1>1, <1>5, ReceiveWrong, ReceiveNothing
<1> QED
  BY <1>2, <1>3, <1>4, <1>5 DEF Receive

-----------------------------------------------------------------------------
LEMMA InitIInv == Init => IInv
<1> SUFFICES ASSUME Init PROVE IInv
  OBVIOUS
<1>1. /\ mode \in {"meta", "data", "list"} /\ pc = "open" /\ todo = FirstRequests
      /\ request = NoRequest /\ times = 0 /\ answers = <<>> /\ gone = FALSE /\ sig = FALSE /\ failures = 0
      /\ rest = 0
      /\ list = [k \in Keys |-> [listed |-> FALSE, times |-> "none", network |-> "none"]]
      /\ handled = {} /\ asked = {}
  BY DEF Init
<1>2. todo \in Seq(Requests) /\ (mode = "data" => \A i \in 1 .. Len(todo) : todo[i].kind = "data")
  <2>1. CASE mode = "data"
    <3> DEFINE r(i) == Request("data", Channels[i], 1)
    <3>1. \A i \in 1 .. Len(Channels) : r(i) \in Requests /\ r(i).kind = "data"
      BY KeyIndex DEF Request, Requests, Kinds
    <3>2. todo = [i \in 1 .. Len(Channels) |-> r(i)] /\ Len(Channels) \in Nat
      BY <1>1, <2>1, Given DEF FirstRequests, DataRequests
    <3> HIDE DEF r
    <3> QED
      BY <3>1, <3>2
  <2>2. CASE mode # "data"
    BY <1>1, <2>2, MetaFacts DEF FirstRequests
  <2> QED
    BY <2>1, <2>2
<1>3. NoRequest \in Requests /\ NoRequest.kind = "none"
  BY DEF NoRequest, Request, Requests, Kinds
<1>4. \A k \in Keys : list[k] \in Known /\ list[k].listed = FALSE /\ list[k].times = "none" /\ list[k].network = "none"
  BY <1>1 DEF Known
<1>5. Types
  <2>1. list \in [Keys -> Known]
    BY <1>1, <1>4
  <2> QED
    <3>1. answers \in Seq(Messages) /\ rest \in 0 .. MaxRest /\ failures \in Nat
      BY <1>1, EmptySeq, Given
    <3>2. TypeOK
      BY <1>1, <2>1, <3>1 DEF TypeOK
    <3> QED
      BY <1>1, <1>2, <1>3, <3>1, <3>2 DEF Types
<1>6. mode # "data" => todo = MetaRequests /\ sent = 0
  <2>1. Len(MetaRequests) \in Nat
    BY MetaFacts, Given
  <2> QED
    BY <1>1, <2>1 DEF FirstRequests, sent
<1>7. RequestsOK
  <2>1. \A i \in 1 .. Len(MetaRequests) : 0 + i = i
    OBVIOUS
  <2>2. 0 \in 0 .. Len(MetaRequests)
    BY MetaFacts, Given
  <2> QED
    BY <1>1, <1>2, <1>3, <1>6, <2>1, <2>2 DEF RequestsOK
<1>8. AnswersOK /\ NothingWrong /\ PacketsOK /\ UnreadOK
  BY <1>1, <1>4 DEF AnswersOK, NothingWrong, PacketsOK, UnreadOK
<1>9. ListOK
  <2>1. mode = "meta" => understood = 0
    BY <1>1, <1>6 DEF understood
  <2>2. mode = "meta" => \A k \in Keys : ~InfoUnderstood(k)
    BY <2>1 DEF InfoUnderstood
  <2>3. (0 >= 1) = FALSE /\ ~(0 >= 2)
    OBVIOUS
  <2> QED
    BY <1>1, <1>4, <2>1, <2>2, <2>3 DEF ListOK
<1> QED
  BY <1>5, <1>7, <1>8, <1>9 DEF IInv

LEMMA NextIInv == IInv /\ [Next]_vars => IInv'
<1> SUFFICES ASSUME IInv, [Next]_vars PROVE IInv'
  OBVIOUS
<1>1. CASE Leave
  BY <1>1, DisturbKeeps DEF Leave
<1>2. CASE Signal
  BY <1>2, DisturbKeeps DEF Signal, server
<1>3. CASE UNCHANGED vars
  BY <1>3, DisturbKeeps DEF vars, server
<1>4. CASE Client
  BY <1>4, OpenSocketKeeps, LoginKeeps, SendConnectKeeps, WaitReadyKeeps, ReceiveListKeeps,
     SendKeeps, SkipKeeps, ReceiveKeeps, NextPhaseKeeps, PcKeeps, KeepAliveKeeps DEF Client
<1> QED
  BY <1>1, <1>2, <1>3, <1>4 DEF Next

\* What is sent, what comes and what has been understood stay in step until a read
\* fails, and then at most one answer more is unread for each read that failed,
\* whatever the server and the signals do.
THEOREM InductiveInvariant == Spec => []IInv
BY InitIInv, NextIInv, PTL DEF Spec

\* Every variable keeps its type, also when a late answer, or the middle of a
\* message, is taken for the answer.
THEOREM TypeCorrect == Spec => []TypeOK
<1>1. IInv => TypeOK
  BY DEF IInv, Types
<1> QED
  BY <1>1, InductiveInvariant, PTL

\* Until a read fails, by a time-out or by a signal that interrupts it, nothing of
\* an answer is left when the next request is sent, and nothing is taken for the
\* answer to another request.
THEOREM StaysInStep == Spec => []InStep
<1>1. IInv => InStep
  <2> SUFFICES ASSUME IInv, failures = 0
               PROVE  /\ pc \in {"send", "sleep"} /\ GoesOn => answers = <<>> /\ rest = 0
                      /\ \A k \in Keys : "wrong" \notin {list[k].times, list[k].network}
    BY DEF InStep
  <2>1. pc \in {"send", "sleep"} /\ GoesOn => answers = <<>> /\ rest = 0
    BY DEF IInv, AnswersOK, NoneLate
  <2>2. \A k \in Keys : "wrong" \notin {list[k].times, list[k].network}
    BY DEF IInv, NothingWrong
  <2> QED
    BY <2>1, <2>2
<1> QED
  BY <1>1, InductiveInvariant, PTL

\* When a request is sent no more answers are unread than reads have failed, however
\* many failed, and wherever in a message.
THEOREM FallsBehindByFailures == Spec => []FewUnread
<1>1. IInv => FewUnread
  BY DEF IInv, UnreadOK, FewUnread
<1> QED
  BY <1>1, InductiveInvariant, PTL

\* A conversation that nothing disturbed has learned all that was asked for, and
\* handled all packets.
THEOREM Completes == Spec => []Complete
<1>1. IInv => Complete
  <2> SUFFICES ASSUME IInv, pc = "done", Calm
               PROVE  /\ mode = "meta" => \A k \in Keys :
                           list[k] = [listed |-> TRUE, times |-> "right",
                                      network |-> IF k \in WithInfo THEN "right" ELSE "none"]
                      /\ mode = "data" => handled = asked
    BY DEF Complete, Calm
  <2>1. mode = "data" => handled = asked
    BY DEF IInv, PacketsOK
  <2>2. ASSUME mode = "meta", NEW k \in Keys
        PROVE  list[k] = [listed |-> TRUE, times |-> "right",
                          network |-> IF k \in WithInfo THEN "right" ELSE "none"]
    <3>1. todo = <<>> /\ understood = sent
      BY <2>2 DEF IInv, ListOK, understood
    <3>2. understood = Len(Channels) + 2 /\ Len(Channels) \in Nat
      BY <3>1, MetaFacts, Given, EmptySeq DEF sent
    <3>3. understood >= 1 /\ understood >= 2
      BY <3>2
    <3>4. InfoUnderstood(k)
      <4>1. \A j \in 1 .. Len(Channels) : j + 2 <= understood
        BY <3>2
      <4> QED
        BY <4>1, KeyIndex DEF InfoUnderstood
    <3>5. /\ list[k].listed = TRUE /\ list[k].times = "right"
          /\ list[k].network = IF k \in WithInfo THEN "right" ELSE "none"
      BY <2>2, <3>3, <3>4 DEF IInv, ListOK
    <3>6. list[k] \in Known
      BY DEF IInv, Types, TypeOK
    <3> QED
      BY <3>5, <3>6 DEF Known
  <2> QED
    BY <2>1, <2>2
<1> QED
  BY <1>1, InductiveInvariant, PTL
=============================================================================
