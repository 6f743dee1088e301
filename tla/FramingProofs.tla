----------------------------- MODULE FramingProofs -----------------------------
(***************************************************************************)
(* What Framing guarantees for every kind of message, every number of      *)
(* messages, every size of the buffer and every time-out.                  *)
(***************************************************************************)
EXTENDS Framing, SequenceTheorems, TLAPS

ByteSet == Nat \X Nat

\* What the reader has not finished with: the bytes it has got and those that
\* are still in the stream.
Rest == buffer \o stream

Length(k) == HeaderLength + sent[k].length

\* The bytes are bytes of messages that were sent.
BytesSent ==
  \A i \in 1 .. Len(Rest) :
    /\ Rest[i][1] \in 1 .. Len(sent)
    /\ Rest[i][2] \in 1 .. Length(Rest[i][1])

\* They are in the order of the messages, and where a message is cut only its
\* beginning is missing.
InOrder ==
  \A i, j \in 1 .. Len(Rest) :
    i < j =>
      /\ Rest[i][1] <= Rest[j][1]
      /\ Rest[i][1] = Rest[j][1] => Rest[j][2] = Rest[i][2] + (j - i)

EndsFollow ==
  \A i \in 1 .. Len(Rest) : \A q \in Rest[i][2] .. Length(Rest[i][1]) :
    LET j == i + (q - Rest[i][2])
    IN j \in 1 .. Len(Rest) /\ Rest[j] = <<Rest[i][1], q>>

\* After the end of a message comes the beginning of one.
StartsFollow ==
  \A i \in 1 .. (Len(Rest) - 1) :
    Rest[i][2] = Length(Rest[i][1]) => Rest[i + 1][2] = 1

StreamOK == BytesSent /\ InOrder /\ EndsFollow /\ StartsFollow

\* A body is read from its beginning on.
BodyNext == pc = "body" => Rest # <<>> /\ Rest[1] = <<head, HeaderLength + 1>>

\* What was handed on is a body that was sent, and nothing of that message or
\* of an earlier one is left.
HandedOK ==
  /\ handed # <<>> =>
       /\ LastHanded \in DOMAIN sent
       /\ handed[Len(handed)] = Body(LastHanded)
  /\ \A i \in 1 .. Len(Rest) : Rest[i][1] > LastHanded

\* Until a message is left before its end the reader is in step, and the data
\* messages of which no byte is left became packets.
InStep ==
  ~faulted =>
    /\ pc = "header" /\ Rest # <<>> => Rest[1][2] = 1
    /\ pc # "closed" =>
         \A k \in DOMAIN sent :
           sent[k].data /\ head # k /\ (\A i \in 1 .. Len(Rest) : Rest[i][1] # k) =>
             Body(k) \in Bodies

HeaderLimit == IF timeoutrecv > 0 THEN timeoutrecv ELSE HighestTimeout

\* Every byte that has been got took one recv() at most.
TimeOK ==
  /\ pc = "header" => quiet < Watchdog + Len(buffer) * HeaderLimit + wait
  /\ pc = "body" => quiet < Watchdog + HeaderLength * HeaderLimit
                              + Len(buffer) * HighestTimeout + wait

SeqsOK ==
  /\ stream \in Seq(ByteSet)
  /\ buffer \in Seq(ByteSet)
  /\ handed \in Seq(Seq(ByteSet))
  /\ pc = "closed" => buffer = <<>>

\* The inductive invariant.
IInv ==
  /\ TypeOK
  /\ SeqsOK
  /\ StreamOK
  /\ BodyNext
  /\ HandedOK
  /\ InStep
  /\ TimeOK

-----------------------------------------------------------------------------
\* What is assumed of the constants.
LEMMA Constants ==
  /\ HighestTimeout \in Nat /\ HighestTimeout >= 1
  /\ Watchdog \in Nat /\ Watchdog >= 1
  /\ BufferLength \in Nat
  /\ HeaderLength \in Nat /\ HeaderLength >= 1
  /\ RecvTimeouts \subseteq Nat
BY TimeAssumption, BufferAssumption, HeaderAssumption
   DEF TimeAssumption, BufferAssumption, HeaderAssumption

\* Every message sent has a length, and a data message has a body.
LEMMA KindFacts ==
  ASSUME NEW kind \in Kinds
  PROVE  kind.length \in Nat /\ kind.data \in BOOLEAN /\ (kind.data => kind.length > 0)
BY KindsAssumption DEF KindsAssumption

LEMMA SentFacts ==
  ASSUME TypeOK, NEW k \in DOMAIN sent
  PROVE  /\ sent[k] \in Kinds /\ k \in Nat /\ k >= 1 /\ k <= Len(sent)
         /\ sent[k].length \in Nat /\ (sent[k].data => sent[k].length > 0)
<1>1. sent \in Seq(Kinds)
  BY DEF TypeOK
<1>2. sent[k] \in Kinds /\ k \in 1 .. Len(sent)
  BY <1>1
<1> QED
  BY <1>2, <1>1, KindFacts

\* The reader knows how many bytes it needs and how long it may wait.
LEMMA Limits ==
  ASSUME TypeOK
  PROVE  /\ HeaderLimit \in Nat /\ HeaderLimit >= 1
         /\ Limit \in Nat /\ Limit >= 1
         /\ pc = "header" => Limit = HeaderLimit /\ Needed = HeaderLength
         /\ pc = "body" => /\ Limit = HighestTimeout /\ Needed = sent[head].length
                           /\ head \in DOMAIN sent
                           /\ sent[head].length \in 1 .. BufferLength
         /\ pc # "closed" => Needed \in Nat
<1>1. timeoutrecv \in Nat
  BY Constants DEF TypeOK
<1>2. pc = "body" => head \in DOMAIN sent /\ sent[head].length \in 1 .. BufferLength
  BY DEF TypeOK
<1>3. pc \in {"header", "body", "closed"}
  BY DEF TypeOK
<1> QED
  BY <1>1, <1>2, <1>3, Constants DEF HeaderLimit, Limit, Needed

\* The bytes not finished with are those of the buffer and those behind.
LEMMA RestFacts ==
  ASSUME SeqsOK
  PROVE  /\ Rest \in Seq(ByteSet)
         /\ Len(buffer) \in Nat /\ Len(stream) \in Nat
         /\ Len(Rest) = Len(buffer) + Len(stream)
         /\ \A i \in 1 .. Len(buffer) : Rest[i] = buffer[i]
         /\ \A i \in 1 .. Len(stream) : Rest[Len(buffer) + i] = stream[i]
         /\ \A i \in 1 .. Len(Rest) : Rest[i] \in ByteSet
<1>1. buffer \in Seq(ByteSet) /\ stream \in Seq(ByteSet)
  BY DEF SeqsOK
<1>2. /\ Rest \in Seq(ByteSet)
      /\ Len(Rest) = Len(buffer) + Len(stream)
      /\ \A i \in 1 .. (Len(buffer) + Len(stream)) :
           Rest[i] = IF i <= Len(buffer) THEN buffer[i] ELSE stream[i - Len(buffer)]
  BY <1>1, ConcatProperties DEF Rest
<1>3. Len(buffer) \in Nat /\ Len(stream) \in Nat
  BY <1>1
<1>4. \A i \in 1 .. Len(Rest) : Rest[i] \in ByteSet
  BY <1>2, ElementOfSeq
<1>5. \A i \in 1 .. Len(buffer) : Rest[i] = buffer[i]
  BY <1>2, <1>3
<1>6. \A i \in 1 .. Len(stream) : Rest[Len(buffer) + i] = stream[i]
  BY <1>2, <1>3
<1> QED
  BY <1>2, <1>3, <1>4, <1>5, <1>6

\* A sequence without its first n elements.
LEMMA SuffixFacts ==
  ASSUME NEW S, NEW s \in Seq(S), NEW n \in 0 .. Len(s)
  PROVE  /\ SubSeq(s, n + 1, Len(s)) \in Seq(S)
         /\ Len(SubSeq(s, n + 1, Len(s))) = Len(s) - n
         /\ \A i \in 1 .. (Len(s) - n) : SubSeq(s, n + 1, Len(s))[i] = s[n + i]
<1>1. Len(s) \in Nat /\ n \in Nat /\ \A i \in 1 .. Len(s) : s[i] \in S
  OBVIOUS
<1>2. \A i \in n + 1 .. Len(s) : s[i] \in S
  BY <1>1
<1>3. n + 1 \in Int /\ Len(s) \in Int
  BY <1>1
<1> DEFINE t == SubSeq(s, n + 1, Len(s))
<1>4. /\ t \in Seq(S)
      /\ Len(t) = IF n + 1 <= Len(s) THEN Len(s) - (n + 1) + 1 ELSE 0
      /\ \A i \in 1 .. Len(s) - (n + 1) + 1 : t[i] = s[(n + 1) + i - 1]
  BY <1>2, <1>3, SubSeqProperties
<1> HIDE DEF t
<1>5. Len(t) = Len(s) - n
  BY <1>1, <1>4
<1>6. \A i \in 1 .. (Len(s) - n) : t[i] = s[n + i]
  BY <1>1, <1>4
<1> QED
  BY <1>4, <1>5, <1>6 DEF t

\* What a recv() takes from the stream is the beginning of what is left.
LEMMA GotFacts ==
  ASSUME SeqsOK, NEW bytes \in Got,
         stream' = SubSeq(stream, Len(bytes) - Len(buffer) + 1, Len(stream))
  PROVE  /\ bytes \in Seq(ByteSet) /\ stream' \in Seq(ByteSet)
         /\ Len(bytes) \in Len(buffer) + 1 .. Len(Rest) /\ Len(bytes) <= Needed
         /\ Len(stream') = Len(Rest) - Len(bytes)
         /\ \A i \in 1 .. Len(bytes) : bytes[i] = Rest[i]
         /\ \A i \in 1 .. Len(stream') : stream'[i] = Rest[Len(bytes) + i]
<1>1. PICK n \in 1 .. Len(stream) : Len(buffer) + n <= Needed /\ bytes = buffer \o SubSeq(stream, 1, n)
  BY DEF Got
<1>2. /\ buffer \in Seq(ByteSet) /\ stream \in Seq(ByteSet)
      /\ Len(buffer) \in Nat /\ Len(stream) \in Nat /\ n \in Nat
      /\ \A i \in 1 .. Len(stream) : stream[i] \in ByteSet
  BY ElementOfSeq DEF SeqsOK
<1>3. /\ SubSeq(stream, 1, n) \in Seq(ByteSet)
      /\ Len(SubSeq(stream, 1, n)) = n
      /\ \A i \in 1 .. n : SubSeq(stream, 1, n)[i] = stream[i]
  <2>1. \A i \in 1 .. n : stream[i] \in ByteSet
    BY <1>2
  <2> QED
    BY <1>2, <2>1, SubSeqProperties
<1>4. /\ bytes \in Seq(ByteSet) /\ Len(bytes) = Len(buffer) + n
      /\ \A i \in 1 .. (Len(buffer) + n) :
           bytes[i] = IF i <= Len(buffer) THEN buffer[i] ELSE stream[i - Len(buffer)]
  <2>1. /\ bytes \in Seq(ByteSet) /\ Len(bytes) = Len(buffer) + n
        /\ \A i \in 1 .. (Len(buffer) + n) :
             bytes[i] = IF i <= Len(buffer) THEN buffer[i] ELSE SubSeq(stream, 1, n)[i - Len(buffer)]
    BY <1>1, <1>2, <1>3, ConcatProperties
  <2>2. ASSUME NEW i \in 1 .. (Len(buffer) + n), ~(i <= Len(buffer))
        PROVE  i - Len(buffer) \in 1 .. n
    BY <1>2, <2>2
  <2> QED
    BY <1>3, <2>1, <2>2
<1>5. stream' = SubSeq(stream, n + 1, Len(stream))
  BY <1>2, <1>4
<1>6. /\ stream' \in Seq(ByteSet) /\ Len(stream') = Len(stream) - n
      /\ \A i \in 1 .. (Len(stream) - n) : stream'[i] = stream[n + i]
  <2> DEFINE u == SubSeq(stream, n + 1, Len(stream))
  <2>1. n \in 0 .. Len(stream)
    BY <1>2
  <2>2. u \in Seq(ByteSet) /\ Len(u) = Len(stream) - n /\ \A i \in 1 .. (Len(stream) - n) : u[i] = stream[n + i]
    BY <1>2, <2>1, SuffixFacts
  <2> HIDE DEF u
  <2> QED
    BY <1>5, <2>2 DEF u
<1>7. /\ Len(Rest) = Len(buffer) + Len(stream)
      /\ \A i \in 1 .. Len(buffer) : Rest[i] = buffer[i]
      /\ \A i \in 1 .. Len(stream) : Rest[Len(buffer) + i] = stream[i]
  BY RestFacts
<1>8. \A i \in 1 .. Len(bytes) : bytes[i] = Rest[i]
  <2> SUFFICES ASSUME NEW i \in 1 .. Len(bytes) PROVE bytes[i] = Rest[i]
    OBVIOUS
  <2>1. CASE i <= Len(buffer)
    BY <2>1, <1>2, <1>4, <1>7
  <2>2. CASE ~(i <= Len(buffer))
    <3>1. i - Len(buffer) \in 1 .. Len(stream) /\ Len(buffer) + (i - Len(buffer)) = i
      BY <2>2, <1>2, <1>4
    <3>2. Rest[i] = stream[i - Len(buffer)]
      BY <3>1, <1>7
    <3> QED
      BY <2>2, <3>2, <1>2, <1>4
  <2> QED
    BY <2>1, <2>2
<1>9. \A i \in 1 .. Len(stream') : stream'[i] = Rest[Len(bytes) + i]
  <2> SUFFICES ASSUME NEW i \in 1 .. Len(stream') PROVE stream'[i] = Rest[Len(bytes) + i]
    OBVIOUS
  <2>1. n + i \in 1 .. Len(stream) /\ Len(bytes) + i = Len(buffer) + (n + i) /\ i \in 1 .. (Len(stream) - n)
    BY <1>2, <1>4, <1>6
  <2> QED
    BY <2>1, <1>6, <1>7
<1>10. Len(bytes) \in Len(buffer) + 1 .. Len(Rest) /\ Len(bytes) <= Needed
  BY <1>1, <1>2, <1>4, <1>7
<1>11. Len(stream') = Len(Rest) - Len(bytes)
  BY <1>2, <1>4, <1>6, <1>7
<1> QED
  BY <1>4, <1>6, <1>8, <1>9, <1>10, <1>11

\* Once the reader is done with some bytes the rest is as orderly as before.
LEMMA SuffixOK ==
  ASSUME SeqsOK, TypeOK, StreamOK, NEW m \in 0 .. Len(Rest),
         Len(Rest') = Len(Rest) - m,
         \A i \in 1 .. Len(Rest') : Rest'[i] = Rest[m + i],
         sent' = sent
  PROVE  StreamOK'
<1>1. /\ Len(Rest) \in Nat /\ m \in Nat /\ Len(Rest') \in Nat
      /\ \A i \in 1 .. Len(Rest') : m + i \in 1 .. Len(Rest)
  BY RestFacts
<1>2. BytesSent /\ InOrder /\ EndsFollow /\ StartsFollow
  BY DEF StreamOK
<1>3. \A k : Length(k)' = Length(k)
  BY Constants DEF Length
<1>4. BytesSent'
  BY <1>1, <1>2, <1>3 DEF BytesSent
<1>5. InOrder'
  <2> SUFFICES ASSUME NEW i \in 1 .. Len(Rest'), NEW j \in 1 .. Len(Rest'), i < j
               PROVE  /\ Rest'[i][1] <= Rest'[j][1]
                      /\ Rest'[i][1] = Rest'[j][1] => Rest'[j][2] = Rest'[i][2] + (j - i)
    BY DEF InOrder
  <2>1. m + i \in 1 .. Len(Rest) /\ m + j \in 1 .. Len(Rest) /\ m + i < m + j
    BY <1>1
  <2>2. (m + j) - (m + i) = j - i
    BY <1>1
  <2> QED
    BY <1>2, <2>1, <2>2 DEF InOrder
<1>6. EndsFollow'
  <2> SUFFICES ASSUME NEW i \in 1 .. Len(Rest'), NEW q \in Rest'[i][2] .. Length(Rest'[i][1])
               PROVE  LET j == i + (q - Rest'[i][2])
                      IN j \in 1 .. Len(Rest') /\ Rest'[j] = <<Rest'[i][1], q>>
    BY <1>3 DEF EndsFollow
  <2>1. m + i \in 1 .. Len(Rest) /\ Rest'[i] = Rest[m + i] /\ i \in Nat /\ i >= 1
    BY <1>1
  <2> DEFINE p == Rest[m + i][2]
             j == i + (q - p)
  <2>0. q \in p .. Length(Rest[m + i][1]) /\ p \in 1 .. Length(Rest[m + i][1])
    BY <2>1, <1>2 DEF BytesSent
  <2>2. p \in Nat /\ q \in Nat /\ q >= p
    BY <2>0
  <2>3. (m + i) + (q - p) \in 1 .. Len(Rest) /\ Rest[(m + i) + (q - p)] = <<Rest[m + i][1], q>>
    BY <1>2, <2>1 DEF EndsFollow
  <2>4. (m + i) + (q - p) = m + j
    BY <1>1, <2>1, <2>2
  <2>5. m + j \in 1 .. Len(Rest) /\ j \in Int /\ j >= 1
    <3>1. m + j \in 1 .. Len(Rest)
      BY <2>3, <2>4, Zenon
    <3> HIDE DEF p
    <3>2. j \in Int /\ j >= 1
      BY <2>1, <2>2
    <3> QED
      BY <3>1, <3>2
  <2> HIDE DEF j, p
  <2>6. j \in 1 .. Len(Rest')
    BY <1>1, <2>5
  <2>7. Rest'[j] = Rest[m + j]
    BY <2>6
  <2>8. Rest[m + j] = <<Rest'[i][1], q>>
    BY <2>1, <2>3, <2>4, Zenon
  <2>9. i + (q - Rest'[i][2]) = j
    BY <2>1 DEF j, p
  <2> QED
    BY <2>6, <2>7, <2>8, <2>9
<1>7. StartsFollow'
  <2> SUFFICES ASSUME NEW i \in 1 .. (Len(Rest') - 1), Rest'[i][2] = Length(Rest'[i][1])
               PROVE  Rest'[i + 1][2] = 1
    BY <1>3 DEF StartsFollow
  <2>1. /\ i \in 1 .. Len(Rest') /\ i + 1 \in 1 .. Len(Rest')
        /\ m + i \in 1 .. (Len(Rest) - 1) /\ m + (i + 1) = (m + i) + 1
    BY <1>1
  <2> QED
    BY <1>2, <2>1 DEF StartsFollow
<1> QED
  BY <1>4, <1>5, <1>6, <1>7 DEF StreamOK

\* Nor does any of the bytes left belong to a message handed on.
LEMMA SuffixHanded ==
  ASSUME SeqsOK, HandedOK, NEW m \in 0 .. Len(Rest),
         Len(Rest') = Len(Rest) - m,
         \A i \in 1 .. Len(Rest') : Rest'[i] = Rest[m + i],
         UNCHANGED <<sent, handed>>
  PROVE  HandedOK'
<1>1. \A i \in 1 .. Len(Rest') : m + i \in 1 .. Len(Rest)
  BY RestFacts
<1>2. LastHanded' = LastHanded /\ Body(LastHanded)' = Body(LastHanded)
  BY DEF LastHanded, Body
<1> QED
  BY <1>1, <1>2 DEF HandedOK

\* Sending appends a whole message to what is left.
LEMMA SendFacts ==
  ASSUME SeqsOK, TypeOK, NEW kind \in Kinds,
         sent' = Append(sent, kind), stream' = stream \o Bytes(Len(sent'), kind.length),
         buffer' = buffer
  PROVE  LET n == Len(sent) + 1
             length == HeaderLength + kind.length
         IN /\ sent' \in Seq(Kinds) /\ Len(sent') = n /\ Len(sent) \in Nat /\ sent'[n] = kind
            /\ \A k \in 1 .. Len(sent) : sent'[k] = sent[k]
            /\ stream' \in Seq(ByteSet)
            /\ Rest' \in Seq(ByteSet) /\ Len(Rest') = Len(Rest) + length /\ length \in Nat
            /\ length >= HeaderLength
            /\ \A i \in 1 .. Len(Rest) : Rest'[i] = Rest[i]
            /\ \A p \in 1 .. length : Rest'[Len(Rest) + p] = <<n, p>>
<1> DEFINE n == Len(sent) + 1
           length == HeaderLength + kind.length
           w == Bytes(n, kind.length)
<1>1. /\ sent' \in Seq(Kinds) /\ Len(sent') = n /\ Len(sent) \in Nat /\ sent'[n] = kind
      /\ \A k \in 1 .. Len(sent) : sent'[k] = sent[k]
  <2>1. sent \in Seq(Kinds)
    BY DEF TypeOK
  <2> QED
    BY <2>1, AppendProperties
<1>2. length \in Nat /\ length >= HeaderLength /\ n \in Nat
  BY <1>1, KindFacts, Constants
<1>3. w \in Seq(ByteSet) /\ Len(w) = length /\ \A p \in 1 .. length : w[p] = <<n, p>>
  <2>1. w = [p \in 1 .. length |-> <<n, p>>]
    BY DEF Bytes, Byte
  <2>2. \A p \in 1 .. length : <<n, p>> \in ByteSet
    BY <1>2 DEF ByteSet
  <2> HIDE DEF w, length, n
  <2> QED
    BY <1>2, <2>1, <2>2
<1> HIDE DEF w, length, n
<1>4. stream' = stream \o w
  BY <1>1 DEF w
<1>5. buffer \in Seq(ByteSet) /\ stream \in Seq(ByteSet) /\ Rest \in Seq(ByteSet)
  BY RestFacts DEF SeqsOK
<1>6. stream' \in Seq(ByteSet)
  BY <1>3, <1>4, <1>5, ConcatProperties
<1>7. Rest' = Rest \o w
  <2>1. Rest' = buffer \o (stream \o w)
    BY <1>4 DEF Rest
  <2>2. (buffer \o stream) \o w = buffer \o (stream \o w)
    <3>1. buffer \in Seq(ByteSet) /\ stream \in Seq(ByteSet) /\ w \in Seq(ByteSet)
      BY <1>3, <1>5
    <3> QED
      BY ONLY <3>1, ConcatAssociative
  <2> QED
    BY <2>1, <2>2 DEF Rest
<1>8. /\ Rest' \in Seq(ByteSet) /\ Len(Rest') = Len(Rest) + length
      /\ \A i \in 1 .. Len(Rest) + length :
           Rest'[i] = IF i <= Len(Rest) THEN Rest[i] ELSE w[i - Len(Rest)]
  BY <1>3, <1>5, <1>7, ConcatProperties
<1>9. Len(Rest) \in Nat
  BY <1>5
<1>10. \A i \in 1 .. Len(Rest) : Rest'[i] = Rest[i]
  BY <1>2, <1>8, <1>9
<1>11. ASSUME NEW p \in 1 .. length
       PROVE  Rest'[Len(Rest) + p] = <<n, p>>
  <2>1. /\ Len(Rest) + p \in 1 .. Len(Rest) + length /\ ~(Len(Rest) + p <= Len(Rest))
        /\ (Len(Rest) + p) - Len(Rest) = p
    BY <1>2, <1>9
  <2> QED
    BY <1>3, <1>8, <2>1
<1> QED
  BY <1>1, <1>2, <1>6, <1>8, <1>10, <1>11 DEF n, length

\* What is left stays in order when a message is appended.
LEMMA SendStream ==
  ASSUME SeqsOK, TypeOK, StreamOK, NEW kind \in Kinds,
         sent' = Append(sent, kind), stream' = stream \o Bytes(Len(sent'), kind.length),
         buffer' = buffer
  PROVE  StreamOK'
<1> DEFINE n == Len(sent) + 1
           length == HeaderLength + kind.length
           r == Len(Rest)
           NewLength(k) == HeaderLength + sent'[k].length
<1>1. /\ sent' \in Seq(Kinds) /\ Len(sent') = n /\ Len(sent) \in Nat /\ sent'[n] = kind
      /\ \A k \in 1 .. Len(sent) : sent'[k] = sent[k]
      /\ Len(Rest') = r + length /\ length \in Nat
      /\ length >= HeaderLength
      /\ \A i \in 1 .. r : Rest'[i] = Rest[i]
      /\ \A p \in 1 .. length : Rest'[r + p] = <<n, p>>
  BY SendFacts
<1>2. BytesSent /\ InOrder /\ EndsFollow /\ StartsFollow /\ r \in Nat
  BY RestFacts DEF StreamOK
<1>3. /\ NewLength(n) = length
      /\ \A k \in 1 .. Len(sent) : NewLength(k) = Length(k)
  BY <1>1 DEF Length
<1> HIDE DEF n, length, r, NewLength
<1>4. ASSUME NEW i \in 1 .. Len(Rest')
      PROVE  \/ i \in 1 .. r
             \/ \E p \in 1 .. length : i = r + p
  <2>1. CASE ~(i <= r)
    <3>1. i - r \in 1 .. length /\ i = r + (i - r)
      BY <2>1, <1>1, <1>2
    <3> QED
      BY <3>1
  <2>2. CASE i <= r
    BY <2>2, <1>1, <1>2
  <2> QED
    BY <2>1, <2>2
<1>5. \A i \in 1 .. r : /\ Rest'[i] = Rest[i] /\ Rest[i][1] \in 1 .. Len(sent) /\ Rest[i][1] < n
                        /\ Rest[i][2] \in 1 .. Length(Rest[i][1])
                        /\ NewLength(Rest[i][1]) = Length(Rest[i][1])
  <2>1. \A i \in 1 .. r : Rest[i][1] \in 1 .. Len(sent) /\ Rest[i][2] \in 1 .. Length(Rest[i][1])
    BY <1>2 DEF BytesSent, r
  <2>2. \A k \in 1 .. Len(sent) : k < n
    BY <1>1 DEF n
  <2> QED
    BY <1>1, <1>3, <2>1, <2>2
<1>6. n \in Nat /\ n \in 1 .. Len(sent')
  BY <1>1 DEF n
<1>7. BytesSent'
  <2> SUFFICES ASSUME NEW i \in 1 .. Len(Rest')
               PROVE  Rest'[i][1] \in 1 .. Len(sent') /\ Rest'[i][2] \in 1 .. NewLength(Rest'[i][1])
    BY DEF BytesSent, Length, NewLength
  <2>1. CASE i \in 1 .. r
    BY <2>1, <1>1, <1>5, <1>6
  <2>2. ASSUME NEW p \in 1 .. length, i = r + p PROVE Rest'[i] = <<n, p>>
    BY <2>2, <1>1
  <2> QED
    BY <2>1, <2>2, <1>3, <1>4, <1>6
<1>8. InOrder'
  <2> SUFFICES ASSUME NEW i \in 1 .. Len(Rest'), NEW j \in 1 .. Len(Rest'), i < j
               PROVE  /\ Rest'[i][1] <= Rest'[j][1]
                      /\ Rest'[i][1] = Rest'[j][1] => Rest'[j][2] = Rest'[i][2] + (j - i)
    BY DEF InOrder
  <2>1. CASE i \in 1 .. r /\ j \in 1 .. r
    BY <2>1, <1>2, <1>5 DEF InOrder, r
  <2>2. ASSUME i \in 1 .. r, NEW p \in 1 .. length, j = r + p
        PROVE  Rest'[i][1] < Rest'[j][1] /\ Rest'[i][1] \in Nat /\ Rest'[j][1] \in Nat
    <3>1. Rest'[j] = <<n, p>>
      BY <2>2, <1>1
    <3> QED
      BY <3>1, <2>2, <1>1, <1>5, <1>6
  <2>3. ASSUME NEW p \in 1 .. length, i = r + p, NEW q \in 1 .. length, j = r + q
        PROVE  Rest'[i] = <<n, p>> /\ Rest'[j] = <<n, q>> /\ q = p + (j - i)
    <3>1. Rest'[i] = <<n, p>> /\ Rest'[j] = <<n, q>>
      BY <2>3, <1>1
    <3>2. q = p + (j - i)
      BY <2>3, <1>1, <1>2
    <3> QED
      BY <3>1, <3>2
  <2>4. ASSUME NEW p \in 1 .. length, i = r + p
        PROVE  j \notin 1 .. r
    BY <2>4, <1>1, <1>2
  <2>5. CASE i \in 1 .. r
    BY <2>1, <2>2, <2>5, <1>4
  <2>6. ASSUME NEW p \in 1 .. length, i = r + p
        PROVE  /\ Rest'[i][1] <= Rest'[j][1]
               /\ Rest'[i][1] = Rest'[j][1] => Rest'[j][2] = Rest'[i][2] + (j - i)
    <3>1. PICK q \in 1 .. length : j = r + q
      BY <2>4, <2>6, <1>4, Zenon
    <3>2. Rest'[i] = <<n, p>> /\ Rest'[j] = <<n, q>> /\ q = p + (j - i)
      BY <2>3, <2>6, <3>1, Zenon
    <3> QED
      BY <3>2, <1>6
  <2> QED
    BY <2>5, <2>6, <1>4
<1>9. EndsFollow'
  <2> SUFFICES ASSUME NEW i \in 1 .. Len(Rest'), NEW q \in Rest'[i][2] .. NewLength(Rest'[i][1])
               PROVE  /\ i + (q - Rest'[i][2]) \in 1 .. Len(Rest')
                      /\ Rest'[i + (q - Rest'[i][2])] = <<Rest'[i][1], q>>
    BY DEF EndsFollow, Length, NewLength
  <2>1. CASE i \in 1 .. r
    <3>1. /\ q \in Rest[i][2] .. Length(Rest[i][1])
          /\ Rest'[i] = Rest[i]
      BY <2>1, <1>5
    <3>2. i + (q - Rest[i][2]) \in 1 .. r /\ Rest[i + (q - Rest[i][2])] = <<Rest[i][1], q>>
      BY <2>1, <3>1, <1>2 DEF EndsFollow, r
    <3> QED
      BY <3>1, <3>2, <1>1, <1>2
  <2>2. ASSUME NEW p \in 1 .. length, i = r + p
        PROVE  /\ i + (q - Rest'[i][2]) \in 1 .. Len(Rest')
               /\ Rest'[i + (q - Rest'[i][2])] = <<Rest'[i][1], q>>
    <3>1. Rest'[i] = <<n, p>>
      BY <2>2, <1>1
    <3>2. q \in p .. length
      BY <3>1, <1>3
    <3>3. q \in 1 .. length /\ i + (q - p) = r + q /\ r + q \in 1 .. Len(Rest')
      BY <2>2, <3>2, <1>1, <1>2
    <3> QED
      BY <3>1, <3>3, <1>1
  <2> QED
    BY <2>1, <2>2, <1>4
<1>10. StartsFollow'
  <2> SUFFICES ASSUME NEW i \in 1 .. (Len(Rest') - 1), Rest'[i][2] = NewLength(Rest'[i][1])
               PROVE  Rest'[i + 1][2] = 1
    BY DEF StartsFollow, Length, NewLength
  <2>1. i \in 1 .. Len(Rest')
    BY <1>1, <1>2
  <2>2. CASE i \in 1 .. (r - 1)
    <3>1. i \in 1 .. r /\ i + 1 \in 1 .. r
      BY <2>2, <1>2
    <3>2. Rest[i][2] = Length(Rest[i][1])
      BY <3>1, <1>5
    <3> QED
      BY <2>2, <3>1, <3>2, <1>1, <1>2 DEF StartsFollow, r
  <2>3. CASE i = r
    <3>1. 1 \in 1 .. length
      BY <1>1, Constants
    <3>2. Rest'[i + 1] = <<n, 1>>
      BY <2>3, <3>1, <1>1
    <3> QED
      BY <3>2
  <2>4. ASSUME NEW p \in 1 .. length, i = r + p
        PROVE  FALSE
    <3>1. Rest'[i] = <<n, p>>
      BY <2>4, <1>1
    <3>2. p = length
      BY <3>1, <1>3
    <3> QED
      BY <2>4, <3>2, <1>1, <1>2
  <2>5. i \in 1 .. r => i = r \/ i \in 1 .. (r - 1)
    BY <1>2
  <2> QED
    BY <2>1, <2>2, <2>3, <2>4, <2>5, <1>4
<1> QED
  BY <1>7, <1>8, <1>9, <1>10 DEF StreamOK

\* Sending keeps the invariant.
LEMMA SendKeeps == IInv /\ Send => IInv'
<1> SUFFICES ASSUME IInv, Send PROVE IInv'
  OBVIOUS
<1>1. TypeOK /\ SeqsOK /\ StreamOK /\ BodyNext /\ HandedOK /\ InStep /\ TimeOK
  BY DEF IInv
<1>2. PICK kind \in Kinds :
        sent' = Append(sent, kind) /\ stream' = stream \o Bytes(Len(sent'), kind.length)
  BY DEF Send
<1>3. UNCHANGED <<timeoutrecv, fin, pc, head, buffer, wait, quiet, handed, faulted>>
  BY DEF Send, reading
<1> DEFINE n == Len(sent) + 1
           length == HeaderLength + kind.length
           r == Len(Rest)
<1>4. /\ sent' \in Seq(Kinds) /\ Len(sent') = n /\ Len(sent) \in Nat /\ sent'[n] = kind
      /\ \A k \in 1 .. Len(sent) : sent'[k] = sent[k]
      /\ stream' \in Seq(ByteSet)
      /\ Rest' \in Seq(ByteSet) /\ Len(Rest') = r + length /\ length \in Nat
      /\ length >= HeaderLength
      /\ \A i \in 1 .. r : Rest'[i] = Rest[i]
      /\ \A p \in 1 .. length : Rest'[r + p] = <<n, p>>
  BY <1>1, <1>2, <1>3, SendFacts
<1>5. /\ sent \in Seq(Kinds) /\ DOMAIN sent = 1 .. Len(sent) /\ DOMAIN sent' = 1 .. n
      /\ r \in Nat /\ Rest \in Seq(ByteSet)
  BY <1>1, <1>4, RestFacts DEF TypeOK
<1> HIDE DEF length, r
<1>6. pc = "body" => head \in DOMAIN sent /\ sent'[head] = sent[head]
  BY <1>1, <1>4, <1>5, Limits
<1>7. Needed' = Needed \/ pc = "closed"
  BY <1>1, <1>3, <1>6 DEF Needed, TypeOK
<1>8. TypeOK'
  <2>1. head' \in 0 .. Len(sent')
    BY <1>1, <1>3, <1>4 DEF TypeOK
  <2>2. pc = "body" => sent'[head'].length \in 1 .. BufferLength
    BY <1>1, <1>3, <1>6, Limits
  <2>3. buffer' # <<>> => Len(buffer') < Needed'
    BY <1>1, <1>3, <1>7 DEF TypeOK, SeqsOK
  <2>4. wait' \in 0 .. Limit'
    BY <1>1, <1>3 DEF TypeOK, Limit
  <2> QED
    BY <1>1, <1>3, <1>4, <2>1, <2>2, <2>3, <2>4 DEF TypeOK
<1>9. SeqsOK'
  BY <1>1, <1>3, <1>4 DEF SeqsOK
<1>10. StreamOK'
  BY <1>1, <1>2, <1>3, SendStream
<1>11. Rest # <<>> => Rest' # <<>> /\ Rest'[1] = Rest[1]
  <2>1. Rest # <<>> => 1 \in 1 .. r
    BY <1>5 DEF r
  <2>2. Rest' = <<>> => Len(Rest') = 0
    OBVIOUS
  <2> QED
    BY <2>1, <2>2, <1>4, <1>5
<1>12. BodyNext'
  BY <1>1, <1>3, <1>11 DEF BodyNext
<1>13. /\ LastHanded' = LastHanded
       /\ \A k \in DOMAIN sent : /\ k \in DOMAIN sent' /\ k # n
                                 /\ sent'[k] = sent[k]
                                 /\ [p \in 1 .. sent'[k].length |-> Byte(k, HeaderLength + p)] = Body(k)
  BY <1>3, <1>4, <1>5 DEF LastHanded, Body
<1>14. ASSUME NEW i \in 1 .. Len(Rest')
       PROVE  \/ i \in 1 .. r /\ Rest'[i] = Rest[i]
              \/ Rest'[i][1] = n
  <2>1. CASE i <= r
    BY <2>1, <1>4, <1>5
  <2>2. CASE ~(i <= r)
    <3>1. i - r \in 1 .. length /\ i = r + (i - r)
      BY <2>2, <1>4, <1>5
    <3>2. Rest'[i] = <<n, i - r>>
      BY <3>1, <1>4
    <3> QED
      BY <3>2
  <2> QED
    BY <2>1, <2>2
<1>15. HandedOK'
  <2>1. handed # <<>> => LastHanded \in DOMAIN sent /\ handed[Len(handed)] = Body(LastHanded)
    BY <1>1 DEF HandedOK
  <2>2. LastHanded \in Nat /\ LastHanded < n
    <3>1. CASE handed = <<>>
      BY <3>1, <1>4 DEF LastHanded
    <3>2. CASE handed # <<>>
      BY <3>2, <2>1, <1>4, <1>5
    <3> QED
      BY <3>1, <3>2
  <2>3. ASSUME NEW i \in 1 .. Len(Rest')
        PROVE  Rest'[i][1] > LastHanded
    BY <1>1, <1>4, <1>14, <2>2 DEF HandedOK, r
  <2>4. handed' # <<>> => LastHanded' \in DOMAIN sent' /\ handed'[Len(handed')] = Body(LastHanded)'
    BY <2>1, <1>3, <1>13 DEF Body
  <2> QED
    BY <2>3, <2>4, <1>13 DEF HandedOK
<1>16. InStep'
  <2> SUFFICES ASSUME ~faulted
               PROVE  /\ pc = "header" /\ Rest' # <<>> => Rest'[1][2] = 1
                      /\ pc # "closed" =>
                           \A k \in DOMAIN sent' :
                             sent'[k].data /\ head # k /\ (\A i \in 1 .. Len(Rest') : Rest'[i][1] # k) =>
                               [p \in 1 .. sent'[k].length |-> Byte(k, HeaderLength + p)] \in Bodies
    BY <1>3 DEF InStep, Bodies, Body
  <2>1. r = 0 => Rest'[1] = <<n, 1>>
    <3>1. 1 \in 1 .. length
      BY <1>4, Constants
    <3> QED
      BY <3>1, <1>4
  <2>2. pc = "header" => Rest'[1][2] = 1
    <3>1. CASE r = 0
      BY <3>1, <2>1
    <3>2. CASE r # 0
      BY <3>2, <1>1, <1>5, <1>11 DEF InStep, r
    <3> QED
      BY <3>1, <3>2
  <2>3. ASSUME pc # "closed", NEW k \in DOMAIN sent', sent'[k].data, head # k,
               \A i \in 1 .. Len(Rest') : Rest'[i][1] # k
        PROVE  [p \in 1 .. sent'[k].length |-> Byte(k, HeaderLength + p)] \in Bodies
    <3>1. r + 1 \in 1 .. Len(Rest') /\ Rest'[r + 1] = <<n, 1>>
      <4>1. 1 \in 1 .. length
        BY <1>4, Constants
      <4> QED
        BY <4>1, <1>4, <1>5
    <3>2. k # n
      BY <2>3, <3>1
    <3>3. k \in DOMAIN sent
      BY <3>2, <1>4, <1>5
    <3>4. \A i \in 1 .. r : i \in 1 .. Len(Rest') /\ Rest[i][1] # k
      BY <2>3, <1>4, <1>5
    <3> QED
      BY <2>3, <3>3, <3>4, <1>1, <1>13 DEF InStep, r
  <2> QED
    BY <2>2, <2>3
<1>17. TimeOK'
  BY <1>1, <1>3 DEF TimeOK, HeaderLimit
<1> QED
  BY <1>8, <1>9, <1>10, <1>12, <1>15, <1>16, <1>17 DEF IInv

\* A step that leaves the reader where it is keeps all but types and times.
LEMMA Unmoved ==
  ASSUME IInv, UNCHANGED <<sent, stream, pc, head, buffer, handed, faulted>>
  PROVE  SeqsOK' /\ StreamOK' /\ BodyNext' /\ HandedOK' /\ InStep'
<1>1. SeqsOK /\ StreamOK /\ BodyNext /\ HandedOK /\ InStep
  BY DEF IInv
<1>2. Rest' = Rest
  BY DEF Rest
<1>3. SeqsOK' /\ BodyNext' /\ HandedOK' /\ InStep'
  BY <1>1, <1>2 DEF SeqsOK, BodyNext, HandedOK, LastHanded, Body, InStep, Bodies
<1>4. StreamOK'
  BY <1>1, <1>2 DEF StreamOK, BytesSent, InOrder, EndsFollow, StartsFollow, Length
<1> QED
  BY <1>3, <1>4

\* The end of the server's stream and the passing of time keep the invariant.
LEMMA CloseKeeps == IInv /\ Close => IInv'
<1> SUFFICES ASSUME IInv, Close PROVE IInv'
  OBVIOUS
<1>1. UNCHANGED <<timeoutrecv, sent, stream, pc, head, buffer, wait, quiet, handed, faulted>>
      /\ fin' = TRUE
  BY DEF Close, reading
<1>2. TypeOK'
  BY <1>1 DEF IInv, TypeOK, Needed, Limit
<1>3. TimeOK'
  BY <1>1 DEF IInv, TimeOK, HeaderLimit
<1> QED
  BY <1>1, <1>2, <1>3, Unmoved DEF IInv

LEMMA TickKeeps == IInv /\ Tick => IInv'
<1> SUFFICES ASSUME IInv, Tick PROVE IInv'
  OBVIOUS
<1>1. /\ UNCHANGED <<timeoutrecv, sent, fin, stream, pc, head, buffer, handed, faulted>>
      /\ wait < Limit /\ wait' = wait + 1 /\ quiet' = quiet + 1
  BY DEF Tick
<1>2. TypeOK /\ wait \in Nat /\ quiet \in Nat /\ Limit \in Nat /\ HeaderLimit \in Nat
  BY Limits DEF IInv, TypeOK
<1>3. TypeOK'
  <2>1. wait' \in 0 .. Limit' /\ quiet' \in Nat
    BY <1>1, <1>2 DEF Limit
  <2> QED
    BY <1>1, <1>2, <2>1 DEF TypeOK, Needed
<1>4. TimeOK'
  <2> DEFINE h == Len(buffer) * HeaderLimit
             b == HeaderLength * HeaderLimit + Len(buffer) * HighestTimeout
  <2>1. Len(buffer) \in Nat
    BY DEF IInv, SeqsOK
  <2>2. h \in Nat /\ b \in Nat
    BY <1>2, <2>1, Constants
  <2>3. (pc = "header" => quiet < Watchdog + h + wait) /\ (pc = "body" => quiet < Watchdog + b + wait)
    BY <1>2, <2>1, <2>2, Constants DEF IInv, TimeOK
  <2> HIDE DEF h, b
  <2>4. /\ pc = "header" => quiet' < Watchdog + h + wait'
        /\ pc = "body" => quiet' < Watchdog + b + wait'
    BY <1>1, <1>2, <2>2, <2>3, Constants
  <2>5. HeaderLimit' = HeaderLimit /\ buffer' = buffer /\ pc' = pc /\ wait' \in Nat
    BY <1>1, <1>2 DEF HeaderLimit
  <2> QED
    BY <2>1, <2>2, <2>4, <2>5, <1>2, Constants DEF TimeOK, h, b
<1> QED
  BY <1>1, <1>3, <1>4, Unmoved DEF IInv

\* One recv() more takes its time-out at most.
LEMMA OneMore ==
  ASSUME NEW a \in Nat, NEW b \in Nat, NEW c \in Nat, a + 1 <= b
  PROVE  a * c + c <= b * c /\ a * c \in Nat /\ b * c \in Nat
<1>1. PICK d \in Nat : b = a + 1 + d
  <2>1. b - a - 1 \in Nat /\ b = a + 1 + (b - a - 1)
    OBVIOUS
  <2> QED
    BY <2>1
<1>2. b * c = a * c + c + d * c
  BY <1>1
<1>3. d * c \in Nat /\ a * c \in Nat /\ b * c \in Nat
  OBVIOUS
<1> QED
  BY <1>2, <1>3

\* A recv() that does not complete a read keeps the invariant: nothing is lost
\* between the buffer and the stream.
LEMMA RecvPartKeeps == IInv /\ RecvPart => IInv'
<1> SUFFICES ASSUME IInv, RecvPart PROVE IInv'
  OBVIOUS
<1>1. TypeOK /\ SeqsOK /\ StreamOK /\ BodyNext /\ HandedOK /\ InStep /\ TimeOK
  BY DEF IInv
<1>2. PICK bytes \in Got : ~Complete(bytes) /\ Receives(bytes) /\ buffer' = bytes
  BY DEF RecvPart
<1>3. /\ UNCHANGED <<timeoutrecv, sent, fin, pc, head, quiet, handed, faulted>>
      /\ pc # "closed" /\ wait' = 0
      /\ stream' = SubSeq(stream, Len(bytes) - Len(buffer) + 1, Len(stream))
  BY <1>2 DEF RecvPart, Receives
<1>4. /\ bytes \in Seq(ByteSet) /\ stream' \in Seq(ByteSet)
      /\ Len(bytes) \in Len(buffer) + 1 .. Len(Rest) /\ Len(bytes) <= Needed
      /\ Len(stream') = Len(Rest) - Len(bytes)
      /\ \A i \in 1 .. Len(bytes) : bytes[i] = Rest[i]
      /\ \A i \in 1 .. Len(stream') : stream'[i] = Rest[Len(bytes) + i]
  BY <1>1, <1>3, GotFacts
<1>5. SeqsOK'
  BY <1>1, <1>2, <1>3, <1>4 DEF SeqsOK
<1>6. /\ Rest \in Seq(ByteSet) /\ Len(Rest) \in Nat /\ Len(buffer) \in Nat /\ Len(bytes) \in Nat
  BY <1>1, <1>4, RestFacts
<1>7. Rest' = Rest
  <2>1. /\ Rest' \in Seq(ByteSet) /\ Len(Rest') = Len(bytes) + Len(stream')
        /\ \A i \in 1 .. (Len(bytes) + Len(stream')) :
             Rest'[i] = IF i <= Len(bytes) THEN bytes[i] ELSE stream'[i - Len(bytes)]
    BY <1>2, <1>4, ConcatProperties DEF Rest
  <2>2. Len(Rest') = Len(Rest)
    BY <2>1, <1>4, <1>6
  <2>3. ASSUME NEW i \in 1 .. Len(Rest)
        PROVE  Rest'[i] = Rest[i]
    <3>1. CASE i <= Len(bytes)
      BY <3>1, <2>1, <2>2, <1>4, <1>6
    <3>2. CASE ~(i <= Len(bytes))
      <4>1. i - Len(bytes) \in 1 .. Len(stream') /\ Len(bytes) + (i - Len(bytes)) = i
        BY <3>2, <1>4, <1>6
      <4> QED
        BY <3>2, <4>1, <2>1, <2>2, <1>4
    <3> QED
      BY <3>1, <3>2
  <2> QED
    BY <2>1, <2>2, <2>3, <1>6, SeqEqual
<1>8. Needed' = Needed /\ Limit' = Limit /\ HeaderLimit' = HeaderLimit
  BY <1>3 DEF Needed, Limit, HeaderLimit
<1>9. TypeOK'
  <2>1. buffer' # <<>> => Len(buffer') < Needed'
    BY <1>1, <1>2, <1>3, <1>4, <1>6, <1>8, Limits DEF Complete
  <2>2. wait' \in 0 .. Limit'
    BY <1>1, <1>3, <1>8, Limits
  <2> QED
    BY <1>1, <1>3, <2>1, <2>2 DEF TypeOK
<1>10. StreamOK' /\ BodyNext' /\ HandedOK' /\ InStep'
  <2>1. BodyNext' /\ HandedOK' /\ InStep'
    BY <1>1, <1>3, <1>7 DEF BodyNext, HandedOK, LastHanded, Body, InStep, Bodies
  <2>2. StreamOK'
    BY <1>1, <1>3, <1>7 DEF StreamOK, BytesSent, InOrder, EndsFollow, StartsFollow, Length
  <2> QED
    BY <2>1, <2>2
<1>11. TimeOK'
  <2>1. wait \in Nat /\ wait <= Limit /\ quiet \in Nat /\ Limit \in Nat /\ HeaderLimit \in Nat
    BY <1>1, Limits DEF TypeOK
  <2>2. ASSUME NEW c \in Nat
        PROVE  Len(buffer) * c + c <= Len(bytes) * c /\ Len(buffer) * c \in Nat /\ Len(bytes) * c \in Nat
    <3>1. Len(buffer) + 1 <= Len(bytes)
      BY <1>4, <1>6
    <3> QED
      BY <3>1, <1>6, OneMore, Zenon
  <2>3. CASE pc = "header"
    <3> DEFINE x == Len(buffer) * HeaderLimit
               y == Len(bytes) * HeaderLimit
    <3>1. quiet < Watchdog + x + wait /\ wait <= HeaderLimit
      BY <1>1, <2>1, <2>3, Limits DEF TimeOK
    <3>2. x + HeaderLimit <= y /\ x \in Nat /\ y \in Nat
      BY <2>1, <2>2
    <3> HIDE DEF x, y
    <3>3. quiet < Watchdog + y + 0
      BY <2>1, <3>1, <3>2, Constants
    <3> QED
      BY <1>2, <1>3, <1>8, <2>3, <3>3 DEF TimeOK, y
  <2>4. CASE pc = "body"
    <3> DEFINE x == Len(buffer) * HighestTimeout
               y == Len(bytes) * HighestTimeout
               z == HeaderLength * HeaderLimit
    <3>1. quiet < Watchdog + z + x + wait /\ wait <= HighestTimeout
      BY <1>1, <2>1, <2>4, Limits DEF TimeOK
    <3>2. x + HighestTimeout <= y /\ x \in Nat /\ y \in Nat /\ z \in Nat
      BY <2>1, <2>2, Constants
    <3> HIDE DEF x, y, z
    <3>3. quiet < Watchdog + z + y + 0
      BY <2>1, <3>1, <3>2, Constants
    <3> QED
      BY <1>2, <1>3, <1>8, <2>4, <3>3 DEF TimeOK, y, z
  <2> QED
    BY <2>3, <2>4, <1>3 DEF TimeOK
<1> QED
  BY <1>5, <1>9, <1>10, <1>11 DEF IInv

\* When a read is over the rest is what is still in the stream.
LEMMA Passed ==
  ASSUME IInv, NEW m \in 0 .. Len(Rest), buffer' = <<>>, sent' = sent,
         stream' \in Seq(ByteSet), Len(stream') = Len(Rest) - m,
         \A i \in 1 .. Len(stream') : stream'[i] = Rest[m + i]
  PROVE  /\ Rest' = stream' /\ StreamOK'
         /\ handed' = handed => HandedOK'
<1>1. SeqsOK /\ TypeOK /\ StreamOK /\ HandedOK
  BY DEF IInv
<1>2. Rest' = stream'
  BY ConcatEmptySeq DEF Rest
<1>3. StreamOK'
  BY <1>1, <1>2, SuffixOK
<1>4. handed' = handed => HandedOK'
  BY <1>1, <1>2, SuffixHanded
<1> QED
  BY <1>2, <1>3, <1>4

\* The same for a read that a recv() completes.
LEMMA Completed ==
  ASSUME IInv, NEW bytes \in Got, Receives(bytes), buffer' = <<>>
  PROVE  /\ bytes \in Seq(ByteSet) /\ stream' \in Seq(ByteSet)
         /\ Len(bytes) \in Len(buffer) + 1 .. Len(Rest)
         /\ \A i \in 1 .. Len(bytes) : bytes[i] = Rest[i]
         /\ Rest' = stream' /\ StreamOK'
         /\ Len(Rest') = Len(Rest) - Len(bytes)
         /\ \A i \in 1 .. Len(Rest') : Rest'[i] = Rest[Len(bytes) + i]
         /\ handed' = handed => HandedOK'
<1>1. SeqsOK
  BY DEF IInv
<1>2. /\ bytes \in Seq(ByteSet) /\ stream' \in Seq(ByteSet)
      /\ Len(bytes) \in Len(buffer) + 1 .. Len(Rest) /\ Len(bytes) <= Needed
      /\ Len(stream') = Len(Rest) - Len(bytes)
      /\ \A i \in 1 .. Len(bytes) : bytes[i] = Rest[i]
      /\ \A i \in 1 .. Len(stream') : stream'[i] = Rest[Len(bytes) + i]
  BY <1>1, GotFacts DEF Receives
<1>3. Len(bytes) \in 0 .. Len(Rest)
  BY <1>1, <1>2, RestFacts
<1>4. sent' = sent
  BY DEF Receives
<1> QED
  BY <1>2, <1>3, <1>4, Passed

\* What is forgotten with a read that is given up.
LEMMA Forgotten ==
  ASSUME IInv, buffer' = <<>>, UNCHANGED <<sent, stream>>
  PROVE  /\ Rest' = stream /\ StreamOK'
         /\ handed' = handed => HandedOK'
<1>1. SeqsOK
  BY DEF IInv
<1>2. /\ Len(buffer) \in 0 .. Len(Rest) /\ Len(stream) = Len(Rest) - Len(buffer)
      /\ stream \in Seq(ByteSet)
      /\ \A i \in 1 .. Len(stream) : Rest[Len(buffer) + i] = stream[i]
  BY <1>1, RestFacts DEF SeqsOK
<1> QED
  BY <1>2, Passed

\* main() reads the next message only if the watchdog has not run out.
LEMMA Returned ==
  ASSUME TypeOK, NEW pd \in BOOLEAN, NEW goesOn \in BOOLEAN, Return(pd, goesOn),
         wait' = 0, faulted' \in BOOLEAN, UNCHANGED <<timeoutrecv, sent, fin>>
  PROVE  TypeOK' /\ TimeOK' /\ BodyNext' /\ pc' # "body"
<1>1. /\ head' = 0 /\ buffer' = <<>> /\ pc' \in {"header", "closed"}
      /\ quiet' \in {0, quiet} /\ (pc' = "header" => quiet' < Watchdog)
  BY DEF Return, SinceData
<1>2. timeoutrecv' \in Nat /\ quiet' \in Nat /\ Limit' \in Nat /\ HeaderLimit' \in Nat
  BY <1>1, Constants DEF TypeOK, Limit, HeaderLimit
<1>3. TypeOK'
  BY <1>1, <1>2 DEF TypeOK
<1>4. Len(buffer') * HeaderLimit' = 0
  <2>1. Len(buffer') = 0
    BY <1>1
  <2>2. \A x \in Nat : 0 * x = 0
    OBVIOUS
  <2> QED
    BY <1>2, <2>1, <2>2
<1>5. TimeOK'
  <2>1. pc' = "header" => quiet' < Watchdog + 0 + wait'
    BY <1>1, <1>2, Constants
  <2> QED
    BY <1>1, <1>4, <2>1 DEF TimeOK
<1> QED
  BY <1>1, <1>3, <1>5 DEF BodyNext

\* A read that is given up keeps the invariant.
LEMMA GivenUpKeeps == IInv /\ (TimedOut \/ Fails) => IInv'
<1> SUFFICES ASSUME IInv, TimedOut \/ Fails PROVE IInv'
  OBVIOUS
<1>1. TypeOK /\ SeqsOK /\ StreamOK /\ BodyNext /\ HandedOK /\ InStep /\ TimeOK
  BY DEF IInv
<1>2. /\ Return(FALSE, TRUE) \/ Return(FALSE, FALSE)
      /\ wait' = 0 /\ pc # "closed"
      /\ UNCHANGED <<timeoutrecv, sent, fin, stream, handed>>
  BY DEF TimedOut, Fails
<1>3. /\ buffer' = <<>> /\ head' = 0
      /\ faulted' \in BOOLEAN
      /\ ~faulted' => ~faulted /\ (pc' = "closed" \/ (pc = "header" /\ buffer = <<>>))
  <2>1. buffer' = <<>> /\ head' = 0
    BY <1>2 DEF Return
  <2>2. CASE TimedOut
    BY <1>1, <2>1, <2>2 DEF TimedOut, TypeOK
  <2>3. CASE Fails
    BY <1>1, <2>1, <2>3 DEF Fails, Return, TypeOK
  <2> QED
    BY <2>1, <2>2, <2>3
<1>4. TypeOK' /\ TimeOK' /\ BodyNext' /\ pc' # "body"
  BY <1>1, <1>2, <1>3, Returned
<1>5. Rest' = stream /\ StreamOK' /\ HandedOK'
  BY <1>2, <1>3, Forgotten
<1>6. SeqsOK'
  BY <1>1, <1>2, <1>3 DEF SeqsOK
<1>7. InStep'
  <2> SUFFICES ASSUME ~faulted', pc' # "closed"
               PROVE  InStep'
    BY DEF InStep
  <2>1. ~faulted /\ pc = "header" /\ pc' = "header" /\ head = 0
    BY <1>1, <1>3, <1>4 DEF TypeOK
  <2>2. Rest = stream
    BY <1>1, <1>3, ConcatEmptySeq DEF Rest, SeqsOK
  <2> QED
    BY <1>1, <1>2, <1>3, <1>5, <2>1, <2>2 DEF InStep, Bodies, Body
<1> QED
  BY <1>4, <1>5, <1>6, <1>7 DEF IInv

\* The next bytes of the message the rest begins with follow.
LEMMA MessageFollows ==
  ASSUME SeqsOK, StreamOK, Rest # <<>>, NEW k, NEW p, Rest[1] = <<k, p>>,
         NEW q \in p .. Length(k)
  PROVE  /\ 1 + (q - p) \in 1 .. Len(Rest) /\ Rest[1 + (q - p)] = <<k, q>>
         /\ k \in DOMAIN sent /\ p \in 1 .. Length(k)
<1>1. 1 \in 1 .. Len(Rest)
  BY RestFacts
<1>2. Rest[1][1] = k /\ Rest[1][2] = p
  OBVIOUS
<1>3. k \in DOMAIN sent /\ p \in 1 .. Length(k)
  BY <1>1, <1>2 DEF StreamOK, BytesSent
<1>4. 1 + (q - p) \in 1 .. Len(Rest) /\ Rest[1 + (q - p)] = <<k, q>>
  BY <1>1, <1>2 DEF StreamOK, EndsFollow
<1> QED
  BY <1>3, <1>4

\* A header read in step is that of the message the rest begins with.
LEMMA HeaderRead ==
  ASSUME IInv, NEW bytes \in Got, Receives(bytes), buffer' = <<>>,
         Len(bytes) = HeaderLength, IsHeader(bytes)
  PROVE  LET k == bytes[1][1]
         IN /\ k \in DOMAIN sent
            /\ \A i \in 1 .. HeaderLength : Rest[i] = <<k, i>>
            /\ sent[k].length > 0 => Rest' # <<>> /\ Rest'[1] = <<k, HeaderLength + 1>>
            /\ sent[k].length = 0 /\ Rest' # <<>> => Rest'[1][2] = 1
<1> DEFINE k == bytes[1][1]
<1>1. TypeOK /\ SeqsOK /\ StreamOK
  BY DEF IInv
<1>2. /\ bytes \in Seq(ByteSet)
      /\ Len(bytes) \in Len(buffer) + 1 .. Len(Rest)
      /\ \A i \in 1 .. Len(bytes) : bytes[i] = Rest[i]
      /\ Rest' = stream' /\ stream' \in Seq(ByteSet)
      /\ Len(Rest') = Len(Rest) - Len(bytes)
      /\ \A i \in 1 .. Len(Rest') : Rest'[i] = Rest[Len(bytes) + i]
  BY Completed
<1>3. /\ Len(Rest) \in Nat /\ Len(Rest) >= HeaderLength /\ Rest # <<>> /\ 1 \in 1 .. Len(bytes)
      /\ Rest \in Seq(ByteSet)
  BY <1>1, <1>2, RestFacts, Constants
<1>4. Rest[1] = <<k, 1>>
  <2>1. bytes[1] \in ByteSet /\ bytes[1] = Rest[1]
    BY <1>2, <1>3
  <2> QED
    BY <2>1 DEF IsHeader, ByteSet
<1> HIDE DEF k
<1>5. k \in DOMAIN sent
  <2>1. 1 \in 1 .. Len(Rest) /\ Rest[1][1] = k
    BY <1>3, <1>4, Constants
  <2> QED
    BY <2>1, <1>1 DEF StreamOK, BytesSent
<1>6. sent[k].length \in Nat /\ Length(k) = HeaderLength + sent[k].length
  BY <1>1, <1>5, SentFacts DEF Length
<1>7. ASSUME NEW q \in 1 .. Length(k)
      PROVE  q \in 1 .. Len(Rest) /\ Rest[q] = <<k, q>>
  <2>1. 1 + (q - 1) = q
    OBVIOUS
  <2>2. 1 + (q - 1) \in 1 .. Len(Rest) /\ Rest[1 + (q - 1)] = <<k, q>>
    BY <1>1, <1>3, <1>4, MessageFollows, Zenon
  <2> QED
    BY <2>1, <2>2
<1>8. \A i \in 1 .. HeaderLength : Rest[i] = <<k, i>>
  BY <1>6, <1>7, Constants
<1>9. sent[k].length > 0 => Rest' # <<>> /\ Rest'[1] = <<k, HeaderLength + 1>>
  <2> SUFFICES ASSUME sent[k].length > 0 PROVE Rest' # <<>> /\ Rest'[1] = <<k, HeaderLength + 1>>
    OBVIOUS
  <2>1. HeaderLength + 1 \in 1 .. Length(k)
    BY <1>6, Constants
  <2>2. HeaderLength + 1 \in 1 .. Len(Rest) /\ Rest[HeaderLength + 1] = <<k, HeaderLength + 1>>
    BY <2>1, <1>7
  <2>3. 1 \in 1 .. Len(Rest')
    BY <2>2, <1>2, <1>3, Constants
  <2> QED
    BY <2>2, <2>3, <1>2
<1>10. sent[k].length = 0 /\ Rest' # <<>> => Rest'[1][2] = 1
  <2> SUFFICES ASSUME sent[k].length = 0, Rest' # <<>> PROVE Rest'[1][2] = 1
    OBVIOUS
  <2>1. 1 \in 1 .. Len(Rest')
    BY <1>2
  <2>2. HeaderLength \in 1 .. (Len(Rest) - 1) /\ Rest'[1] = Rest[HeaderLength + 1]
    BY <2>1, <1>2, <1>3, Constants
  <2>3. Rest[HeaderLength] = <<k, HeaderLength>> /\ Length(k) = HeaderLength
    BY <1>6, <1>8, Constants
  <2> QED
    BY <2>2, <2>3, <1>1 DEF StreamOK, StartsFollow
<1> QED
  BY <1>5, <1>8, <1>9, <1>10 DEF k

\* A whole header keeps the invariant: it is followed by its body, or the
\* reader looks for the next header.
LEMMA RecvHeaderKeeps == IInv /\ RecvHeader => IInv'
<1> SUFFICES ASSUME IInv, RecvHeader PROVE IInv'
  OBVIOUS
<1>1. TypeOK /\ SeqsOK /\ StreamOK /\ BodyNext /\ HandedOK /\ InStep /\ TimeOK
  BY DEF IInv
<1>2. PICK bytes \in Got :
        /\ Complete(bytes) /\ Receives(bytes)
        /\ LET k == bytes[1][1]
               hasBody == IsHeader(bytes) /\ ~TooLong(k) /\ sent[k].length > 0
           IN \/ /\ hasBody
                 /\ pc' = "body" /\ head' = k /\ buffer' = <<>>
                 /\ UNCHANGED <<quiet, faulted>>
              \/ /\ ~hasBody
                 /\ Return(FALSE, TRUE)
                 /\ faulted' = (faulted \/ TooLong(k))
  BY DEF RecvHeader
<1> DEFINE k == bytes[1][1]
<1>3. /\ pc = "header" /\ head = 0 /\ buffer' = <<>> /\ wait' = 0
      /\ UNCHANGED <<timeoutrecv, sent, fin, handed>>
  BY <1>1, <1>2 DEF RecvHeader, Receives, Return, TypeOK
<1>4. Len(bytes) = HeaderLength
  BY <1>1, <1>2, <1>3, Limits DEF Complete
<1>5. /\ bytes \in Seq(ByteSet) /\ stream' \in Seq(ByteSet)
      /\ Len(bytes) \in Len(buffer) + 1 .. Len(Rest)
      /\ \A i \in 1 .. Len(bytes) : bytes[i] = Rest[i]
      /\ Rest' = stream' /\ StreamOK'
      /\ Len(Rest') = Len(Rest) - Len(bytes)
      /\ \A i \in 1 .. Len(Rest') : Rest'[i] = Rest[Len(bytes) + i]
      /\ HandedOK'
  BY <1>2, <1>3, Completed
<1>6. SeqsOK'
  BY <1>1, <1>3, <1>5 DEF SeqsOK
<1>7. Len(Rest) \in Nat /\ Len(buffer) \in Nat
  BY <1>1, RestFacts
<1>8. IsHeader(bytes) =>
        /\ k \in DOMAIN sent
        /\ \A i \in 1 .. HeaderLength : Rest[i] = <<k, i>>
        /\ sent[k].length > 0 => Rest' # <<>> /\ Rest'[1] = <<k, HeaderLength + 1>>
        /\ sent[k].length = 0 /\ Rest' # <<>> => Rest'[1][2] = 1
  BY <1>2, <1>3, <1>4, HeaderRead
<1>9. ASSUME ~faulted, NEW m \in DOMAIN sent, sent[m].data, m # k, IsHeader(bytes),
             \A i \in 1 .. Len(Rest') : Rest'[i][1] # m
      PROVE  Body(m) \in Bodies
  <2>1. ASSUME NEW i \in 1 .. Len(Rest)
        PROVE  Rest[i][1] # m
    <3>1. CASE i <= HeaderLength
      BY <3>1, <1>8, <1>9, Constants
    <3>2. CASE ~(i <= HeaderLength)
      <4>1. i - HeaderLength \in 1 .. Len(Rest') /\ HeaderLength + (i - HeaderLength) = i
        BY <3>2, <1>4, <1>5, <1>7, Constants
      <4> QED
        BY <4>1, <1>4, <1>5, <1>9
    <3> QED
      BY <3>1, <3>2
  <2>2. head # m
    BY <1>3, <1>1, SentFacts
  <2> QED
    BY <2>1, <2>2, <1>1, <1>3, <1>9 DEF InStep
<1>10. CASE IsHeader(bytes) /\ ~TooLong(k) /\ sent[k].length > 0
  <2>1. pc' = "body" /\ head' = k /\ UNCHANGED <<quiet, faulted>>
    BY <1>2, <1>10
  <2>2. k \in DOMAIN sent /\ sent[k].length \in Nat
    BY <1>1, <1>8, <1>10, SentFacts
  <2>3. Limit' = HighestTimeout /\ HeaderLimit' = HeaderLimit
    BY <1>3, <2>1 DEF Limit, HeaderLimit
  <2>4. TypeOK'
    <3>1. sent[k].length \in 1 .. BufferLength /\ k \in 0 .. Len(sent) /\ k # 0
      BY <1>1, <1>10, <2>2, Constants, SentFacts DEF TooLong
    <3>2. wait' \in 0 .. Limit'
      BY <1>3, <2>3, Constants
    <3> QED
      BY <1>1, <1>3, <2>1, <3>1, <3>2 DEF TypeOK
  <2>5. BodyNext'
    BY <1>8, <1>10, <2>1 DEF BodyNext
  <2>6. InStep'
    <3>1. Bodies' = Bodies /\ \A m : Body(m)' = Body(m)
      BY <1>3 DEF Bodies, Body
    <3> QED
      BY <1>3, <1>9, <1>10, <2>1, <3>1 DEF InStep
  <2>7. TimeOK'
    <3> DEFINE x == Len(buffer) * HeaderLimit
               y == HeaderLength * HeaderLimit
    <3>1. /\ wait \in Nat /\ wait <= HeaderLimit /\ quiet \in Nat /\ HeaderLimit \in Nat
      BY <1>1, <1>3, Limits DEF TypeOK
    <3>2. Len(buffer) + 1 <= HeaderLength /\ HeaderLength \in Nat
      BY <1>4, <1>5, <1>7, Constants
    <3>3. x + HeaderLimit <= y /\ x \in Nat /\ y \in Nat
      BY <1>7, <3>1, <3>2, OneMore, Zenon
    <3>4. quiet < Watchdog + x + wait
      BY <1>1, <1>3 DEF TimeOK
    <3> HIDE DEF x, y
    <3>5. quiet' < Watchdog + y + 0 + 0
      BY <2>1, <3>1, <3>3, <3>4, Constants
    <3>6. Len(buffer') * HighestTimeout = 0
      <4>1. Len(buffer') = 0 /\ \A z \in Nat : 0 * z = 0
        BY <1>3
      <4> QED
        BY <4>1, Constants
    <3>7. HeaderLength * HeaderLimit' = y
      BY <2>3 DEF y
    <3> QED
      BY <1>3, <2>1, <3>5, <3>6, <3>7 DEF TimeOK
  <2> QED
    BY <1>5, <1>6, <2>4, <2>5, <2>6, <2>7 DEF IInv
<1>11. CASE ~(IsHeader(bytes) /\ ~TooLong(k) /\ sent[k].length > 0)
  <2>1. Return(FALSE, TRUE) /\ faulted' = (faulted \/ TooLong(k))
    BY <1>2, <1>11
  <2>2. TypeOK' /\ TimeOK' /\ BodyNext' /\ pc' # "body"
    <3>1. faulted' \in BOOLEAN
      BY <1>1, <2>1 DEF TypeOK, TooLong
    <3> QED
      BY <1>1, <1>3, <2>1, <3>1, Returned
  <2>3. InStep'
    <3>1. ASSUME ~faulted'
          PROVE  /\ pc' = "header" /\ Rest' # <<>> => Rest'[1][2] = 1
                 /\ \A m \in DOMAIN sent :
                      sent[m].data /\ (\A i \in 1 .. Len(Rest') : Rest'[i][1] # m) => Body(m) \in Bodies
      <4>1. ~faulted /\ ~TooLong(k)
        BY <2>1, <3>1
      <4>2. IsHeader(bytes)
        <5>1. Rest # <<>> /\ bytes[1] = Rest[1]
          BY <1>4, <1>5, <1>7, RestFacts, <1>1, Constants
        <5> QED
          BY <5>1, <4>1, <1>1, <1>3 DEF InStep, IsHeader
      <4>3. k \in DOMAIN sent /\ sent[k].length = 0 /\ ~sent[k].data
        BY <1>1, <1>8, <1>11, <4>1, <4>2, SentFacts
      <4> QED
        BY <1>8, <1>9, <4>1, <4>2, <4>3
    <3>2. Bodies' = Bodies /\ (\A m : Body(m)' = Body(m)) /\ sent' = sent
      BY <1>3 DEF Bodies, Body
    <3> QED
      BY <3>1, <3>2 DEF InStep
  <2> QED
    BY <1>5, <1>6, <2>2, <2>3 DEF IInv
<1> QED
  BY <1>10, <1>11

\* A body read to its end is the body of the message it belongs to, and what
\* follows belongs to later messages.
LEMMA BodyRead ==
  ASSUME IInv, pc = "body", NEW bytes \in Got, Receives(bytes), buffer' = <<>>,
         Complete(bytes)
  PROVE  /\ bytes = Body(head) /\ bytes[1][1] = head
         /\ \A i \in 1 .. Len(bytes) : Rest[i][1] = head
         /\ \A i \in 1 .. Len(Rest') : Rest'[i][1] \in Nat /\ Rest'[i][1] > head
         /\ Rest' # <<>> => Rest'[1][2] = 1
<1> DEFINE n == sent[head].length
<1>1. TypeOK /\ SeqsOK /\ StreamOK /\ Rest # <<>> /\ Rest[1] = <<head, HeaderLength + 1>>
  BY DEF IInv, BodyNext
<1>2. /\ bytes \in Seq(ByteSet)
      /\ Len(bytes) \in Len(buffer) + 1 .. Len(Rest)
      /\ \A i \in 1 .. Len(bytes) : bytes[i] = Rest[i]
      /\ Rest' = stream'
      /\ Len(Rest') = Len(Rest) - Len(bytes)
      /\ \A i \in 1 .. Len(Rest') : Rest'[i] = Rest[Len(bytes) + i]
  BY Completed
<1>3. head \in DOMAIN sent /\ n \in Nat /\ n >= 1 /\ Len(bytes) = n
  BY <1>1, Limits, Constants DEF Complete
<1>4. Len(Rest) \in Nat /\ Length(head) = HeaderLength + n /\ n <= Len(Rest) /\ head \in Nat
  BY <1>1, <1>2, <1>3, RestFacts, SentFacts DEF Length
<1> HIDE DEF n
<1>5. ASSUME NEW i \in 1 .. n
      PROVE  i \in 1 .. Len(Rest) /\ Rest[i] = <<head, HeaderLength + i>>
  <2>1. /\ HeaderLength + i \in HeaderLength + 1 .. Length(head)
        /\ 1 + ((HeaderLength + i) - (HeaderLength + 1)) = i
    BY <1>3, <1>4, Constants
  <2>2. /\ 1 + ((HeaderLength + i) - (HeaderLength + 1)) \in 1 .. Len(Rest)
        /\ Rest[1 + ((HeaderLength + i) - (HeaderLength + 1))] = <<head, HeaderLength + i>>
    BY <2>1, <1>1, MessageFollows, Zenon
  <2> QED
    BY <2>1, <2>2
<1>6. bytes = Body(head)
  <2>1. bytes = [i \in 1 .. n |-> bytes[i]]
    BY <1>2, <1>3
  <2>2. \A i \in 1 .. n : bytes[i] = <<head, HeaderLength + i>>
    BY <1>2, <1>3, <1>5
  <2> QED
    BY <2>1, <2>2 DEF Body, Byte, n
<1>7. bytes[1][1] = head /\ \A i \in 1 .. Len(bytes) : Rest[i][1] = head
  BY <1>2, <1>3, <1>5
<1>8. n \in 1 .. Len(Rest) /\ Rest[n] = <<head, Length(head)>>
  BY <1>3, <1>4, <1>5
<1>9. ASSUME NEW i \in 1 .. Len(Rest')
      PROVE  Rest'[i][1] \in Nat /\ Rest'[i][1] > head
  <2>1. n + i \in 1 .. Len(Rest) /\ n < n + i /\ (n + i) - n = i /\ Rest'[i] = Rest[n + i] /\ i >= 1 /\ i \in Nat
    BY <1>2, <1>3, <1>4
  <2>2. /\ Rest[n][1] <= Rest[n + i][1]
        /\ Rest[n][1] = Rest[n + i][1] => Rest[n + i][2] = Rest[n][2] + ((n + i) - n)
    BY <2>1, <1>1, <1>8 DEF StreamOK, InOrder
  <2>3. /\ Rest[n + i][1] \in 1 .. Len(sent)
        /\ Rest[n + i][2] \in 1 .. Length(Rest[n + i][1])
    BY <2>1, <1>1 DEF StreamOK, BytesSent
  <2>4. Rest[n + i][1] # head
    <3> SUFFICES ASSUME Rest[n + i][1] = head PROVE FALSE
      OBVIOUS
    <3>1. Rest[n + i][2] = Length(head) + i /\ Rest[n + i][2] \in 1 .. Length(head)
      BY <2>1, <2>2, <2>3, <1>8
    <3> QED
      BY <3>1, <2>1, <1>3, <1>4, Constants
  <2> QED
    BY <2>1, <2>2, <2>3, <2>4, <1>4, <1>8
<1>10. Rest' # <<>> => Rest'[1][2] = 1
  <2> SUFFICES ASSUME Rest' # <<>> PROVE Rest'[1][2] = 1
    OBVIOUS
  <2>1. stream' \in Seq(ByteSet)
    BY Completed
  <2>2. 1 \in 1 .. Len(Rest')
    BY <2>1, <1>2
  <2>3. n \in 1 .. (Len(Rest) - 1) /\ Rest'[1] = Rest[n + 1]
    BY <2>2, <1>2, <1>3, <1>4
  <2>4. Rest[n][2] = Length(Rest[n][1])
    BY <1>8
  <2> QED
    BY <2>3, <2>4, <1>1 DEF StreamOK, StartsFollow
<1> QED
  BY <1>6, <1>7, <1>9, <1>10

\* A whole body keeps the invariant.
LEMMA RecvBodyKeeps == IInv /\ RecvBody => IInv'
<1> SUFFICES ASSUME IInv, RecvBody PROVE IInv'
  OBVIOUS
<1>1. TypeOK /\ SeqsOK /\ StreamOK /\ BodyNext /\ HandedOK /\ InStep /\ TimeOK
  BY DEF IInv
<1>2. PICK bytes \in Got :
        /\ Complete(bytes) /\ Receives(bytes)
        /\ handed' = IF sent[head].data THEN Append(handed, bytes) ELSE handed
  BY DEF RecvBody
<1>3. /\ pc = "body" /\ Return(sent[head].data, TRUE) /\ buffer' = <<>> /\ head' = 0 /\ wait' = 0
      /\ UNCHANGED <<timeoutrecv, sent, fin, faulted>>
  BY <1>2 DEF RecvBody, Receives, Return
<1>4. /\ bytes \in Seq(ByteSet) /\ stream' \in Seq(ByteSet)
      /\ Len(bytes) \in Len(buffer) + 1 .. Len(Rest)
      /\ \A i \in 1 .. Len(bytes) : bytes[i] = Rest[i]
      /\ Rest' = stream' /\ StreamOK'
      /\ Len(Rest') = Len(Rest) - Len(bytes)
      /\ \A i \in 1 .. Len(Rest') : Rest'[i] = Rest[Len(bytes) + i]
      /\ handed' = handed => HandedOK'
  BY <1>2, <1>3, Completed
<1>5. /\ bytes = Body(head) /\ bytes[1][1] = head
      /\ \A i \in 1 .. Len(bytes) : Rest[i][1] = head
      /\ \A i \in 1 .. Len(Rest') : Rest'[i][1] \in Nat /\ Rest'[i][1] > head
      /\ Rest' # <<>> => Rest'[1][2] = 1
  BY <1>2, <1>3, BodyRead
<1>6. head \in DOMAIN sent /\ sent[head].data \in BOOLEAN /\ handed \in Seq(Seq(ByteSet))
  BY <1>1, <1>3, Limits, SentFacts, KindFacts DEF SeqsOK
<1>7. sent[head].data =>
        /\ handed' \in Seq(Seq(ByteSet)) /\ Len(handed') = Len(handed) + 1 /\ Len(handed) \in Nat
        /\ handed'[Len(handed')] = bytes
        /\ \A i \in 1 .. Len(handed) : handed'[i] = handed[i]
  BY <1>2, <1>4, <1>6, AppendProperties
<1>8. SeqsOK'
  BY <1>2, <1>3, <1>4, <1>6, <1>7 DEF SeqsOK
<1>9. TypeOK' /\ TimeOK' /\ BodyNext' /\ pc' # "body"
  <2>1. faulted' \in BOOLEAN
    BY <1>1, <1>3 DEF TypeOK
  <2> QED
    BY <1>1, <1>3, <1>6, <2>1, Returned
<1>10. \A m : [p \in 1 .. sent'[m].length |-> Byte(m, HeaderLength + p)] = Body(m)
  BY <1>3 DEF Body
<1>11. HandedOK'
  <2>1. CASE ~sent[head].data
    BY <2>1, <1>2, <1>4
  <2>2. CASE sent[head].data
    <3>1. handed' # <<>>
      BY <2>2, <1>7
    <3>2. LastHanded' = head
      BY <2>2, <3>1, <1>5, <1>7 DEF LastHanded
    <3>3. handed'[Len(handed')] = Body(head)
      BY <2>2, <1>5, <1>7
    <3>4. Body(LastHanded)' = Body(head)
      BY <3>2, <1>10 DEF Body
    <3> QED
      BY <3>1, <3>2, <3>3, <3>4, <1>3, <1>5, <1>6 DEF HandedOK
  <2> QED
    BY <2>1, <2>2, <1>6
<1>12. InStep'
  <2> SUFFICES ASSUME ~faulted, NEW m \in DOMAIN sent, sent[m].data,
                      \A i \in 1 .. Len(Rest') : Rest'[i][1] # m
               PROVE  Body(m) \in Bodies'
    BY <1>3, <1>5, <1>10 DEF InStep, Body
  <2>1. CASE m = head
    <3>1. Len(handed') \in DOMAIN handed' /\ handed'[Len(handed')] = Body(m)
      BY <2>1, <1>5, <1>7
    <3> QED
      BY <3>1 DEF Bodies
  <2>2. CASE m # head
    <3>1. ASSUME NEW i \in 1 .. Len(Rest)
          PROVE  Rest[i][1] # m
      <4>1. Len(Rest) \in Nat /\ Len(bytes) \in Nat
        BY <1>1, <1>4, RestFacts
      <4>2. CASE i <= Len(bytes)
        BY <4>1, <4>2, <1>5, <2>2
      <4>3. CASE ~(i <= Len(bytes))
        <5>1. i - Len(bytes) \in 1 .. Len(Rest') /\ Len(bytes) + (i - Len(bytes)) = i
          BY <4>1, <4>3, <1>4
        <5>2. /\ Rest'[i - Len(bytes)] = Rest[Len(bytes) + (i - Len(bytes))]
              /\ Rest'[i - Len(bytes)][1] # m
          BY <5>1, <1>4, Zenon
        <5> QED
          BY <5>1, <5>2
      <4> QED
        BY <4>2, <4>3
    <3>2. Body(m) \in Bodies
      BY <1>1, <1>3, <2>2, <3>1 DEF InStep
    <3>3. PICK i \in 1 .. Len(handed) : handed[i] = Body(m)
      BY <3>2, <1>6 DEF Bodies
    <3>4. i \in DOMAIN handed' /\ handed'[i] = Body(m)
      <4>1. CASE sent[head].data
        BY <4>1, <3>3, <1>7
      <4>2. CASE ~sent[head].data
        BY <4>2, <3>3, <1>2, <1>6
      <4> QED
        BY <4>1, <4>2
    <3> QED
      BY <3>4 DEF Bodies
  <2> QED
    BY <2>1, <2>2
<1> QED
  BY <1>4, <1>8, <1>9, <1>11, <1>12 DEF IInv

-----------------------------------------------------------------------------
\* Nothing is sent, read or handed on at first.
LEMMA InitIInv == Init => IInv
<1> SUFFICES ASSUME Init PROVE IInv
  OBVIOUS
<1>1. /\ timeoutrecv \in RecvTimeouts /\ sent = <<>> /\ fin = FALSE /\ stream = <<>>
      /\ pc = "header" /\ head = 0 /\ buffer = <<>> /\ wait = 0 /\ quiet = 0
      /\ handed = <<>> /\ faulted = FALSE
  BY DEF Init
<1>2. Rest = <<>> /\ Len(Rest) = 0
  BY <1>1 DEF Rest
<1>3. TypeOK
  <2>1. wait \in 0 .. Limit
    BY <1>1, Constants DEF Limit
  <2>2. sent \in Seq(Kinds) /\ Len(sent) = 0 /\ head \in 0 .. Len(sent)
    BY <1>1
  <2> QED
    BY <1>1, <2>1, <2>2 DEF TypeOK
<1>4. SeqsOK /\ StreamOK /\ BodyNext /\ HandedOK
  BY <1>1, <1>2 DEF SeqsOK, StreamOK, BytesSent, InOrder, EndsFollow, StartsFollow, BodyNext, HandedOK
<1>5. InStep
  BY <1>1, <1>2 DEF InStep
<1>6. TimeOK
  <2>1. HeaderLimit \in Nat /\ Len(buffer) = 0 /\ \A z \in Nat : 0 * z = 0
    BY <1>1, Constants DEF HeaderLimit
  <2>2. Len(buffer) * HeaderLimit = 0
    BY <2>1
  <2>3. quiet < Watchdog + 0 + wait
    BY <1>1, Constants
  <2> QED
    BY <1>1, <2>2, <2>3 DEF TimeOK
<1> QED
  BY <1>3, <1>4, <1>5, <1>6 DEF IInv

LEMMA NextIInv == IInv /\ [Next]_vars => IInv'
<1> SUFFICES ASSUME IInv, [Next]_vars PROVE IInv'
  OBVIOUS
<1>1. CASE Send
  BY <1>1, SendKeeps
<1>2. CASE Close
  BY <1>2, CloseKeeps
<1>3. CASE Tick
  BY <1>3, TickKeeps
<1>4. CASE RecvPart
  BY <1>4, RecvPartKeeps
<1>5. CASE RecvHeader
  BY <1>5, RecvHeaderKeeps
<1>6. CASE RecvBody
  BY <1>6, RecvBodyKeeps
<1>7. CASE TimedOut \/ EndOfStream \/ Interrupted
  BY <1>7, GivenUpKeeps DEF EndOfStream, Interrupted
<1>8. CASE UNCHANGED vars
  <2>1. UNCHANGED <<timeoutrecv, sent, fin, stream, pc, head, buffer, wait, quiet, handed, faulted>>
    BY <1>8 DEF vars, reading
  <2>2. TypeOK' /\ TimeOK'
    BY <2>1 DEF IInv, TypeOK, TimeOK, Needed, Limit, HeaderLimit
  <2> QED
    BY <2>1, <2>2, Unmoved DEF IInv
<1> QED
  BY <1>1, <1>2, <1>3, <1>4, <1>5, <1>6, <1>7, <1>8 DEF Next, Reader

\* In every reachable state the bytes that are left are in the order they were
\* sent in, and the reader knows where in them it stands.
THEOREM InductiveInvariant == Spec => []IInv
BY InitIInv, NextIInv, PTL DEF Spec

\* Every variable keeps its type, and a body is read only into a buffer that
\* holds it.
THEOREM TypeCorrect == Spec => []TypeOK
<1>1. IInv => TypeOK
  BY DEF IInv
<1> QED
  BY <1>1, InductiveInvariant, PTL

\* However the stream is split among the recv(), until a message is left before
\* its end the reader starts at the beginning of a message, and every data
\* message that has been read became a packet.
THEOREM InStepUntilFault == Spec => []NothingLostUntilFault
<1>1. IInv => NothingLostUntilFault
  <2> SUFFICES ASSUME IInv, ~faulted, buffer = <<>>
               PROVE  /\ pc = "header" /\ stream # <<>> => stream[1][2] = 1
                      /\ pc # "closed" => \A k \in DOMAIN sent : IsRead(k) => Body(k) \in Bodies
    BY DEF NothingLostUntilFault
  <2>1. Rest = stream /\ stream \in Seq(ByteSet) /\ InStep
    BY ConcatEmptySeq DEF IInv, SeqsOK, Rest
  <2> QED
    BY <2>1 DEF InStep, IsRead
<1> QED
  BY <1>1, InductiveInvariant, PTL

\* The connection is never kept longer without data than the watchdog and the
\* longest time the message that is being read can take: the watchdog is looked
\* at only between two messages, whatever the time-out of the caller.
THEOREM SilenceIsBounded == Spec => []SilenceBounded
<1>1. IInv => SilenceBounded
  <2> SUFFICES ASSUME IInv, pc # "closed" PROVE SilenceBounded
    BY DEF SilenceBounded
  <2>1. TypeOK /\ SeqsOK /\ TimeOK
    BY DEF IInv
  <2>2. /\ wait \in Nat /\ wait <= Limit /\ Limit \in Nat /\ Limit >= 1 /\ quiet \in Nat
        /\ HeaderLimit \in Nat /\ Len(buffer) \in Nat
    BY <2>1, Limits DEF TypeOK, SeqsOK
  <2>3. Needed >= 1 => Len(buffer) + 1 <= Needed
    <3>1. CASE buffer = <<>>
      BY <3>1
    <3>2. CASE buffer # <<>>
      BY <3>2, <2>1, <2>2, Limits DEF TypeOK
    <3> QED
      BY <3>1, <3>2
  <2>4. CASE pc = "header"
    <3> DEFINE x == Len(buffer) * HeaderLimit
               y == HeaderLength * HeaderLimit
    <3>1. Len(buffer) + 1 <= HeaderLength /\ HeaderLength \in Nat /\ Limit = HeaderLimit
      BY <2>1, <2>3, <2>4, Limits, Constants
    <3>2. x + HeaderLimit <= y /\ x \in Nat /\ y \in Nat
      BY <2>2, <3>1, OneMore, Zenon
    <3>3. quiet < Watchdog + x + wait
      BY <2>1, <2>4 DEF TimeOK
    <3> HIDE DEF x, y
    <3>4. quiet < Watchdog + y + 0
      BY <2>2, <3>1, <3>2, <3>3, Constants
    <3> QED
      BY <2>4, <3>4 DEF SilenceBounded, HeaderLimit, y
  <2>5. CASE pc = "body"
    <3> DEFINE n == sent[head].length
               x == Len(buffer) * HighestTimeout
               y == n * HighestTimeout
               z == HeaderLength * HeaderLimit
    <3>1. n \in Nat /\ n >= 1 /\ Needed = n /\ Limit = HighestTimeout
      BY <2>1, <2>5, Limits, Constants
    <3>2. Len(buffer) + 1 <= n
      BY <2>3, <3>1
    <3>3. x + HighestTimeout <= y /\ x \in Nat /\ y \in Nat
      <4> HIDE DEF n
      <4> QED
        BY <2>2, <3>1, <3>2, Constants, OneMore, Zenon
    <3>4. quiet < Watchdog + z + x + wait /\ z \in Nat
      BY <2>1, <2>2, <2>5, Constants DEF TimeOK
    <3> HIDE DEF x, y, z, n
    <3>5. quiet < Watchdog + z + y
      BY <2>2, <3>1, <3>3, <3>4, Constants
    <3> QED
      BY <2>5, <3>5 DEF SilenceBounded, HeaderLimit, y, z, n
  <2> QED
    BY <2>1, <2>4, <2>5 DEF TypeOK
<1> QED
  BY <1>1, InductiveInvariant, PTL

-----------------------------------------------------------------------------
(* The refinement of LossyFifo                                             *)

\* The last message handed on was sent before.
LEMMA LastHandedFacts ==
  ASSUME IInv
  PROVE  LastHanded \in Nat /\ LastHanded <= Len(sent) /\ Len(sent) \in Nat
<1>1. sent \in Seq(Kinds) /\ HandedOK
  BY DEF IInv, TypeOK
<1>2. CASE handed = <<>>
  BY <1>1, <1>2 DEF LastHanded
<1>3. CASE handed # <<>>
  BY <1>1, <1>3 DEF HandedOK
<1> QED
  BY <1>2, <1>3

\* A data message sent is one more that may come; the others do not concern
\* the caller.
LEMMA SendRefines == IInv /\ Send => [Fifo!Next]_Fifo!vars
<1> SUFFICES ASSUME IInv, Send PROVE [Fifo!Next]_Fifo!vars
  OBVIOUS
<1>1. PICK kind \in Kinds : sent' = Append(sent, kind)
  BY DEF Send
<1> DEFINE n == Len(sent) + 1
<1>2. /\ sent \in Seq(Kinds) /\ handed' = handed
      /\ LastHanded \in Nat /\ LastHanded < n /\ n \in Nat
  BY LastHandedFacts DEF IInv, TypeOK, Send
<1>3. /\ DOMAIN sent = 1 .. Len(sent) /\ DOMAIN sent' = 1 .. n /\ sent'[n] = kind
      /\ \A k \in DOMAIN sent : sent'[k] = sent[k]
  BY <1>1, <1>2, AppendProperties
<1> DEFINE NewBody(k) == [p \in 1 .. sent'[k].length |-> Byte(k, HeaderLength + p)]
<1>4. \A k \in DOMAIN sent : NewBody(k) = Body(k) /\ k < n
  BY <1>2, <1>3 DEF Body
<1>5. LastHanded' = LastHanded
  BY <1>2 DEF LastHanded
<1>6. Outstanding' = {[nr |-> k, message |-> NewBody(k)] :
                       k \in {j \in DOMAIN sent' : sent'[j].data /\ j > LastHanded}}
  BY <1>5 DEF Outstanding, Body
<1> HIDE DEF NewBody
<1>7. DOMAIN sent' = DOMAIN sent \cup {n} /\ n \notin DOMAIN sent
  BY <1>2, <1>3
<1> HIDE DEF n
<1>8. Outstanding' = Outstanding \cup
        (IF kind.data THEN {[nr |-> n, message |-> NewBody(n)]} ELSE {})
  BY <1>2, <1>3, <1>4, <1>6, <1>7 DEF Outstanding
<1>9. CASE kind.data
  <2> DEFINE new == [nr |-> n, message |-> NewBody(n)]
  <2>1. new \in Outstanding' /\ Outstanding' = Outstanding \cup {new}
    BY <1>8, <1>9
  <2>2. \A m \in Outstanding : m.nr < new.nr
    BY <1>4 DEF Outstanding
  <2>3. Fifo!Send
    BY <2>1, <2>2, <1>2 DEF Fifo!Send
  <2> QED
    BY <2>3 DEF Fifo!Next
<1>10. CASE ~kind.data
  BY <1>2, <1>8, <1>10 DEF Fifo!vars
<1> QED
  BY <1>9, <1>10

\* A data message whose body has been read comes; those before it that have not
\* come are lost.
LEMMA RecvBodyRefines == IInv /\ RecvBody => [Fifo!Next]_Fifo!vars
<1> SUFFICES ASSUME IInv, RecvBody PROVE [Fifo!Next]_Fifo!vars
  OBVIOUS
<1>1. PICK bytes \in Got :
        /\ Complete(bytes) /\ Receives(bytes)
        /\ handed' = IF sent[head].data THEN Append(handed, bytes) ELSE handed
  BY DEF RecvBody
<1>2. pc = "body" /\ buffer' = <<>> /\ sent' = sent
  BY <1>1 DEF RecvBody, Receives, Return
<1>3. bytes = Body(head) /\ bytes[1][1] = head
  BY <1>1, <1>2, BodyRead
<1>4. LastHanded' = LastHanded \/ handed' # handed
  BY DEF LastHanded
<1>5. CASE ~sent[head].data
  BY <1>1, <1>2, <1>5 DEF Outstanding, LastHanded, Body, Fifo!vars
<1>6. CASE sent[head].data
  <2>1. handed \in Seq(Seq(ByteSet)) /\ bytes \in Seq(ByteSet)
    BY <1>1, <1>2, Completed DEF IInv, SeqsOK
  <2>2. handed' # <<>> /\ handed'[Len(handed')] = bytes
    BY <1>1, <1>6, <2>1, AppendProperties
  <2>3. LastHanded' = head
    BY <1>3, <2>2 DEF LastHanded
  <2>4. head \in DOMAIN sent /\ head > LastHanded
    <3>1. head \in DOMAIN sent
      BY <1>2, Limits DEF IInv
    <3>2. 1 \in 1 .. Len(Rest) /\ Rest[1][1] = head
      BY <1>2, RestFacts DEF IInv, BodyNext
    <3> QED
      BY <3>1, <3>2 DEF IInv, HandedOK
  <2> DEFINE m == [nr |-> head, message |-> Body(head)]
  <2>5. m \in Outstanding
    BY <1>6, <2>4 DEF Outstanding
  <2>6. handed' = Append(handed, m.message)
    BY <1>1, <1>3, <1>6
  <2>7. Outstanding' = {later \in Outstanding : later.nr > m.nr}
    <3>1. LastHanded \in Nat /\ head \in Nat /\ \A k \in DOMAIN sent : k \in Nat
      BY <2>4, LastHandedFacts DEF IInv, TypeOK
    <3>2. Outstanding' = {[nr |-> k, message |-> Body(k)] :
                            k \in {j \in DOMAIN sent : sent[j].data /\ j > head}}
      BY <1>2, <2>3 DEF Outstanding, Body
    <3>3. \A k \in DOMAIN sent : k > head => k > LastHanded
      BY <2>4, <3>1
    <3> QED
      BY <3>2, <3>3 DEF Outstanding
  <2>8. Fifo!Deliver
    BY <2>5, <2>6, <2>7 DEF Fifo!Deliver
  <2> QED
    BY <2>8 DEF Fifo!Next
<1> QED
  BY <1>5, <1>6

\* Whatever is lost, the packets handed on are messages as they were sent, each
\* once and in the order of sending: bytes read out of step are never taken for
\* a packet.
THEOREM RefinesLossyFifo == Spec => ImplementsLossyFifo
<1>1. Init => Fifo!Init
  BY DEF Init, Fifo!Init, Outstanding
<1>2. IInv /\ [Next]_vars => [Fifo!Next]_Fifo!vars
  <2> SUFFICES ASSUME IInv, [Next]_vars PROVE [Fifo!Next]_Fifo!vars
    OBVIOUS
  <2>1. CASE Send
    BY <2>1, SendRefines
  <2>2. CASE RecvBody
    BY <2>2, RecvBodyRefines
  <2>3. CASE ~Send /\ ~RecvBody
    <3>1. UNCHANGED <<sent, handed>>
      BY <2>3 DEF Next, Reader, Close, Tick, RecvPart, RecvHeader, Receives, TimedOut,
                  EndOfStream, Interrupted, Fails, vars
    <3> QED
      BY <3>1 DEF Outstanding, LastHanded, Body, Fifo!vars
  <2> QED
    BY <2>1, <2>2, <2>3
<1> QED
  BY <1>1, <1>2, InductiveInvariant, PTL DEF Spec, ImplementsLossyFifo, Fifo!Spec
=============================================================================
