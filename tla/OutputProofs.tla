------------------------------ MODULE OutputProofs ------------------------------
(***************************************************************************)
(* What the two outputs of main() guarantee: SeedFiles for every set of    *)
(* channels, every size of the ring, of a record and of a packet, and      *)
(* every length of a day, and Listen for any number of clients.            *)
(***************************************************************************)
EXTENDS SeedFiles, Listen, SequenceTheorems, TLAPS

-----------------------------------------------------------------------------
(* Mini-SEED files                                                         *)

Names == (Channel \X Int) \cup {NoFile}
Record == [file : Names, samples : Seq(Int), upTo : Nat]

SeedTypes ==
  /\ slots \in [Slots -> [name : Names, open : BOOLEAN]]
  /\ nOpen \in 0 .. MaxFiles
  /\ last \in -1 .. (MaxFiles - 1)
  /\ buffer \in [Channel -> Seq(Int)]
  /\ packet \in [channel : {packet.channel}, samples : Seq(Int)]
  /\ step = "append" \/ step = "pack" => packet.channel \in Channel
  /\ step # "append" => packet.samples = <<>>
  /\ received \in [Channel -> Seq(Int)]
  /\ records \in [Channel -> Seq(Record)]

\* The slots are taken one after the other, and a name without file is that of a
\* file that was refused.
RingOK ==
  /\ nOpen < MaxFiles => last = nOpen - 1
  /\ RingInOrder
  /\ \A k \in 0 .. (nOpen - 1) : ~slots[k].open => slots[k].name \in refused

\* Samples without a gap.
Run(s) == \A q \in 1 .. Len(s) : s[q] = s[1] + q - 1

\* What waits for its record to fill spans no gap, nor does a packet.
WaitingOK == Run(packet.samples) /\ \A c \in Channel : Run(buffer[c])

\* A record lies in its file unless that was refused, and spans no gap.
RecordOK(c, r, no) ==
  /\ r.samples # <<>> /\ Run(r.samples)
  /\ r.file \in {NoFile, FileOf(c, r.samples[1])}
  /\ r.file = NoFile => FileOf(c, r.samples[1]) \in no

RecordsOK == \A c \in Channel : \A k \in 1 .. Len(records[c]) : RecordOK(c, records[c][k], refused)

\* The samples handled that are not packed.
Waiting(c) == buffer[c] \o (IF packet.channel = c THEN packet.samples ELSE <<>>)

\* s is what r holds after its first a elements.
Follows(s, r, a) == a + Len(s) <= Len(r) /\ \A q \in 1 .. Len(s) : s[q] = r[a + q]

\* Where the k-th record of a channel begins.
Start(c, k) == IF k = 1 THEN 0 ELSE records[c][k - 1].upTo

\* The records and what waits cut what was handled into pieces.
CutAt(c) ==
  /\ \A k \in 1 .. Len(records[c]) :
       /\ Follows(records[c][k].samples, received[c], Start(c, k))
       /\ records[c][k].upTo = Start(c, k) + Len(records[c][k].samples)
  /\ Follows(Waiting(c), received[c], PackedSoFar(c))
  /\ PackedSoFar(c) + Len(Waiting(c)) = Len(received[c])

CutOK == \A c \in Channel : CutAt(c)

\* The inductive invariant.
SeedIInv == SeedTypes /\ RingOK /\ WaitingOK /\ RecordsOK /\ CutOK

-----------------------------------------------------------------------------
\* What is assumed of the sizes.
LEMMA Sizes ==
  /\ MaxFiles \in Nat /\ MaxFiles >= 1
  /\ RecordSize \in Nat /\ RecordSize >= 1
  /\ DayLength \in Nat /\ DayLength >= 1
BY SeedAssumption DEF SeedAssumption

\* Going round the ring.
LEMMA Round ==
  ASSUME NEW m \in Nat, m >= 1
  PROVE  /\ m % m = 0
         /\ \A x \in 0 .. (m - 1) : x % m = x
OBVIOUS

\* The next slot is one of the ring, the first free one if there is one.
LEMMA VictimFacts ==
  ASSUME SeedTypes, RingOK
  PROVE  /\ Victim \in Slots
         /\ nOpen < MaxFiles => Victim = nOpen
<1>1. last + 1 \in 0 .. MaxFiles /\ nOpen \in 0 .. MaxFiles
  BY Sizes DEF SeedTypes
<1>2. CASE last + 1 = MaxFiles
  <2>1. Victim = 0
    BY <1>2, Sizes, Round DEF Victim
  <2> QED
    BY <1>2, <2>1, <1>1, Sizes DEF RingOK, Slots
<1>3. CASE last + 1 # MaxFiles
  <2>1. last + 1 \in 0 .. (MaxFiles - 1)
    BY <1>1, <1>3, Sizes
  <2>2. Victim = last + 1
    BY <2>1, Sizes, Round DEF Victim
  <2>3. nOpen < MaxFiles => last + 1 = nOpen
    BY <1>1 DEF RingOK, SeedTypes
  <2> QED
    BY <2>1, <2>2, <2>3 DEF Slots
<1> QED
  BY <1>2, <1>3

\* A file is that of a channel and a day, and not NoFile.
LEMMA FileFacts ==
  ASSUME NEW c \in Channel, NEW t \in Int
  PROVE  FileOf(c, t) \in Names /\ FileOf(c, t) # NoFile
<1>1. t \div DayLength \in Int
  BY Sizes
<1>2. FileOf(c, t) = <<c, t \div DayLength>>
  BY DEF FileOf
<1> HIDE DEF FileOf
<1> QED
  BY <1>1, <1>2 DEF Names, NoFile

\* The next slot gets the name of a file that is not in the ring, with the file
\* or, if fopen() refuses it, without.
LEMMA OpenKeeps ==
  ASSUME SeedTypes, RingOK, NEW f \in Names, Holding(f) = {}, NEW opened \in BOOLEAN,
         OpenAt(f, opened),
         refused' = IF opened THEN refused ELSE refused \cup {f}
  PROVE  /\ slots' \in [Slots -> [name : Names, open : BOOLEAN]]
         /\ nOpen' \in 0 .. MaxFiles /\ last' \in -1 .. (MaxFiles - 1)
         /\ RingOK'
<1> DEFINE v == Victim
<1>1. v \in Slots /\ (nOpen < MaxFiles => v = nOpen)
  BY VictimFacts
<1>2. /\ slots \in [Slots -> [name : Names, open : BOOLEAN]]
      /\ nOpen \in 0 .. MaxFiles /\ last \in -1 .. (MaxFiles - 1)
  BY DEF SeedTypes
<1>3. /\ slots' = [slots EXCEPT ![v] = [name |-> f, open |-> opened]]
      /\ last' = IF opened THEN v ELSE last
      /\ nOpen' = IF opened /\ nOpen < MaxFiles THEN nOpen + 1 ELSE nOpen
  BY DEF OpenAt, NewName, NextLast
<1>4. /\ \A k \in Slots : slots[k].open => k < nOpen
      /\ \A k, l \in 0 .. (nOpen - 1) : slots[k].name = slots[l].name => k = l
      /\ \A k \in 0 .. (nOpen - 1) : slots[k].open \/ k = v
      /\ \A k \in 0 .. (nOpen - 1) : ~slots[k].open => slots[k].name \in refused
      /\ nOpen < MaxFiles => last = nOpen - 1
  BY DEF RingOK, RingInOrder
<1>5. \A k \in 0 .. (nOpen - 1) : slots[k].name # f
  BY DEF Holding
<1>6. Slots = 0 .. (MaxFiles - 1) /\ MaxFiles \in Nat
  BY Sizes DEF Slots
<1> HIDE DEF v
<1>7. /\ slots'[v] = [name |-> f, open |-> opened]
      /\ \A k \in Slots : k # v => slots'[k] = slots[k]
  BY <1>1, <1>2, <1>3
<1>8. slots' \in [Slots -> [name : Names, open : BOOLEAN]]
  BY <1>1, <1>2, <1>3
<1>9. nOpen' \in 0 .. MaxFiles /\ last' \in -1 .. (MaxFiles - 1)
  BY <1>1, <1>2, <1>3, <1>6
<1>10. nOpen' < MaxFiles => last' = nOpen' - 1
  BY <1>1, <1>2, <1>3, <1>4, <1>6
<1>11. \A k \in 0 .. (nOpen' - 1) : k \in Slots /\ (k = v \/ k \in 0 .. (nOpen - 1))
  BY <1>1, <1>2, <1>3, <1>6, <1>9
<1>12. \A k \in Slots : slots'[k].open => k < nOpen'
  <2> SUFFICES ASSUME NEW k \in Slots, slots'[k].open PROVE k < nOpen'
    OBVIOUS
  <2>1. CASE k = v
    BY <2>1, <1>1, <1>2, <1>3, <1>6, <1>7
  <2>2. CASE k # v
    <3>1. k < nOpen
      BY <2>2, <1>4, <1>7
    <3> QED
      BY <3>1, <1>2, <1>3, <1>6
  <2> QED
    BY <2>1, <2>2
<1>13. \A k, l \in 0 .. (nOpen' - 1) : slots'[k].name = slots'[l].name => k = l
  BY <1>4, <1>5, <1>7, <1>11
<1>14. \A k \in 0 .. (nOpen' - 1) : slots'[k].open \/ k = Victim'
  <2> SUFFICES ASSUME NEW k \in 0 .. (nOpen' - 1), ~slots'[k].open PROVE k = Victim'
    OBVIOUS
  <2>1. CASE opened
    <3>1. k # v /\ k \in 0 .. (nOpen - 1) /\ ~slots[k].open
      BY <2>1, <1>7, <1>11
    <3> QED
      BY <3>1, <1>4
  <2>2. CASE ~opened
    <3>1. k = v
      BY <1>4, <1>7, <1>11
    <3>2. Victim' = v
      BY <2>2, <1>3 DEF Victim, v
    <3> QED
      BY <3>1, <3>2
  <2> QED
    BY <2>1, <2>2
<1>15. \A k \in 0 .. (nOpen' - 1) : ~slots'[k].open => slots'[k].name \in refused'
  BY <1>4, <1>7, <1>11
<1> QED
  BY <1>8, <1>9, <1>10, <1>12, <1>13, <1>14, <1>15 DEF RingOK, RingInOrder

\* A record goes to its file, or to none if that was refused, and the ring keeps
\* its order.
LEMMA WriteStep ==
  ASSUME SeedTypes, RingOK, NEW c \in Channel, NEW s \in Seq(Int), s # <<>>, WriteRecord(c, s)
  PROVE  /\ slots' \in [Slots -> [name : Names, open : BOOLEAN]]
         /\ nOpen' \in 0 .. MaxFiles /\ last' \in -1 .. (MaxFiles - 1)
         /\ RingOK' /\ refused \subseteq refused'
         /\ \E g \in {NoFile, FileOf(c, s[1])} :
              /\ g = NoFile => FileOf(c, s[1]) \in refused'
              /\ records' = [records EXCEPT ![c] =
                   Append(records[c], [file |-> g, samples |-> s, upTo |-> PackedSoFar(c) + Len(s)])]
<1> DEFINE f == FileOf(c, s[1])
           Written(g) == records' = [records EXCEPT ![c] =
             Append(records[c], [file |-> g, samples |-> s, upTo |-> PackedSoFar(c) + Len(s)])]
<1>1. s[1] \in Int
  OBVIOUS
<1>2. f \in Names /\ f # NoFile
  BY <1>1, FileFacts
<1>3. \/ /\ Holding(f) # {}
         /\ cur' = Current(f)
         /\ Written(IF slots[cur'].open THEN slots[cur'].name ELSE NoFile)
         /\ UNCHANGED <<slots, nOpen, last, dirs, errGeneral, refused>>
      \/ /\ Holding(f) = {} /\ c \notin dirs
         /\ Written(NoFile)
         /\ refused' = refused \cup {f}
         /\ UNCHANGED <<ring, dirs>>
      \/ /\ Holding(f) = {}
         /\ \E opened \in BOOLEAN :
              /\ OpenAt(f, opened)
              /\ Written(IF opened THEN f ELSE NoFile)
              /\ refused' = IF opened THEN refused ELSE refused \cup {f}
  BY DEF WriteRecord
<1> HIDE DEF f, Written
<1>4. ASSUME UNCHANGED <<slots, nOpen, last>>, refused \subseteq refused'
      PROVE  /\ slots' \in [Slots -> [name : Names, open : BOOLEAN]]
             /\ nOpen' \in 0 .. MaxFiles /\ last' \in -1 .. (MaxFiles - 1)
             /\ RingOK'
  BY <1>4 DEF SeedTypes, RingOK, RingInOrder, Victim
<1>5. CASE /\ Holding(f) # {}
           /\ cur' = Current(f)
           /\ Written(IF slots[cur'].open THEN slots[cur'].name ELSE NoFile)
           /\ UNCHANGED <<slots, nOpen, last, dirs, errGeneral, refused>>
  <2>1. cur' \in 0 .. (nOpen - 1) /\ slots[cur'].name = f
    <3>1. Current(f) \in Holding(f)
      BY <1>5 DEF Current
    <3> QED
      BY <3>1, <1>5 DEF Holding
  <2>2. CASE slots[cur'].open
    BY <2>1, <2>2, <1>2, <1>4, <1>5 DEF f, Written
  <2>3. CASE ~slots[cur'].open
    <3>1. f \in refused'
      BY <2>1, <2>3, <1>5 DEF RingOK
    <3> QED
      BY <2>3, <3>1, <1>4, <1>5 DEF f, Written
  <2> QED
    BY <2>2, <2>3
<1>6. CASE /\ Holding(f) = {} /\ c \notin dirs
           /\ Written(NoFile)
           /\ refused' = refused \cup {f}
           /\ UNCHANGED <<ring, dirs>>
  BY <1>4, <1>6 DEF f, Written, ring
<1>7. ASSUME Holding(f) = {}, NEW opened \in BOOLEAN,
             OpenAt(f, opened), Written(IF opened THEN f ELSE NoFile),
             refused' = IF opened THEN refused ELSE refused \cup {f}
      PROVE  /\ slots' \in [Slots -> [name : Names, open : BOOLEAN]]
             /\ nOpen' \in 0 .. MaxFiles /\ last' \in -1 .. (MaxFiles - 1)
             /\ RingOK' /\ refused \subseteq refused'
             /\ \E g \in {NoFile, f} : (g = NoFile => f \in refused') /\ Written(g)
  <2>1. /\ slots' \in [Slots -> [name : Names, open : BOOLEAN]]
        /\ nOpen' \in 0 .. MaxFiles /\ last' \in -1 .. (MaxFiles - 1)
        /\ RingOK'
    BY <1>2, <1>7, OpenKeeps
  <2>2. CASE opened
    BY <1>2, <1>7, <2>1, <2>2
  <2>3. CASE ~opened
    BY <1>7, <2>1, <2>3
  <2> QED
    BY <2>2, <2>3
<1>8. CASE \E opened \in BOOLEAN :
             /\ Holding(f) = {}
             /\ OpenAt(f, opened)
             /\ Written(IF opened THEN f ELSE NoFile)
             /\ refused' = IF opened THEN refused ELSE refused \cup {f}
  BY <1>7, <1>8 DEF f, Written
<1> QED
  BY <1>3, <1>5, <1>6, <1>8

-----------------------------------------------------------------------------
\* The first n elements of a sequence, and the others.
LEMMA Halves ==
  ASSUME NEW b \in Seq(Int), NEW n \in 1 .. Len(b)
  PROVE  /\ SubSeq(b, 1, n) \in Seq(Int) /\ Len(SubSeq(b, 1, n)) = n
         /\ SubSeq(b, 1, n) # <<>>
         /\ \A q \in 1 .. n : SubSeq(b, 1, n)[q] = b[q]
         /\ SubSeq(b, n + 1, Len(b)) \in Seq(Int)
         /\ Len(SubSeq(b, n + 1, Len(b))) = Len(b) - n
         /\ \A q \in 1 .. (Len(b) - n) : SubSeq(b, n + 1, Len(b))[q] = b[n + q]
<1>1. Len(b) \in Nat /\ n \in Nat /\ n >= 1 /\ n <= Len(b)
  OBVIOUS
<1>2. \A q \in 1 .. Len(b) : b[q] \in Int
  OBVIOUS
<1> DEFINE s == SubSeq(b, 1, n)
           t == SubSeq(b, n + 1, Len(b))
<1>3. /\ s \in Seq(Int) /\ Len(s) = n
      /\ \A q \in 1 .. n : s[q] = b[q]
  <2>1. \A q \in 1 .. n : b[q] \in Int
    BY <1>1, <1>2
  <2> QED
    BY <1>1, <2>1, SubSeqProperties
<1>4. /\ t \in Seq(Int)
      /\ Len(t) = IF n + 1 <= Len(b) THEN Len(b) - (n + 1) + 1 ELSE 0
      /\ \A q \in 1 .. (Len(b) - (n + 1) + 1) : t[q] = b[(n + 1) + q - 1]
  <2>1. \A q \in n + 1 .. Len(b) : b[q] \in Int
    BY <1>1, <1>2
  <2>2. n + 1 \in Int /\ Len(b) \in Int
    BY <1>1
  <2> QED
    <3>1. ASSUME NEW m \in Int, NEW l \in Int, \A q \in m .. l : b[q] \in Int
          PROVE  /\ SubSeq(b, m, l) \in Seq(Int)
                 /\ Len(SubSeq(b, m, l)) = IF m <= l THEN l - m + 1 ELSE 0
                 /\ \A q \in 1 .. (l - m + 1) : SubSeq(b, m, l)[q] = b[m + q - 1]
      BY ONLY <3>1, m \in Int, l \in Int, SubSeqProperties
    <3> QED
      BY ONLY <2>1, <2>2, <3>1
<1> HIDE DEF s, t
<1>5. Len(t) = Len(b) - n
  BY <1>1, <1>4
<1>6. \A q \in 1 .. (Len(b) - n) : t[q] = b[n + q]
  BY <1>1, <1>4
<1>7. s # <<>>
  BY <1>1, <1>3
<1> QED
  BY <1>3, <1>4, <1>5, <1>6, <1>7 DEF s, t

\* The part of a run is a run.
LEMMA RunParts ==
  ASSUME NEW b \in Seq(Int), Run(b), NEW n \in 1 .. Len(b)
  PROVE  Run(SubSeq(b, 1, n)) /\ Run(SubSeq(b, n + 1, Len(b)))
<1> DEFINE s == SubSeq(b, 1, n)
           t == SubSeq(b, n + 1, Len(b))
<1>1. /\ Len(s) = n /\ Len(t) = Len(b) - n
      /\ \A q \in 1 .. n : s[q] = b[q]
      /\ \A q \in 1 .. (Len(b) - n) : t[q] = b[n + q]
  BY Halves
<1>2. Len(b) \in Nat /\ n \in Nat /\ n >= 1 /\ n <= Len(b) /\ \A q \in 1 .. Len(b) : b[q] \in Int
  OBVIOUS
<1>3. \A q \in 1 .. Len(b) : b[q] = b[1] + q - 1
  BY DEF Run
<1> HIDE DEF s, t
<1>4. Run(s)
  <2> SUFFICES ASSUME NEW q \in 1 .. Len(s) PROVE s[q] = s[1] + q - 1
    BY DEF Run
  <2>1. q \in 1 .. n /\ 1 \in 1 .. n /\ q \in 1 .. Len(b)
    BY <1>1, <1>2
  <2> QED
    BY <1>1, <1>3, <2>1
<1>5. Run(t)
  <2> SUFFICES ASSUME NEW q \in 1 .. Len(t) PROVE t[q] = t[1] + q - 1
    BY DEF Run
  <2>1. /\ q \in 1 .. (Len(b) - n) /\ 1 \in 1 .. (Len(b) - n)
        /\ n + q \in 1 .. Len(b) /\ n + 1 \in 1 .. Len(b)
    BY <1>1, <1>2
  <2>2. t[q] = b[n + q] /\ t[1] = b[n + 1]
    BY <1>1, <2>1
  <2>3. /\ b[n + q] = b[1] + (n + q) - 1 /\ b[n + 1] = b[1] + (n + 1) - 1
        /\ b[1] \in Int /\ q \in Int /\ n \in Int
    BY <1>2, <1>3, <2>1
  <2>4. b[n + q] = b[n + 1] + q - 1
    <3> DEFINE x == b[n + q]
               y == b[n + 1]
               z == b[1]
    <3>1. x = z + (n + q) - 1 /\ y = z + (n + 1) - 1 /\ z \in Int /\ q \in Int /\ n \in Int
      BY <2>3
    <3> HIDE DEF x, y, z
    <3>2. x = y + q - 1
      BY ONLY <3>1
    <3> QED
      BY <3>2 DEF x, y
  <2> QED
    BY <2>2, <2>4
<1> QED
  BY <1>4, <1>5 DEF s, t

\* What waits is what the buffer holds and then what is in hand.
LEMMA WaitingFacts ==
  ASSUME SeedTypes, NEW c \in Channel
  PROVE  LET h == IF packet.channel = c THEN packet.samples ELSE <<>>
         IN  /\ h \in Seq(Int) /\ buffer[c] \in Seq(Int)
             /\ Waiting(c) \in Seq(Int)
             /\ Len(Waiting(c)) = Len(buffer[c]) + Len(h)
             /\ \A q \in 1 .. Len(Waiting(c)) :
                  Waiting(c)[q] = IF q <= Len(buffer[c]) THEN buffer[c][q] ELSE h[q - Len(buffer[c])]
<1> DEFINE h == IF packet.channel = c THEN packet.samples ELSE <<>>
<1>1. h \in Seq(Int) /\ buffer[c] \in Seq(Int)
  BY DEF SeedTypes
<1>2. Waiting(c) = buffer[c] \o h
  BY DEF Waiting
<1> HIDE DEF h
<1>3. /\ buffer[c] \o h \in Seq(Int) /\ Len(buffer[c] \o h) = Len(buffer[c]) + Len(h)
      /\ \A q \in 1 .. (Len(buffer[c]) + Len(h)) :
           (buffer[c] \o h)[q] = IF q <= Len(buffer[c]) THEN buffer[c][q] ELSE h[q - Len(buffer[c])]
  BY <1>1, ConcatProperties
<1> QED
  BY <1>1, <1>2, <1>3 DEF h

\* A channel that a step does not concern stays cut as it was.
LEMMA OtherChannels ==
  ASSUME NEW d \in Channel, CutAt(d),
         records'[d] = records[d], received'[d] = received[d], Waiting(d)' = Waiting(d)
  PROVE  CutAt(d)'
<1>1. PackedSoFar(d)' = PackedSoFar(d) /\ \A k : Start(d, k)' = Start(d, k)
  BY DEF PackedSoFar, Start
<1> QED
  BY <1>1 DEF CutAt, Follows

\* Packing a record takes the samples from the beginning of what waits.
LEMMA PackOneKeeps ==
  ASSUME SeedIInv, NEW c \in Channel, PackOne(c), UNCHANGED <<step, packet, received>>
  PROVE  SeedIInv'
<1>1. SeedTypes /\ RingOK /\ WaitingOK /\ RecordsOK /\ CutOK
  BY DEF SeedIInv
<1> DEFINE b == buffer[c]
           rs == records[c]
           p == PackedSoFar(c)
<1>2. PICK n \in 1 .. RecordSize :
        /\ n <= Len(b)
        /\ WriteRecord(c, SubSeq(b, 1, n))
        /\ buffer' = [buffer EXCEPT ![c] = SubSeq(b, n + 1, Len(b))]
  BY DEF PackOne
<1> DEFINE s == SubSeq(b, 1, n)
           t == SubSeq(b, n + 1, Len(b))
<1>3. b \in Seq(Int) /\ n \in 1 .. Len(b) /\ rs \in Seq(Record) /\ received[c] \in Seq(Int) /\ Run(b)
  BY <1>1, <1>2, Sizes DEF SeedTypes, WaitingOK
<1>4. /\ s \in Seq(Int) /\ Len(s) = n /\ s # <<>> /\ \A q \in 1 .. n : s[q] = b[q]
      /\ t \in Seq(Int) /\ Len(t) = Len(b) - n /\ \A q \in 1 .. (Len(b) - n) : t[q] = b[n + q]
  BY <1>3, Halves
<1>5. Run(s) /\ Run(t)
  BY <1>3, RunParts
<1> HIDE DEF b, rs, p, s, t
<1>6. /\ slots' \in [Slots -> [name : Names, open : BOOLEAN]]
      /\ nOpen' \in 0 .. MaxFiles /\ last' \in -1 .. (MaxFiles - 1)
      /\ RingOK' /\ refused \subseteq refused'
      /\ \E g \in {NoFile, FileOf(c, s[1])} :
           /\ g = NoFile => FileOf(c, s[1]) \in refused'
           /\ records' = [records EXCEPT ![c] =
                Append(rs, [file |-> g, samples |-> s, upTo |-> p + Len(s)])]
  BY <1>1, <1>2, <1>4, WriteStep DEF s, rs, p
<1>7. PICK g \in {NoFile, FileOf(c, s[1])} :
        /\ g = NoFile => FileOf(c, s[1]) \in refused'
        /\ records' = [records EXCEPT ![c] =
             Append(rs, [file |-> g, samples |-> s, upTo |-> p + Len(s)])]
  BY <1>6
<1> DEFINE r == [file |-> g, samples |-> s, upTo |-> p + Len(s)]
<1>8. p \in Nat
  <2>1. CASE rs = <<>>
    BY <2>1 DEF p, rs, PackedSoFar
  <2>2. CASE rs # <<>>
    <3>1. rs[Len(rs)] \in Record
      BY <1>3, <2>2
    <3> QED
      BY <2>2, <3>1 DEF p, rs, PackedSoFar, Record
  <2> QED
    BY <2>1, <2>2
<1>9. r \in Record
  <2>1. s[1] \in Int
    BY <1>4
  <2>2. g \in Names
    BY <1>7, <2>1, FileFacts DEF Names
  <2>3. p + Len(s) \in Nat
    BY <1>4, <1>8
  <2> QED
    BY <1>4, <2>2, <2>3 DEF Record
<1>10. /\ records \in [Channel -> Seq(Record)] /\ buffer \in [Channel -> Seq(Int)]
       /\ records'[c] = Append(rs, r) /\ buffer'[c] = t
       /\ \A d \in Channel : d # c => records'[d] = records[d] /\ buffer'[d] = buffer[d]
  BY <1>1, <1>2, <1>7 DEF SeedTypes, t, b
<1>11. /\ Append(rs, r) \in Seq(Record) /\ Len(Append(rs, r)) = Len(rs) + 1
       /\ Len(rs) \in Nat /\ Append(rs, r)[Len(rs) + 1] = r
       /\ \A k \in 1 .. Len(rs) : Append(rs, r)[k] = rs[k]
  BY <1>3, <1>9, AppendProperties
<1>12. SeedTypes'
  <2>1. records' \in [Channel -> Seq(Record)] /\ buffer' \in [Channel -> Seq(Int)]
    BY <1>2, <1>4, <1>7, <1>10, <1>11 DEF r, t, b
  <2>2. UNCHANGED <<step, packet, received>>
    OBVIOUS
  <2> QED
    BY <1>1, <1>6, <2>1, <2>2 DEF SeedTypes
<1>13. WaitingOK'
  <2>1. Run(packet.samples)'
    BY <1>1 DEF WaitingOK
  <2>2. ASSUME NEW d \in Channel PROVE Run(buffer'[d])
    <3>1. CASE d = c
      BY <1>5, <1>10, <3>1
    <3>2. CASE d # c
      BY <1>1, <1>10, <3>2 DEF WaitingOK
    <3> QED
      BY <3>1, <3>2
  <2> QED
    BY <2>1, <2>2 DEF WaitingOK
<1>14. r.samples = s /\ r.file = g /\ r.upTo = p + Len(s)
  OBVIOUS
<1> HIDE DEF r
<1>15. RecordsOK'
  <2> SUFFICES ASSUME NEW d \in Channel, NEW k \in 1 .. Len(records'[d])
               PROVE  RecordOK(d, records'[d][k], refused')
    BY DEF RecordsOK
  <2>1. \A x : RecordOK(d, x, refused) => RecordOK(d, x, refused')
    BY <1>6 DEF RecordOK
  <2>2. CASE d # c
    BY <1>1, <1>10, <2>1, <2>2 DEF RecordsOK
  <2>3. CASE d = c /\ k \in 1 .. Len(rs)
    BY <1>1, <1>10, <1>11, <2>1, <2>3 DEF RecordsOK, rs
  <2>4. CASE d = c /\ k = Len(rs) + 1
    <3>1. RecordOK(c, r, refused')
      BY <1>4, <1>5, <1>7, <1>14 DEF RecordOK
    <3> QED
      BY <1>10, <1>11, <2>4, <3>1
  <2> QED
    BY <1>10, <1>11, <2>2, <2>3, <2>4
<1>16. CutAt(c)'
  <2> DEFINE rcv == received[c]
             w == Waiting(c)
             h == IF packet.channel = c THEN packet.samples ELSE <<>>
  <2>1. /\ w \in Seq(Int) /\ h \in Seq(Int) /\ Len(w) = Len(b) + Len(h)
        /\ \A q \in 1 .. Len(w) : w[q] = IF q <= Len(b) THEN b[q] ELSE h[q - Len(b)]
    BY <1>1, WaitingFacts DEF b
  <2>2. /\ Waiting(c)' \in Seq(Int) /\ Len(Waiting(c)') = Len(t) + Len(h)
        /\ \A q \in 1 .. Len(Waiting(c)') :
             Waiting(c)'[q] = IF q <= Len(t) THEN t[q] ELSE h[q - Len(t)]
    <3>1. Waiting(c)' = t \o h
      BY <1>10 DEF Waiting
    <3>2. t \in Seq(Int) /\ h \in Seq(Int)
      BY <1>4, <2>1
    <3> HIDE DEF h
    <3>3. /\ t \o h \in Seq(Int) /\ Len(t \o h) = Len(t) + Len(h)
          /\ \A q \in 1 .. (Len(t) + Len(h)) : (t \o h)[q] = IF q <= Len(t) THEN t[q] ELSE h[q - Len(t)]
      BY ONLY <3>2, ConcatProperties
    <3> QED
      BY ONLY <3>1, <3>3
  <2>3. /\ CutAt(c) /\ Len(b) \in Nat /\ Len(h) \in Nat /\ Len(w) \in Nat /\ n \in Nat /\ n >= 1
        /\ n <= Len(b)
    <3>1. CutAt(c)
      BY <1>1 DEF CutOK
    <3>2. Len(b) \in Nat /\ Len(h) \in Nat /\ Len(w) \in Nat
      BY <1>3, <2>1, LenProperties
    <3>3. n \in Nat /\ n >= 1 /\ n <= Len(b)
      BY <1>3, <3>2
    <3> QED
      BY <3>1, <3>2, <3>3
  <2> HIDE DEF h
  <2>4. p + Len(w) <= Len(rcv) /\ (\A q \in 1 .. Len(w) : w[q] = rcv[p + q]) /\ p + Len(w) = Len(rcv)
    BY <2>3 DEF CutAt, Follows, p
  <2> HIDE DEF rcv, w
  <2>5. Len(rcv) \in Nat
    BY <1>8, <2>3, <2>4
  <2>6. Follows(s, rcv, p)
    <3>1. \A q \in 1 .. n : q \in 1 .. Len(w) /\ q <= Len(b)
      BY ONLY <2>1, <2>3
    <3>2. \A q \in 1 .. n : s[q] = w[q]
      BY ONLY <1>4, <2>1, <3>1
    <3>3. p + n <= Len(rcv)
      BY ONLY <1>8, <2>1, <2>3, <2>4, <2>5
    <3>4. \A q \in 1 .. n : s[q] = rcv[p + q]
      BY ONLY <2>4, <3>1, <3>2
    <3> QED
      BY <1>4, <3>3, <3>4 DEF Follows
  <2>7. Follows(Waiting(c)', rcv, p + n) /\ (p + n) + Len(Waiting(c)') = Len(rcv)
    <3>1. Len(Waiting(c)') = Len(w) - n /\ Len(t) = Len(b) - n
      BY <1>4, <2>1, <2>2, <2>3
    <3>2. ASSUME NEW q \in 1 .. Len(Waiting(c)')
          PROVE  Waiting(c)'[q] = rcv[(p + n) + q]
      <4>1. n + q \in 1 .. Len(w) /\ p + (n + q) = (p + n) + q
        BY <1>8, <2>3, <3>1
      <4>2. CASE q <= Len(t)
        <5>1. q \in 1 .. (Len(b) - n) /\ n + q <= Len(b)
          BY <2>3, <3>1, <4>2
        <5>2. t[q] = b[n + q]
          BY <1>4, <5>1
        <5> QED
          BY <2>1, <2>2, <2>4, <4>1, <4>2, <5>1, <5>2
      <4>3. CASE ~(q <= Len(t))
        <5>1. ~(n + q <= Len(b)) /\ (n + q) - Len(b) = q - Len(t)
          BY <2>3, <3>1, <4>3
        <5>2. w[n + q] = h[(n + q) - Len(b)] /\ Waiting(c)'[q] = h[q - Len(t)]
          BY <2>1, <2>2, <4>1, <4>3, <5>1
        <5> QED
          BY <2>4, <4>1, <5>1, <5>2
      <4> QED
        BY <4>2, <4>3
    <3>3. (p + n) + Len(Waiting(c)') = Len(rcv)
      <4> DEFINE x == Len(Waiting(c)')
                 y == Len(w)
                 z == Len(rcv)
      <4>1. x = y - n /\ p + y = z /\ p \in Nat /\ y \in Nat /\ n \in Nat
        BY <1>8, <2>3, <2>4, <3>1
      <4> HIDE DEF x, y, z
      <4>2. (p + n) + x = z
        BY ONLY <4>1
      <4> QED
        BY <4>2 DEF x, z
    <3> QED
      BY <2>5, <3>2, <3>3 DEF Follows
  <2>8. PackedSoFar(c)' = p + n
    <3>1. Len(records'[c]) = Len(rs) + 1 /\ records'[c][Len(rs) + 1] = r
      BY <1>10, <1>11
    <3>2. records'[c] # <<>>
      BY <3>1, <1>11
    <3> QED
      BY <3>1, <3>2, <1>4, <1>14 DEF PackedSoFar
  <2>9. ASSUME NEW k \in 1 .. Len(records'[c])
        PROVE  /\ Follows(records'[c][k].samples, rcv, Start(c, k)')
               /\ records'[c][k].upTo = Start(c, k)' + Len(records'[c][k].samples)
    <3>1. CASE k \in 1 .. Len(rs)
      <4>1. records'[c][k] = rs[k] /\ (k # 1 => k - 1 \in 1 .. Len(rs) /\ records'[c][k - 1] = rs[k - 1])
        BY <3>1, <1>10, <1>11
      <4>2. Start(c, k)' = Start(c, k)
        BY <4>1 DEF Start, rs
      <4> QED
        BY <3>1, <4>1, <4>2, <2>3 DEF CutAt, rcv, rs
    <3>2. CASE k = Len(rs) + 1
      <4>1. Start(c, k)' = p
        <5>1. CASE rs = <<>>
          BY <3>2, <5>1 DEF Start, p, PackedSoFar, rs
        <5>2. CASE rs # <<>>
          <6>1. k # 1 /\ k - 1 = Len(rs) /\ Len(rs) \in 1 .. Len(rs)
            BY <3>2, <5>2, <1>3, <1>11
          <6> QED
            BY <5>2, <6>1, <1>10, <1>11 DEF Start, p, PackedSoFar, rs
        <5> QED
          BY <5>1, <5>2
      <4> QED
        BY <3>2, <4>1, <1>4, <1>10, <1>11, <1>14, <2>6
    <3> QED
      BY <3>1, <3>2, <1>10, <1>11
  <2>10. rcv = received'[c]
    BY DEF rcv
  <2> QED
    BY <2>7, <2>8, <2>9, <2>10 DEF CutAt
<1>17. CutOK'
  <2> SUFFICES ASSUME NEW d \in Channel, d # c PROVE CutAt(d)'
    BY <1>16 DEF CutOK
  <2>1. Waiting(d)' = Waiting(d)
    BY <1>10 DEF Waiting
  <2> QED
    BY <2>1, <1>1, <1>10, OtherChannels DEF CutOK
<1> QED
  BY <1>6, <1>12, <1>13, <1>15, <1>17 DEF SeedIInv

-----------------------------------------------------------------------------
\* What a channel has packed is counted.
LEMMA Counts ==
  ASSUME SeedTypes, NEW c \in Channel
  PROVE  PackedSoFar(c) \in Nat /\ \A k \in 1 .. Len(records[c]) : Start(c, k) \in Nat
<1>1. records[c] \in Seq(Record) /\ Len(records[c]) \in Nat
  BY DEF SeedTypes
<1>2. \A k \in 1 .. Len(records[c]) : records[c][k].upTo \in Nat
  <2>1. \A k \in 1 .. Len(records[c]) : records[c][k] \in Record
    BY <1>1, ElementOfSeq
  <2> QED
    BY <2>1 DEF Record
<1>3. records[c] # <<>> => Len(records[c]) \in 1 .. Len(records[c])
  BY <1>1
<1>4. \A k \in 1 .. Len(records[c]) : k # 1 => k - 1 \in 1 .. Len(records[c])
  BY <1>1
<1> QED
  BY <1>2, <1>3, <1>4 DEF PackedSoFar, Start

\* What follows in a sequence still does when it grows.
LEMMA FollowsLonger ==
  ASSUME NEW r \in Seq(Int), NEW s \in Seq(Int), NEW x \in Seq(Int), NEW a \in Nat, Follows(x, r, a)
  PROVE  Follows(x, r \o s, a)
<1>1. /\ Len(r \o s) = Len(r) + Len(s)
      /\ \A q \in 1 .. (Len(r) + Len(s)) : (r \o s)[q] = IF q <= Len(r) THEN r[q] ELSE s[q - Len(r)]
  BY ConcatProperties
<1>2. Len(r) \in Nat /\ Len(s) \in Nat /\ Len(x) \in Nat
  OBVIOUS
<1>3. a + Len(x) <= Len(r) /\ \A q \in 1 .. Len(x) : x[q] = r[a + q]
  BY DEF Follows
<1>4. \A q \in 1 .. Len(x) : a + q \in 1 .. (Len(r) + Len(s)) /\ a + q <= Len(r)
  <2> DEFINE lr == Len(r)
             ls == Len(s)
             lx == Len(x)
  <2>1. lr \in Nat /\ ls \in Nat /\ lx \in Nat /\ a + lx <= lr /\ a \in Nat
    BY <1>2, <1>3
  <2> HIDE DEF lr, ls, lx
  <2>2. \A q \in 1 .. lx : a + q \in 1 .. (lr + ls) /\ a + q <= lr
    BY ONLY <2>1
  <2> QED
    BY <2>2 DEF lr, ls, lx
<1>5. a + Len(x) <= Len(r \o s)
  BY <1>1, <1>2, <1>3
<1>6. \A q \in 1 .. Len(x) : x[q] = (r \o s)[a + q]
  BY <1>1, <1>3, <1>4
<1> QED
  BY <1>5, <1>6 DEF Follows

\* What is at the end of a sequence is so too when both go on with the same.
LEMMA FollowsBoth ==
  ASSUME NEW r \in Seq(Int), NEW s \in Seq(Int), NEW x \in Seq(Int), NEW a \in Nat,
         Follows(x, r, a), a + Len(x) = Len(r)
  PROVE  Follows(x \o s, r \o s, a) /\ a + Len(x \o s) = Len(r \o s)
<1> DEFINE lr == Len(r)
           ls == Len(s)
           lx == Len(x)
<1>1. /\ Len(r \o s) = lr + ls
      /\ \A q \in 1 .. (lr + ls) : (r \o s)[q] = IF q <= lr THEN r[q] ELSE s[q - lr]
      /\ Len(x \o s) = lx + ls
      /\ \A q \in 1 .. (lx + ls) : (x \o s)[q] = IF q <= lx THEN x[q] ELSE s[q - lx]
  BY ConcatProperties
<1>2. lr \in Nat /\ ls \in Nat /\ lx \in Nat /\ a + lx = lr /\ a \in Nat
  OBVIOUS
<1>3. \A q \in 1 .. lx : x[q] = r[a + q]
  BY DEF Follows
<1> HIDE DEF lr, ls, lx
<1>4. a + (lx + ls) = lr + ls /\ a + (lx + ls) <= lr + ls
  BY ONLY <1>2
<1>5. ASSUME NEW q \in 1 .. (lx + ls)
      PROVE  (x \o s)[q] = (r \o s)[a + q]
  <2>1. a + q \in 1 .. (lr + ls) /\ (q <= lx <=> a + q <= lr)
    BY ONLY <1>2, q \in 1 .. (lx + ls)
  <2>2. CASE q <= lx
    <3>1. q \in 1 .. lx
      BY <1>2, <2>2
    <3> QED
      BY <1>1, <1>3, <2>1, <2>2, <3>1
  <2>3. CASE ~(q <= lx)
    <3>1. (a + q) - lr = q - lx
      BY ONLY <1>2, q \in 1 .. (lx + ls)
    <3> QED
      BY <1>1, <2>1, <2>3, <3>1
  <2> QED
    BY <2>2, <2>3
<1>6. a + Len(x \o s) = Len(r \o s) /\ a + Len(x \o s) <= Len(r \o s)
  BY <1>1, <1>4
<1> QED
  BY <1>1, <1>5, <1>6 DEF Follows

\* What follows in a sequence is a part of it.
LEMMA FollowsIsSubSeq ==
  ASSUME NEW r \in Seq(Int), NEW x \in Seq(Int), NEW a \in Nat, Follows(x, r, a)
  PROVE  x = SubSeq(r, a + 1, a + Len(x))
<1>1. Len(r) \in Nat /\ Len(x) \in Nat /\ a + 1 \in Int /\ a + Len(x) \in Int
  OBVIOUS
<1>2. a + Len(x) <= Len(r) /\ \A q \in 1 .. Len(x) : x[q] = r[a + q]
  BY DEF Follows
<1>3. \A q \in (a + 1) .. (a + Len(x)) : r[q] \in Int
  <2>1. \A q \in (a + 1) .. (a + Len(x)) : q \in 1 .. Len(r)
    BY <1>1, <1>2
  <2> QED
    BY <2>1, ElementOfSeq
<1> DEFINE t == SubSeq(r, a + 1, a + Len(x))
<1>4. /\ t \in Seq(Int)
      /\ Len(t) = IF a + 1 <= a + Len(x) THEN (a + Len(x)) - (a + 1) + 1 ELSE 0
      /\ \A q \in 1 .. ((a + Len(x)) - (a + 1) + 1) : t[q] = r[(a + 1) + q - 1]
  BY <1>1, <1>3, SubSeqProperties
<1> HIDE DEF t
<1>5. Len(t) = Len(x)
  BY <1>1, <1>4
<1>6. \A q \in 1 .. Len(x) : t[q] = r[a + q]
  <2>1. \A q \in 1 .. Len(x) : q \in 1 .. ((a + Len(x)) - (a + 1) + 1) /\ (a + 1) + q - 1 = a + q
    BY <1>1
  <2> QED
    BY <1>4, <2>1
<1>7. x = t
  BY <1>2, <1>4, <1>5, <1>6, SeqEqual
<1> QED
  BY <1>7 DEF t

\* Two runs that meet are one.
LEMMA RunJoin ==
  ASSUME NEW b \in Seq(Int), NEW s \in Seq(Int), Run(b), Run(s), Contiguous(b, s)
  PROVE  Run(b \o s)
<1>1. /\ Len(b \o s) = Len(b) + Len(s)
      /\ \A q \in 1 .. (Len(b) + Len(s)) : (b \o s)[q] = IF q <= Len(b) THEN b[q] ELSE s[q - Len(b)]
  BY ConcatProperties
<1>2. Len(b) \in Nat /\ Len(s) \in Nat
  OBVIOUS
<1>3. CASE b = <<>>
  BY <1>3, ConcatEmptySeq
<1>4. CASE b # <<>>
  <2>1. Len(b) >= 1 /\ 1 \in 1 .. (Len(b) + Len(s)) /\ 1 \in 1 .. Len(b) /\ Len(b) \in 1 .. Len(b)
    BY <1>2, <1>4
  <2>2. b[Len(b)] = b[1] + Len(b) - 1 /\ s[1] = b[Len(b)] + 1 /\ b[1] \in Int
    BY <1>4, <2>1 DEF Run, Contiguous
  <2>3. s[1] = b[1] + Len(b) /\ (b \o s)[1] = b[1]
    <3>1. (b \o s)[1] = b[1]
      BY <1>1, <2>1
    <3>2. s[1] = b[1] + Len(b)
      BY <1>2, <2>2
    <3> QED
      BY <3>1, <3>2
  <2>4. ASSUME NEW q \in 1 .. (Len(b) + Len(s))
        PROVE  (b \o s)[q] = b[1] + q - 1
    <3>1. CASE q <= Len(b)
      <4>1. q \in 1 .. Len(b)
        BY <1>2, <3>1
      <4> QED
        BY <1>1, <3>1, <4>1 DEF Run
    <3>2. CASE ~(q <= Len(b))
      <4>1. q - Len(b) \in 1 .. Len(s) /\ q \in Int
        BY <1>2, <3>2
      <4>2. s[q - Len(b)] = s[1] + (q - Len(b)) - 1
        BY <4>1 DEF Run
      <4>3. s[1] + (q - Len(b)) - 1 = b[1] + q - 1
        <5> DEFINE x == s[1]
                   y == b[1]
                   z == Len(b)
        <5>1. x = y + z /\ y \in Int /\ z \in Int /\ q \in Int
          BY <1>2, <2>2, <2>3, <4>1
        <5> HIDE DEF x, y, z
        <5>2. x + (q - z) - 1 = y + q - 1
          BY ONLY <5>1
        <5> QED
          BY <5>2 DEF x, y, z
      <4> QED
        BY <1>1, <3>2, <4>2, <4>3
    <3> QED
      BY <3>1, <3>2
  <2> QED
    BY <1>1, <2>3, <2>4 DEF Run
<1> QED
  BY <1>3, <1>4

-----------------------------------------------------------------------------
\* A packet comes when none is in hand: its samples go behind what was handled.
LEMMA HandleKeeps ==
  ASSUME SeedIInv, NEW c \in Channel, NEW start \in Int, NEW n \in Nat, Handle(c, start, n)
  PROVE  SeedIInv'
<1>1. SeedTypes /\ RingOK /\ WaitingOK /\ RecordsOK /\ CutOK
  BY DEF SeedIInv
<1> DEFINE s == [k \in 1 .. n |-> start + k - 1]
<1>2. s \in Seq(Int) /\ Len(s) = n /\ \A k \in 1 .. n : s[k] = start + k - 1
  OBVIOUS
<1> HIDE DEF s
<1>3. /\ step = "flow" /\ step' = "append"
      /\ packet' = [channel |-> c, samples |-> s]
      /\ received' = [received EXCEPT ![c] = received[c] \o s]
      /\ UNCHANGED <<ring, dirs, errGeneral, buffer, records, refused>>
  BY DEF Handle, s
<1>4. packet'.channel = c /\ packet'.samples = s /\ packet.samples = <<>>
  BY <1>1, <1>3 DEF SeedTypes
<1>5. received[c] \o s \in Seq(Int)
  BY <1>1, <1>2, ConcatProperties DEF SeedTypes
<1>6. received' \in [Channel -> Seq(Int)]
  BY <1>1, <1>3, <1>5 DEF SeedTypes
<1>7. packet' \in [channel : {packet'.channel}, samples : Seq(Int)]
  BY <1>2, <1>3, <1>4
<1>8. SeedTypes'
  BY <1>1, <1>3, <1>4, <1>6, <1>7 DEF SeedTypes, ring
<1>9. RingOK' /\ RecordsOK'
  BY <1>1, <1>3 DEF RingOK, RingInOrder, Victim, RecordsOK, ring
<1>10. Run(s)
  <2>1. CASE n = 0
    BY <1>2, <2>1 DEF Run
  <2>2. CASE n # 0
    <3>1. 1 \in 1 .. n /\ s[1] = start
      BY <1>2, <2>2
    <3> QED
      BY <1>2, <3>1 DEF Run
  <2> QED
    BY <2>1, <2>2
<1>11. WaitingOK'
  BY <1>1, <1>3, <1>4, <1>10 DEF WaitingOK
<1>12. \A d \in Channel : Waiting(d) = buffer[d]
  BY <1>1, <1>4, ConcatEmptySeq DEF Waiting, SeedTypes
<1>13. CutAt(c)'
  <2>1. Waiting(c)' = buffer[c] \o s
    BY <1>3, <1>4 DEF Waiting
  <2>2. received'[c] = received[c] \o s /\ records' = records
    BY <1>1, <1>3 DEF SeedTypes
  <2>3. PackedSoFar(c)' = PackedSoFar(c) /\ \A k : Start(c, k)' = Start(c, k)
    BY <2>2 DEF PackedSoFar, Start
  <2>4. PackedSoFar(c) \in Nat /\ \A k \in 1 .. Len(records[c]) : Start(c, k) \in Nat
    BY <1>1, Counts
  <2>5. received[c] \in Seq(Int) /\ buffer[c] \in Seq(Int)
    BY <1>1 DEF SeedTypes
  <2>6. CutAt(c)
    BY <1>1 DEF CutOK
  <2>7. Follows(buffer[c], received[c], PackedSoFar(c)) /\ PackedSoFar(c) + Len(buffer[c]) = Len(received[c])
    BY <1>12, <2>6 DEF CutAt
  <2>8. /\ Follows(buffer[c] \o s, received[c] \o s, PackedSoFar(c))
        /\ PackedSoFar(c) + Len(buffer[c] \o s) = Len(received[c] \o s)
    <3>1. \A r, x, z \in Seq(Int), a \in Nat :
            Follows(x, r, a) /\ a + Len(x) = Len(r) =>
              Follows(x \o z, r \o z, a) /\ a + Len(x \o z) = Len(r \o z)
      BY ONLY FollowsBoth, Zenon
    <3> QED
      BY ONLY <1>2, <2>4, <2>5, <2>7, <3>1, Zenon
  <2>9. ASSUME NEW k \in 1 .. Len(records[c])
        PROVE  /\ Follows(records[c][k].samples, received[c] \o s, Start(c, k))
               /\ records[c][k].upTo = Start(c, k) + Len(records[c][k].samples)
    <3>1. records[c][k].samples \in Seq(Int)
      <4>1. records[c] \in Seq(Record)
        BY <1>1 DEF SeedTypes
      <4>2. records[c][k] \in Record
        BY <4>1, ElementOfSeq
      <4> QED
        BY <4>2 DEF Record
    <3>2. /\ Follows(records[c][k].samples, received[c], Start(c, k))
          /\ records[c][k].upTo = Start(c, k) + Len(records[c][k].samples)
      BY <2>6 DEF CutAt
    <3> QED
      BY <1>2, <2>4, <2>5, <3>1, <3>2, FollowsLonger
  <2> QED
    BY <2>1, <2>2, <2>3, <2>8, <2>9 DEF CutAt
<1>14. CutOK'
  <2> SUFFICES ASSUME NEW d \in Channel, d # c PROVE CutAt(d)'
    BY <1>13 DEF CutOK
  <2>1. Waiting(d)' = Waiting(d)
    <3>1. Waiting(d)' = buffer[d] \o <<>>
      BY <1>3, <1>4 DEF Waiting
    <3>2. buffer[d] \o <<>> = buffer[d]
      BY <1>1, ConcatEmptySeq DEF SeedTypes
    <3> QED
      BY <1>12, <3>1, <3>2
  <2>2. received'[d] = received[d] /\ records'[d] = records[d]
    BY <1>1, <1>3 DEF SeedTypes
  <2> QED
    BY <1>1, <2>1, <2>2, OtherChannels DEF CutOK
<1> QED
  BY <1>8, <1>9, <1>11, <1>14 DEF SeedIInv

\* The samples in hand go behind those that wait, where they go on without a gap.
LEMMA AppendKeeps ==
  ASSUME SeedIInv, AppendSamples
  PROVE  SeedIInv'
<1>1. SeedTypes /\ RingOK /\ WaitingOK /\ RecordsOK /\ CutOK
  BY DEF SeedIInv
<1> DEFINE c == packet.channel
           s == packet.samples
<1>2. c \in Channel /\ s \in Seq(Int)
  BY <1>1 DEF SeedTypes, AppendSamples
<1>3. /\ buffer' = [buffer EXCEPT ![c] = buffer[c] \o s]
      /\ packet' = [packet EXCEPT !.samples = <<>>]
      /\ step' = "pack" /\ NoGap(c)
      /\ UNCHANGED <<ring, dirs, errGeneral, received, records, refused>>
  BY DEF AppendSamples
<1>4. packet'.channel = c /\ packet'.samples = <<>> /\ packet' \in [channel : {c}, samples : Seq(Int)]
  <2>1. packet \in [channel : {c}, samples : Seq(Int)] /\ <<>> \in Seq(Int)
    BY <1>1, EmptySeq DEF SeedTypes
  <2> HIDE DEF c, s
  <2> QED
    BY <2>1, <1>3
<1>5. buffer[c] \in Seq(Int) /\ Run(buffer[c]) /\ Run(s) /\ Contiguous(buffer[c], s)
  BY <1>1, <1>2, <1>3 DEF SeedTypes, WaitingOK, NoGap
<1> HIDE DEF s, c
<1>6. buffer[c] \o s \in Seq(Int) /\ Run(buffer[c] \o s)
  BY <1>2, <1>5, ConcatProperties, RunJoin
<1>7. /\ buffer' \in [Channel -> Seq(Int)] /\ buffer'[c] = buffer[c] \o s
      /\ \A d \in Channel : d # c => buffer'[d] = buffer[d]
  BY <1>1, <1>2, <1>3, <1>6 DEF SeedTypes
<1>8. SeedTypes'
  BY <1>1, <1>2, <1>3, <1>4, <1>7 DEF SeedTypes, ring
<1>9. RingOK' /\ RecordsOK'
  BY <1>1, <1>3 DEF RingOK, RingInOrder, Victim, RecordsOK, ring
<1>10. Run(<<>>)
  BY EmptySeq DEF Run
<1>11. WaitingOK'
  BY <1>1, <1>4, <1>6, <1>7, <1>10 DEF WaitingOK
<1>12. ASSUME NEW d \in Channel PROVE Waiting(d)' = Waiting(d)
  <2>1. Waiting(d)' = buffer'[d] \o <<>>
    BY <1>4 DEF Waiting
  <2>2. buffer'[d] \o <<>> = buffer'[d]
    BY <1>7, ConcatEmptySeq
  <2>3. CASE d = c
    BY <2>1, <2>2, <2>3, <1>7 DEF Waiting, c, s
  <2>4. CASE d # c
    BY <2>1, <2>4, <1>7 DEF Waiting, c
  <2> QED
    BY <2>3, <2>4
<1>13. CutOK'
  BY <1>1, <1>3, <1>12, OtherChannels DEF CutOK
<1> QED
  BY <1>8, <1>9, <1>11, <1>13 DEF SeedIInv

\* A step that leaves the samples and the ring.
LEMMA QuietKeeps ==
  ASSUME SeedIInv, step # "append", step' # "append", step' = "pack" => step = "pack" /\ packet' = packet,
         packet' \in {packet, NoPacket},
         UNCHANGED <<slots, nOpen, last, buffer, received, records, refused>>
  PROVE  SeedIInv'
<1>1. SeedTypes /\ RingOK /\ WaitingOK /\ RecordsOK /\ CutOK
  BY DEF SeedIInv
<1>2. packet.samples = <<>> /\ packet'.samples = <<>>
  BY <1>1 DEF SeedTypes, NoPacket
<1>3. packet' \in [channel : {packet'.channel}, samples : Seq(Int)]
  BY <1>1, EmptySeq DEF SeedTypes, NoPacket
<1>4. SeedTypes'
  BY <1>1, <1>2, <1>3 DEF SeedTypes
<1>5. RingOK' /\ RecordsOK'
  BY <1>1 DEF RingOK, RingInOrder, Victim, RecordsOK
<1>6. WaitingOK'
  BY <1>1, <1>2 DEF WaitingOK
<1>7. \A d \in Channel : Waiting(d)' = Waiting(d)
  BY <1>2 DEF Waiting
<1>8. CutOK'
  BY <1>1, <1>7, OtherChannels DEF CutOK
<1> QED
  BY <1>4, <1>5, <1>6, <1>8 DEF SeedIInv

\* When all is packed the files are closed, and the ring is empty.
LEMMA CloseAllKeeps ==
  ASSUME SeedIInv, CloseAll
  PROVE  SeedIInv'
<1>1. SeedTypes /\ RingOK /\ WaitingOK /\ RecordsOK /\ CutOK
  BY DEF SeedIInv
<1>2. /\ slots' = [k \in Slots |-> IF slots[k].open THEN [name |-> NoFile, open |-> FALSE] ELSE slots[k]]
      /\ nOpen' = 0 /\ last' = -1
      /\ step = "closing" /\ step' \in {"ended", "flow"}
      /\ UNCHANGED <<packet, received, records, refused>>
  BY DEF CloseAll
<1>3. buffer' = buffer
  BY <1>1 DEF CloseAll, NoneLeft, SeedTypes
<1>4. slots' \in [Slots -> [name : Names, open : BOOLEAN]] /\ \A k \in Slots : ~slots'[k].open
  BY <1>1, <1>2 DEF SeedTypes, Names
<1>5. nOpen' \in 0 .. MaxFiles /\ last' \in -1 .. (MaxFiles - 1)
  BY <1>2, Sizes
<1>6. SeedTypes'
  BY <1>1, <1>2, <1>3, <1>4, <1>5 DEF SeedTypes
<1>7. \A k : ~(k \in 0 .. (nOpen' - 1))
  BY <1>2
<1>8. RingOK'
  BY <1>2, <1>4, <1>7 DEF RingOK, RingInOrder
<1>9. RecordsOK' /\ WaitingOK'
  BY <1>1, <1>2, <1>3 DEF RecordsOK, WaitingOK
<1>10. \A d \in Channel : Waiting(d)' = Waiting(d)
  BY <1>2, <1>3 DEF Waiting
<1>11. CutOK'
  BY <1>1, <1>2, <1>10, OtherChannels DEF CutOK
<1> QED
  BY <1>6, <1>8, <1>9, <1>11 DEF SeedIInv

-----------------------------------------------------------------------------
LEMMA InitSeedIInv == SeedInit => SeedIInv
<1> SUFFICES ASSUME SeedInit PROVE SeedIInv
  OBVIOUS
<1> USE DEF SeedInit
<1>1. /\ packet = NoPacket /\ packet.samples = <<>> /\ step = "flow"
      /\ packet \in [channel : {packet.channel}, samples : Seq(Int)]
  BY EmptySeq DEF NoPacket
<1>2. SeedTypes
  <2>1. slots \in [Slots -> [name : Names, open : BOOLEAN]]
    BY DEF Names
  <2>2. nOpen \in 0 .. MaxFiles /\ last \in -1 .. (MaxFiles - 1)
    BY Sizes
  <2>3. /\ buffer \in [Channel -> Seq(Int)] /\ received \in [Channel -> Seq(Int)]
        /\ records \in [Channel -> Seq(Record)]
    BY EmptySeq
  <2> QED
    BY <1>1, <2>1, <2>2, <2>3 DEF SeedTypes
<1>3. RingOK
  BY DEF RingOK, RingInOrder
<1>4. \A c \in Channel : buffer[c] = <<>> /\ records[c] = <<>> /\ received[c] = <<>>
  OBVIOUS
<1>5. Len(<<>>) = 0 /\ Run(<<>>) /\ <<>> \o <<>> = <<>>
  BY EmptySeq DEF Run
<1>6. WaitingOK /\ RecordsOK
  BY <1>1, <1>4, <1>5 DEF WaitingOK, RecordsOK
<1>7. \A c \in Channel : Waiting(c) = <<>> /\ PackedSoFar(c) = 0
  BY <1>1, <1>4, <1>5 DEF Waiting, PackedSoFar
<1>8. CutOK
  BY <1>4, <1>5, <1>7 DEF CutOK, CutAt, Follows
<1> QED
  BY <1>2, <1>3, <1>6, <1>8 DEF SeedIInv

LEMMA NextIInv == SeedIInv /\ [SeedNext]_seedVars => SeedIInv'
<1> SUFFICES ASSUME SeedIInv, [SeedNext]_seedVars PROVE SeedIInv'
  OBVIOUS
<1>1. ASSUME NEW c \in Channel, NEW start \in 0 .. MaxTime, NEW n \in 1 .. MaxSamples, Handle(c, start, n)
      PROVE  SeedIInv'
  <2>1. start \in Int /\ n \in Nat
    OBVIOUS
  <2> QED
    BY <1>1, <2>1, HandleKeeps
<1>2. CASE FlushGap
  <2>1. packet.channel \in Channel
    BY <1>2 DEF FlushGap, SeedIInv, SeedTypes
  <2> QED
    BY <1>2, <2>1, PackOneKeeps DEF FlushGap
<1>3. CASE AppendSamples
  BY <1>3, AppendKeeps
<1>4. CASE Pack
  <2>1. packet.channel \in Channel
    BY <1>4 DEF Pack, SeedIInv, SeedTypes
  <2> QED
    BY <1>4, <2>1, PackOneKeeps DEF Pack
<1>5. CASE Packed
  BY <1>5, QuietKeeps DEF Packed, ring
<1>6. CASE CloseFile
  BY <1>6, QuietKeeps DEF CloseFile, ring
<1>7. CASE CloseAll
  BY <1>7, CloseAllKeeps
<1>8. ASSUME NEW c \in Channel, Flush(c) PROVE SeedIInv'
  BY <1>8, PackOneKeeps DEF Flush
<1>9. CASE UNCHANGED seedVars
  <2>1. /\ UNCHANGED <<slots, nOpen, last, buffer, received, records, refused, packet, step>>
        /\ SeedTypes /\ RingOK /\ WaitingOK /\ RecordsOK /\ CutOK
    BY <1>9 DEF seedVars, ring, SeedIInv
  <2>2. SeedTypes'
    BY <2>1 DEF SeedTypes
  <2>3. RingOK' /\ RecordsOK' /\ WaitingOK'
    BY <2>1 DEF RingOK, RingInOrder, Victim, RecordsOK, WaitingOK
  <2>4. \A d \in Channel : Waiting(d)' = Waiting(d)
    BY <2>1 DEF Waiting
  <2>5. CutOK'
    BY <2>1, <2>4, OtherChannels DEF CutOK
  <2> QED
    BY <2>2, <2>3, <2>5 DEF SeedIInv
<1> QED
  BY <1>1, <1>2, <1>3, <1>4, <1>5, <1>6, <1>7, <1>8, <1>9 DEF SeedNext

\* The ring is in order, what waits and what is packed span no gap, a record lies
\* in its file unless that was refused, and what is packed and what waits are cut
\* from what was handled.
THEOREM SeedInductiveInvariant == SeedSpec => []SeedIInv
BY InitSeedIInv, NextIInv, PTL DEF SeedSpec

\* A record lies in the file of its channel and day and spans no gap, whatever was
\* the current file and whichever files were reused or refused meanwhile.
THEOREM EachRecordInItsFile == SeedSpec => []RecordsInPlace
<1>1. SeedIInv => RecordsInPlace
  <2> SUFFICES ASSUME SeedIInv, NEW c \in Channel, NEW k \in DOMAIN records[c]
               PROVE  /\ records[c][k].file \in {NoFile, FileOf(c, records[c][k].samples[1])}
                      /\ records[c][k].samples =
                           [j \in DOMAIN records[c][k].samples |-> records[c][k].samples[1] + j - 1]
    BY DEF RecordsInPlace
  <2>1. records[c] \in Seq(Record)
    BY DEF SeedIInv, SeedTypes
  <2>2. k \in 1 .. Len(records[c])
    BY <2>1, LenProperties
  <2>3. records[c][k].samples \in Seq(Int)
    <3>1. records[c][k] \in Record
      BY <2>1, <2>2, ElementOfSeq
    <3> QED
      BY <3>1 DEF Record
  <2>4. RecordOK(c, records[c][k], refused)
    BY <2>2 DEF SeedIInv, RecordsOK
  <2> DEFINE s == records[c][k].samples
  <2>5. s \in Seq(Int) /\ Run(s)
    BY <2>3, <2>4 DEF RecordOK
  <2> HIDE DEF s
  <2>6. s \in [1 .. Len(s) -> Int] /\ DOMAIN s = 1 .. Len(s)
    BY <2>5, LenProperties
  <2>7. s = [j \in DOMAIN s |-> s[1] + j - 1]
    BY <2>5, <2>6 DEF Run
  <2> QED
    BY <2>4, <2>7 DEF RecordOK, s
<1> QED
  BY <1>1, SeedInductiveInvariant, PTL

\* A record is lost only if its own file could not be opened.
THEOREM LossStaysLocal == SeedSpec => []LossIsLocal
<1>1. SeedIInv => LossIsLocal
  <2> SUFFICES ASSUME SeedIInv, NEW c \in Channel, NEW k \in DOMAIN records[c]
               PROVE  records[c][k].file = NoFile => FileOf(c, records[c][k].samples[1]) \in refused
    BY DEF LossIsLocal
  <2>1. records[c] \in Seq(Record)
    BY DEF SeedIInv, SeedTypes
  <2>2. k \in 1 .. Len(records[c])
    BY <2>1, LenProperties
  <2> QED
    BY <2>2 DEF SeedIInv, RecordsOK, RecordOK
<1> QED
  BY <1>1, SeedInductiveInvariant, PTL

\* The ring of open files holds no name twice, finds every open file again and has
\* at most one name without a file, that which is replaced next.
THEOREM RingStaysInOrder == SeedSpec => []RingInOrder
<1>1. SeedIInv => RingInOrder
  BY DEF SeedIInv, RingOK
<1> QED
  BY <1>1, SeedInductiveInvariant, PTL

\* What is packed and what waits are, in order, the samples that were handled.
THEOREM NoSampleLostOrTwice == SeedSpec => []SamplesConserved
<1>1. SeedIInv => SamplesConserved
  <2> SUFFICES ASSUME SeedIInv, NEW c \in Channel
               PROVE  /\ \A k \in DOMAIN records[c] :
                           records[c][k].samples = SubSeq(received[c],
                             IF k = 1 THEN 1 ELSE records[c][k - 1].upTo + 1, records[c][k].upTo)
                      /\ Waiting(c) = SubSeq(received[c], PackedSoFar(c) + 1, Len(received[c]))
    BY DEF SamplesConserved, Waiting
  <2>1. SeedTypes /\ CutAt(c)
    BY DEF SeedIInv, CutOK
  <2>2. records[c] \in Seq(Record) /\ received[c] \in Seq(Int)
    BY <2>1 DEF SeedTypes
  <2>3. ASSUME NEW k \in DOMAIN records[c]
        PROVE  records[c][k].samples = SubSeq(received[c],
                 IF k = 1 THEN 1 ELSE records[c][k - 1].upTo + 1, records[c][k].upTo)
    <3>1. k \in 1 .. Len(records[c])
      BY <2>2, LenProperties
    <3>2. records[c][k].samples \in Seq(Int)
      <4>1. records[c][k] \in Record
        BY <2>2, <3>1, ElementOfSeq
      <4> QED
        BY <4>1 DEF Record
    <3>3. Start(c, k) \in Nat
      BY <2>1, <3>1, Counts
    <3>4. /\ Follows(records[c][k].samples, received[c], Start(c, k))
          /\ records[c][k].upTo = Start(c, k) + Len(records[c][k].samples)
      BY <2>1, <3>1 DEF CutAt
    <3>5. records[c][k].samples = SubSeq(received[c], Start(c, k) + 1, records[c][k].upTo)
      BY <2>2, <3>2, <3>3, <3>4, FollowsIsSubSeq
    <3>6. Start(c, k) + 1 = IF k = 1 THEN 1 ELSE records[c][k - 1].upTo + 1
      BY DEF Start
    <3> QED
      BY <3>5, <3>6
  <2>4. Waiting(c) = SubSeq(received[c], PackedSoFar(c) + 1, Len(received[c]))
    <3>1. Waiting(c) \in Seq(Int)
      BY <2>1, WaitingFacts
    <3>2. PackedSoFar(c) \in Nat
      BY <2>1, Counts
    <3>3. /\ Follows(Waiting(c), received[c], PackedSoFar(c))
          /\ PackedSoFar(c) + Len(Waiting(c)) = Len(received[c])
      BY <2>1 DEF CutAt
    <3> QED
      BY <2>2, <3>1, <3>2, <3>3, FollowsIsSubSeq
  <2> QED
    BY <2>3, <2>4
<1> QED
  BY <1>1, SeedInductiveInvariant, PTL

-----------------------------------------------------------------------------
(* The listen server                                                       *)

ClientPcs == {"none", "prompt", "prompting", "read", "answer", "answerExit", "obey", "endRaw",
              "logRead", "send", "remove", "close", "ended"} \cup Commands
MainPcs == {"idle", "lock", "printing", "logRead", "send", "remove", "close", "ended"}
ClientBacks == {"idle", "prompt", "endRaw"} \cup Commands
MainBacks == {"idle", "printing"}
Backs(t) == IF t = Main THEN MainBacks ELSE ClientBacks
Peers == {"absent", "here", "stalled", "closing", "reset", "closed"}
Item == [fd : Fds, prints : BOOLEAN]

ThreadTypes ==
  /\ pc \in [Threads -> ClientPcs \cup MainPcs]
  /\ pc[Main] \in MainPcs
  /\ \A c \in Clients : pc[c] \in ClientPcs
  /\ back \in [Threads -> ClientBacks \cup MainBacks]
  /\ back[Main] \in MainBacks
  /\ pc[Main] = "logRead" => back[Main] = "idle"
  /\ \A c \in Clients : back[c] \in ClientBacks
  /\ \A c \in Clients : pc[c] \in {"logRead", "send"} => back[c] # "idle"
  /\ out \in [Threads -> {0} \cup Fds]
  /\ fd \in [Threads -> {0} \cup Fds]
  /\ i \in Nat \ {0}

SharedTypes ==
  /\ table \in Seq(Item)
  /\ mutexOcc \in {NoThread} \cup Threads
  /\ mutexCurFd \in {NoThread} \cup Clients
  /\ curFd \in {0} \cup Fds

SocketTypes ==
  /\ owner \in [Fds -> {0} \cup Clients]
  /\ peer \in [Clients -> Peers]

Absent ==
  /\ \A c \in Clients : pc[c] = "none" <=> peer[c] = "absent"
  /\ \A f \in Fds : owner[f] # 0 => peer[owner[f]] # "absent"

Types ==
  /\ ThreadTypes /\ SharedTypes /\ SocketTypes /\ Absent
  /\ asked \in BOOLEAN /\ raws \subseteq Clients /\ astray \in BOOLEAN

\* As long as no client has given raw or params, nmxp_log() sends nothing, and the
\* main thread sends nothing but packets.
NoRaw ==
  raws = {} =>
    /\ curFd = 0
    /\ \A t \in Threads : pc[t] \notin {"logRead", "obey", "endRaw"}
    /\ \A c \in Clients : pc[c] # "send"
    /\ pc[Main] = "send" => back[Main] = "printing"

\* As long as no client has asked, no element of the table is printed to.
NothingAsked ==
  asked = FALSE =>
    /\ raws = {}
    /\ \A k \in DOMAIN table : table[k].prints = FALSE
    /\ pc[Main] \notin {"send", "remove", "close", "ended"}

\* TableIsClients, with the descriptors of the clients that are removed and not yet
\* closed, mutex_occ held by whoever is in a section, and what the main thread sends
\* to still in the table.
InStep ==
  astray = FALSE =>
    /\ pc[Main] \notin {"remove", "close", "ended"}
    /\ \A c \in Clients : pc[c] \notin {"none", "ended"} => fd[c] \in Fds /\ owner[fd[c]] = c
    /\ \A c \in Clients : Registered(c) => \E k \in DOMAIN table : table[k].fd = fd[c]
    /\ \A k \in DOMAIN table : \E c \in Clients : Registered(c) /\ table[k].fd = fd[c]
    /\ \A j, k \in DOMAIN table : table[j].fd = table[k].fd => j = k
    /\ \A t \in Threads : InSection(t) => mutexOcc = t
    /\ pc[Main] = "send" /\ back[Main] = "printing" =>
         \E k \in DOMAIN table : table[k].fd = out[Main]

\* Without raw or params, and without a client that has gone away, no send() fails.
Undisturbed ==
  raws = {} /\ (\A c \in Clients : peer[c] # "reset") => astray = FALSE

NobodyLeft == \A c \in Clients : peer[c] \in {"absent", "here", "stalled"}
PrintsRaw(c) == pc[c] = "endRaw" \/ (pc[c] \in {"logRead", "send"} /\ back[c] = "endRaw")
Connected(c) == pc[c] \notin {"none", "remove", "close", "ended"}

\* As long as nobody has left no descriptor is closed, so only a send() to descriptor
\* 0 fails, and the client that has its raw printed never passes 0.
RawOK ==
  NobodyLeft =>
    /\ mutexCurFd = NoThread => curFd = 0
    /\ mutexCurFd # NoThread => PrintsRaw(mutexCurFd) /\ curFd = fd[mutexCurFd]
    /\ \A c \in Clients : PrintsRaw(c) => mutexCurFd = c
    /\ \A c \in Clients : PrintsRaw(c) \/ pc[c] = "obey" => c \in raws
    /\ \A c \in Clients : pc[c] = "send" /\ back[c] = "endRaw" => out[c] # 0
    /\ \A c \in Clients : Connected(c) => fd[c] \in Fds /\ owner[fd[c]] = c
    /\ \A k \in DOMAIN table : owner[table[k].fd] # 0
    /\ \A t \in Threads : pc[t] = "send" /\ out[t] # 0 =>
         owner[out[t]] # 0 /\ (back[t] # "printing" => owner[out[t]] \in raws)

IInv == Types /\ NoRaw /\ NothingAsked /\ InStep /\ Undisturbed /\ RawOK

-----------------------------------------------------------------------------
(* The table                                                               *)

\* Removing element k moves those behind it up.
LEMMA RemoveAtShifts ==
  ASSUME NEW S, NEW s \in Seq(S), NEW k \in 1 .. Len(s)
  PROVE  /\ RemoveAt(s, k) \in Seq(S)
         /\ Len(RemoveAt(s, k)) = Len(s) - 1
         /\ \A j \in 1 .. (Len(s) - 1) :
              RemoveAt(s, k)[j] = IF j < k THEN s[j] ELSE s[j + 1]
<1> DEFINE a == SubSeq(s, 1, k - 1)
           b == SubSeq(s, k + 1, Len(s))
<1>1. Len(s) \in Nat
  OBVIOUS
<1>2. a \in Seq(S) /\ Len(a) = k - 1 /\ \A j \in 1 .. (k - 1) : a[j] = s[j]
  BY <1>1
<1>3. /\ b \in Seq(S) /\ Len(b) = Len(s) - k
      /\ \A j \in 1 .. (Len(s) - k) : b[j] = s[k + j]
  BY <1>1
<1> HIDE DEF a, b
<1>4. /\ a \o b \in Seq(S) /\ Len(a \o b) = Len(a) + Len(b)
      /\ \A j \in 1 .. (Len(a) + Len(b)) :
           (a \o b)[j] = IF j <= Len(a) THEN a[j] ELSE b[j - Len(a)]
  BY ONLY <1>2, <1>3, ConcatProperties
<1>5. RemoveAt(s, k) = a \o b
  BY DEF RemoveAt, a, b
<1>6. ASSUME NEW j \in 1 .. (Len(s) - 1)
      PROVE  (a \o b)[j] = IF j < k THEN s[j] ELSE s[j + 1]
  <2> DEFINE n == Len(s)
             m == j - (k - 1)
  <2>1. n \in Nat /\ k \in 1 .. n /\ j \in 1 .. (n - 1) /\ Len(a) = k - 1 /\ Len(b) = n - k
    BY <1>1, <1>2, <1>3
  <2>2. (a \o b)[j] = IF j <= Len(a) THEN a[j] ELSE b[j - Len(a)]
    BY <1>1, <1>2, <1>3, <1>4
  <2>3. CASE j < k
    BY <1>2, <2>1, <2>2, <2>3
  <2>4. CASE ~(j < k)
    <3>1. m \in 1 .. (n - k) /\ k + m = j + 1 /\ ~(j <= Len(a)) /\ j - Len(a) = m
      BY ONLY <2>1, <2>4
    <3> HIDE DEF m
    <3>2. b[m] = s[k + m]
      BY ONLY <1>3, <3>1 DEF n
    <3> QED
      BY <2>2, <2>4, <3>1, <3>2
  <2> QED
    BY <2>3, <2>4
<1> QED
  BY <1>1, <1>2, <1>3, <1>4, <1>5, <1>6

\* FdRem() takes away one element with the descriptor it is called with, and
\* nothing when there is none; what it keeps, it keeps in order.
LEMMA FdRemTable ==
  ASSUME Types, NEW t \in Threads, FdRem(t)
  PROVE  /\ table' \in Seq(Item)
         /\ \A j \in DOMAIN table' : \E k \in DOMAIN table : table'[j] = table[k]
         /\ \A k \in DOMAIN table : table[k].fd # fd[t] =>
              \E j \in DOMAIN table' : table'[j] = table[k]
         /\ (\A j, k \in DOMAIN table : table[j].fd = table[k].fd => j = k) =>
              /\ \A j, k \in DOMAIN table' : table'[j].fd = table'[k].fd => j = k
              /\ \A j \in DOMAIN table' : table'[j].fd # fd[t]
<1>1. table \in Seq(Item)
  BY DEF Types, SharedTypes
<1>2. DOMAIN table = 1 .. Len(table) /\ Len(table) \in Nat
  BY <1>1
<1>3. CASE FirstOf(fd[t]) = {} /\ table' = table
  <2> DEFINE Once == \A j, k \in DOMAIN table : table[j].fd = table[k].fd => j = k
  <2>1. ASSUME Once, NEW j \in DOMAIN table, table[j].fd = fd[t]
        PROVE  FALSE
    <3>1. j \in FirstOf(fd[t])
      BY <2>1, <1>2 DEF FirstOf
    <3> QED
      BY <3>1, <1>3
  <2> QED
    BY <2>1, <1>1, <1>3
<1>4. ASSUME NEW k \in FirstOf(fd[t]), table' = RemoveAt(table, k)
      PROVE  /\ table' \in Seq(Item)
             /\ \A j \in DOMAIN table' : \E m \in DOMAIN table : table'[j] = table[m]
             /\ \A m \in DOMAIN table : table[m].fd # fd[t] =>
                  \E j \in DOMAIN table' : table'[j] = table[m]
             /\ (\A j, m \in DOMAIN table : table[j].fd = table[m].fd => j = m) =>
                  /\ \A j, m \in DOMAIN table' : table'[j].fd = table'[m].fd => j = m
                  /\ \A j \in DOMAIN table' : table'[j].fd # fd[t]
  <2>1. k \in 1 .. Len(table) /\ table[k].fd = fd[t]
    BY <1>2 DEF FirstOf
  <2>2. /\ table' \in Seq(Item) /\ Len(table') = Len(table) - 1
        /\ \A j \in 1 .. (Len(table) - 1) : table'[j] = IF j < k THEN table[j] ELSE table[j + 1]
    BY ONLY <1>1, <1>4, <2>1, RemoveAtShifts
  <2>3. DOMAIN table' = 1 .. (Len(table) - 1)
    BY <2>2
  <2> DEFINE n == Len(table)
             new == table'
             f == fd[t]
  <2>4. /\ n \in Nat /\ k \in 1 .. n /\ table[k].fd = f /\ DOMAIN table = 1 .. n
        /\ DOMAIN new = 1 .. (n - 1)
        /\ \A j \in 1 .. (n - 1) : new[j] = IF j < k THEN table[j] ELSE table[j + 1]
    BY <1>2, <2>1, <2>2, <2>3
  <2> HIDE DEF n, new, f
  <2>5. ASSUME NEW j \in DOMAIN new
        PROVE  \E m \in DOMAIN table : new[j] = table[m]
    BY ONLY <2>4, <2>5
  <2>6. ASSUME NEW m \in DOMAIN table, table[m].fd # f
        PROVE  \E j \in DOMAIN new : new[j] = table[m]
    <3>1. CASE m < k
      BY ONLY <2>4, <2>6, <3>1
    <3>2. CASE m > k
      <4>1. m - 1 \in 1 .. (n - 1) /\ ~(m - 1 < k) /\ (m - 1) + 1 = m
        BY ONLY <2>4, <2>6, <3>2
      <4> QED
        BY <2>4, <4>1
    <3> QED
      BY <2>4, <2>6, <3>1, <3>2
  <2>7. ASSUME \A j, m \in DOMAIN table : table[j].fd = table[m].fd => j = m
        PROVE  /\ \A j, m \in DOMAIN new : new[j].fd = new[m].fd => j = m
               /\ \A j \in DOMAIN new : new[j].fd # f
    <3> DEFINE from(j) == IF j < k THEN j ELSE j + 1
    <3>1. \A j \in DOMAIN new : from(j) \in DOMAIN table /\ from(j) # k /\ new[j] = table[from(j)]
      BY ONLY <2>4
    <3>2. \A j, m \in DOMAIN new : from(j) = from(m) => j = m
      BY ONLY <2>4
    <3>3. k \in DOMAIN table
      BY ONLY <2>4
    <3> HIDE DEF from
    <3>4. ASSUME NEW j \in DOMAIN new, NEW m \in DOMAIN new, new[j].fd = new[m].fd
          PROVE  j = m
      <4>1. table[from(j)].fd = table[from(m)].fd
        BY ONLY <3>1, <3>4
      <4>2. from(j) = from(m)
        BY ONLY <2>7, <3>1, <4>1, <3>4
      <4> QED
        BY ONLY <3>2, <4>2, <3>4
    <3>5. ASSUME NEW j \in DOMAIN new, new[j].fd = f
          PROVE  FALSE
      <4>1. table[from(j)].fd = table[k].fd
        BY ONLY <2>4, <3>1, <3>5
      <4> QED
        BY ONLY <2>7, <3>1, <3>3, <4>1, <3>5
    <3> QED
      BY ONLY <3>4, <3>5
  <2> QED
    BY <2>2, <2>5, <2>6, <2>7 DEF new, f
<1> QED
  BY <1>3, <1>4 DEF FdRem
-----------------------------------------------------------------------------
(* Types                                                                   *)

\* send() changes no more of the clients than that one which closes is reset; it
\* succeeds, or the thread is on its way to its end.
LEMMA SendCtrlEffect ==
  ASSUME Types, NEW t \in Threads, NEW f \in {0} \cup Fds, NEW l, NEW m, SendCtrl(t, f, l, m)
  PROVE  /\ peer' \in [Clients -> Peers]
         /\ \A c \in Clients : peer'[c] = peer[c] \/ (peer[c] = "closing" /\ peer'[c] = "reset")
         /\ \/ /\ pc' = [pc EXCEPT ![t] = l]
               /\ mutexOcc' = m
               /\ fd' = fd
               /\ astray' = astray
            \/ /\ f = 0 \/ owner[f] = 0 \/ peer[owner[f]] = "reset"
               /\ pc' = [pc EXCEPT ![t] = "remove"]
               /\ mutexOcc' = NoThread
               /\ fd' = [fd EXCEPT ![t] = f]
               /\ astray' = (astray \/ t = Main \/ f # fd[t] \/ mutexOcc # t)
<1>1. CASE /\ Peer(f) \in {"here", "closing"}
           /\ peer' = [peer EXCEPT ![owner[f]] = IF @ = "closing" THEN "reset" ELSE @]
           /\ Goto(t, l)
           /\ mutexOcc' = m
           /\ UNCHANGED <<fd, astray>>
  <2>1. f \in Fds /\ owner[f] \in Clients
    BY <1>1 DEF Peer, Types, SocketTypes
  <2> QED
    BY <1>1, <2>1 DEF Goto, Types, SocketTypes, Peers
<1>2. CASE /\ Peer(f) \in {"none", "reset"}
           /\ fd' = [fd EXCEPT ![t] = f]
           /\ astray' = (astray \/ t = Main \/ f # fd[t] \/ mutexOcc # t)
           /\ mutexOcc' = Unlocks
           /\ Goto(t, "remove")
           /\ UNCHANGED peer
  <2>1. f = 0 \/ owner[f] = 0 \/ peer[owner[f]] = "reset"
    <3>1. f # 0 /\ owner[f] # 0 => peer[owner[f]] \in Peers
      BY DEF Types, SocketTypes
    <3> QED
      BY <1>2, <3>1 DEF Peer, Peers
  <2> QED
    BY <1>2, <2>1 DEF Goto, Types, SocketTypes, Unlocks
<1> QED
  BY <1>1, <1>2 DEF SendCtrl

LEMMA TypesInit == Init => Types
<1> SUFFICES ASSUME Init PROVE Types
  OBVIOUS
<1>1. ThreadTypes
  BY ClientsAssumption DEF Init, ThreadTypes, Threads, Main, Clients, Fds, ClientPcs, MainPcs, ClientBacks, MainBacks
<1>2. SharedTypes
  BY DEF Init, SharedTypes
<1>3. SocketTypes
  BY DEF Init, SocketTypes, Peers
<1>4. Absent
  BY ClientsAssumption DEF Init, Absent, Threads, Main, Clients, Fds
<1> QED
  BY <1>1, <1>2, <1>3, <1>4 DEF Init, Types

\* Goto() keeps the threads' types, for a place the thread can be at.
LEMMA GotoTypes ==
  ASSUME ThreadTypes, NEW t \in Threads, NEW l, Goto(t, l),
         IF t = Main THEN l \in MainPcs ELSE l \in ClientPcs,
         back' = back \/ \E b \in Backs(t) : back' = [back EXCEPT ![t] = b],
         t # Main /\ l \in {"logRead", "send"} => back'[t] # "idle",
         t = Main /\ l = "logRead" => back'[t] = "idle",
         out' \in [Threads -> {0} \cup Fds],
         fd' \in [Threads -> {0} \cup Fds],
         i' \in Nat \ {0}
  PROVE  ThreadTypes'
<1>1. Main \notin Clients /\ Clients \subseteq Threads /\ Main \in Threads
  BY ClientsAssumption DEF Main, Threads, Clients
<1>2. pc' = [pc EXCEPT ![t] = l]
  BY DEF Goto
<1>3. pc' \in [Threads -> ClientPcs \cup MainPcs] /\ pc'[t] = l
  BY <1>2 DEF ThreadTypes
<1>4. pc'[Main] \in MainPcs
  BY <1>1, <1>2 DEF ThreadTypes
<1>5. \A c \in Clients : pc'[c] \in ClientPcs
  BY <1>1, <1>2, <1>3 DEF ThreadTypes
<1>6. \A c \in Clients : c # t => back'[c] = back[c]
  BY <1>1 DEF ThreadTypes
<1>7. \A c \in Clients : pc'[c] \in {"logRead", "send"} => back'[c] # "idle"
  BY <1>1, <1>2, <1>6 DEF ThreadTypes
<1>8. back' \in [Threads -> ClientBacks \cup MainBacks] /\ (back' # back => back'[t] \in Backs(t))
  BY <1>1 DEF ThreadTypes, Backs
<1>9. back'[Main] \in MainBacks /\ \A c \in Clients : back'[c] \in ClientBacks
  BY <1>1, <1>6, <1>8 DEF ThreadTypes, Backs
<1>10. pc'[Main] = "logRead" => back'[Main] = "idle"
  BY <1>1, <1>2, <1>8 DEF ThreadTypes
<1> QED
  BY <1>3, <1>4, <1>5, <1>7, <1>8, <1>9, <1>10 DEF ThreadTypes

\* A thread that has been started, and goes on, leaves it as it is who has connected.
LEMMA GotoAbsent ==
  ASSUME ThreadTypes, SocketTypes, Absent, NEW t \in Threads, NEW l, Goto(t, l),
         l # "none", t # Main => pc[t] # "none",
         \A c \in Clients : peer'[c] = "absent" <=> peer[c] = "absent",
         \A f \in Fds : owner'[f] = 0 \/ owner'[f] = owner[f]
  PROVE  Absent'
<1>1. Main \notin Clients /\ Clients \subseteq Threads
  BY ClientsAssumption DEF Main, Threads, Clients
<1>2. pc' = [pc EXCEPT ![t] = l] /\ pc \in [Threads -> ClientPcs \cup MainPcs]
  BY DEF Goto, ThreadTypes
<1>3. \A c \in Clients : pc'[c] = "none" <=> pc[c] = "none"
  BY <1>1, <1>2
<1>4. \A f \in Fds : owner[f] \in {0} \cup Clients
  BY DEF SocketTypes
<1> QED
  BY <1>3, <1>4 DEF Absent

\* What all that send have in common.
LEMMA SendTypes ==
  ASSUME Types, NEW t \in Threads, NEW f \in {0} \cup Fds, NEW l, NEW m \in {NoThread} \cup Threads,
         SendCtrl(t, f, l, m),
         IF t = Main THEN l \in MainPcs ELSE l \in ClientPcs,
         l \notin {"none", "logRead", "send"}, t # Main => pc[t] # "none",
         back' = back \/ back' = [back EXCEPT ![t] = "idle"],
         out' \in [Threads -> {0} \cup Fds],
         UNCHANGED <<i, table, mutexCurFd, curFd, owner, asked, raws>>
  PROVE  Types'
<1> DEFINE l2 == IF Goto(t, l) THEN l ELSE "remove"
<1>1. /\ peer' \in [Clients -> Peers]
      /\ \A c \in Clients : peer'[c] = peer[c] \/ (peer[c] = "closing" /\ peer'[c] = "reset")
      /\ mutexOcc' \in {m, NoThread}
      /\ fd' = fd \/ fd' = [fd EXCEPT ![t] = f]
      /\ astray' \in BOOLEAN
      /\ Goto(t, l) \/ Goto(t, "remove")
  <2>1. /\ peer' \in [Clients -> Peers]
        /\ \A c \in Clients : peer'[c] = peer[c] \/ (peer[c] = "closing" /\ peer'[c] = "reset")
    BY SendCtrlEffect
  <2>2. \/ /\ pc' = [pc EXCEPT ![t] = l]
           /\ mutexOcc' = m /\ fd' = fd /\ astray' = astray
        \/ /\ pc' = [pc EXCEPT ![t] = "remove"]
           /\ mutexOcc' = NoThread
           /\ fd' = [fd EXCEPT ![t] = f]
           /\ astray' = (astray \/ t = Main \/ f # fd[t] \/ mutexOcc # t)
    BY SendCtrlEffect
  <2>3. astray' \in BOOLEAN
    BY <2>2 DEF Types
  <2> QED
    BY <2>1, <2>2, <2>3 DEF Goto
<1> USE DEF Types
<1>2. \A c \in Clients : peer'[c] = "absent" <=> peer[c] = "absent"
  BY <1>1
<1>3. /\ Goto(t, l2) /\ IF t = Main THEN l2 \in MainPcs ELSE l2 \in ClientPcs
      /\ l2 \notin {"none", "logRead", "send"}
  BY <1>1 DEF MainPcs, ClientPcs
<1>4. /\ fd' \in [Threads -> {0} \cup Fds]
      /\ i' \in Nat \ {0}
      /\ "idle" \in Backs(t)
  BY <1>1 DEF ThreadTypes, MainBacks, ClientBacks, Backs
<1> HIDE DEF l2
<1>5. ThreadTypes'
  BY <1>3, <1>4, GotoTypes
<1>6. Absent'
  BY <1>2, <1>3, GotoAbsent
<1>7. SharedTypes'
  BY <1>1 DEF SharedTypes
<1>8. SocketTypes'
  BY <1>1 DEF SocketTypes
<1> QED
  BY <1>1, <1>5, <1>6, <1>7, <1>8

THEOREM TypesNext == Types /\ [Next]_vars => Types'
<1> SUFFICES ASSUME Types, [Next]_vars PROVE Types'
  OBVIOUS
<1> USE DEF Types
<1>0. /\ Main \in Threads /\ Main \notin Clients /\ Clients \subseteq Threads
      /\ 0 \notin Clients /\ 0 \notin Fds /\ NoThread \notin Threads
      /\ \A t \in Threads : t = Main \/ t \in Clients
  BY ClientsAssumption DEF Main, Threads, Clients, Fds, NoThread
<1>1. CASE MainLogs
  <2>1. ThreadTypes'
    BY <1>0, <1>1, GotoTypes DEF MainLogs, LogThen, ThreadTypes, MainPcs, Backs, MainBacks
  <2>2. Absent'
    BY <1>0, <1>1, GotoAbsent DEF MainLogs, LogThen, sockets
  <2> QED
    BY <1>1, <2>1, <2>2 DEF MainLogs, shared, sockets, history, SharedTypes, SocketTypes
<1>2. CASE MainPrints
  <2>1. ThreadTypes'
    BY <1>0, <1>2, GotoTypes DEF MainPrints, ThreadTypes, MainPcs
  <2>2. Absent'
    BY <1>0, <1>2, GotoAbsent DEF MainPrints, sockets
  <2> QED
    BY <1>2, <2>1, <2>2 DEF MainPrints, shared, sockets, history, SharedTypes, SocketTypes
<1>3. CASE MainLocks
  <2>1. ThreadTypes'
    BY <1>0, <1>3, GotoTypes DEF MainLocks, ThreadTypes, MainPcs
  <2>2. Absent'
    BY <1>0, <1>3, GotoAbsent DEF MainLocks, sockets
  <2> QED
    BY <1>0, <1>3, <2>1, <2>2 DEF MainLocks, sockets, history, SharedTypes, SocketTypes
<1>4. CASE MainUnlocks
  <2>1. ThreadTypes'
    BY <1>0, <1>4, GotoTypes DEF MainUnlocks, ThreadTypes, MainPcs
  <2>2. Absent'
    BY <1>0, <1>4, GotoAbsent DEF MainUnlocks, sockets
  <2> QED
    BY <1>0, <1>4, <2>1, <2>2 DEF MainUnlocks, sockets, history, SharedTypes, SocketTypes
<1>5. CASE MainSends
  <2>0. i' \in Nat \ {0} /\ UNCHANGED <<fd, shared, sockets, history>>
    BY <1>5 DEF MainSends, ThreadTypes
  <2>1. CASE table[i].prints
    <3>1. i \in 1 .. Len(table) /\ table \in Seq(Item)
      BY <1>5 DEF MainSends, ThreadTypes, SharedTypes
    <3>2. table[i] \in Item
      BY <3>1, ElementOfSeq
    <3>3. table[i].fd \in Fds
      BY <3>2 DEF Item
    <3>4. /\ out' = [out EXCEPT ![Main] = table[i].fd]
          /\ back' = [back EXCEPT ![Main] = "printing"] /\ Goto(Main, "send")
      BY <1>5, <2>1 DEF MainSends
    <3>5. out' \in [Threads -> {0} \cup Fds] /\ "printing" \in Backs(Main) /\ "send" \in MainPcs
      BY <1>0, <3>3, <3>4 DEF ThreadTypes, Backs, MainBacks, MainPcs
    <3>6. ThreadTypes'
      BY <1>0, <2>0, <3>4, <3>5, GotoTypes DEF ThreadTypes
    <3>7. Absent'
      BY <1>0, <2>0, <3>4, GotoAbsent DEF sockets
    <3> QED
      BY <2>0, <3>6, <3>7 DEF shared, sockets, history, SharedTypes, SocketTypes
  <2>2. CASE ~table[i].prints
    <3>1. UNCHANGED <<pc, out, back>>
      BY <1>5, <2>2 DEF MainSends
    <3> QED
      BY <2>0, <3>1 DEF shared, sockets, history, ThreadTypes, SharedTypes, SocketTypes, Absent
  <2> QED
    BY <2>1, <2>2
<1>6. ASSUME NEW t \in Threads, Send(t)
      PROVE  Types'
  <2>1. /\ UNCHANGED <<i, table, mutexCurFd, curFd, owner, asked, raws>>
        /\ back' = [back EXCEPT ![t] = "idle"] /\ out' = [out EXCEPT ![t] = 0]
        /\ SendCtrl(t, out[t], back[t], mutexOcc) /\ pc[t] = "send"
    BY <1>6 DEF Send
  <2>2. /\ out[t] \in {0} \cup Fds /\ mutexOcc \in {NoThread} \cup Threads
        /\ out' \in [Threads -> {0} \cup Fds]
    BY <2>1 DEF SharedTypes, ThreadTypes
  <2>3. IF t = Main THEN back[t] \in MainPcs ELSE back[t] \in ClientPcs
    BY <1>0, <2>1 DEF ThreadTypes, MainPcs, ClientPcs, MainBacks, ClientBacks
  <2>4. back[t] \notin {"none", "logRead", "send"}
    BY <1>0 DEF ThreadTypes, Commands, MainBacks, ClientBacks
  <2> QED
    BY <2>1, <2>2, <2>3, <2>4, SendTypes DEF ThreadTypes
<1>7. ASSUME NEW t \in Threads, LogRead(t)
       PROVE  Types'
  <2>1. /\ UNCHANGED <<back, fd, i, shared, sockets, history>> /\ Goto(t, "send")
        /\ out' = [out EXCEPT ![t] = curFd] /\ pc[t] = "logRead"
    BY <1>7 DEF LogRead
  <2>2. /\ out' \in [Threads -> {0} \cup Fds]
        /\ IF t = Main THEN "send" \in MainPcs ELSE "send" \in ClientPcs
        /\ t # Main => back'[t] # "idle"
    BY <1>0, <2>1 DEF ThreadTypes, SharedTypes, MainPcs, ClientPcs
  <2>3. ThreadTypes'
    BY <2>1, <2>2, GotoTypes DEF ThreadTypes
  <2>4. Absent'
    BY <1>0, <2>1, GotoAbsent DEF sockets
  <2> QED
    BY <2>1, <2>3, <2>4 DEF shared, sockets, history, SharedTypes, SocketTypes
<1>8. ASSUME NEW t \in Threads, FdRem(t)
      PROVE  Types'
  <2>1. table' \in Seq(Item)
    BY <1>8, FdRemTable
  <2>2. ThreadTypes'
    BY <1>0, <1>8, GotoTypes DEF FdRem, ThreadTypes, MainPcs, ClientPcs
  <2>3. Absent'
    BY <1>0, <1>8, GotoAbsent DEF FdRem, sockets
  <2> QED
    BY <1>8, <2>1, <2>2, <2>3 DEF FdRem, sockets, history, SharedTypes, SocketTypes
<1>9. ASSUME NEW t \in Threads, Close(t)
      PROVE  Types'
  <2>0. pc[t] = "close" /\ Goto(t, "ended") /\ fd' = [fd EXCEPT ![t] = 0] /\ UNCHANGED <<out, back, i, shared, history>>
    BY <1>9 DEF Close
  <2>1. ThreadTypes'
    BY <1>0, <2>0, GotoTypes DEF ThreadTypes, MainPcs, ClientPcs
  <2>2. CASE UNCHANGED sockets
    <3>1. Absent'
      BY <1>0, <2>0, <2>2, GotoAbsent DEF sockets
    <3> QED
      BY <2>0, <2>1, <2>2, <3>1 DEF sockets, shared, history, SharedTypes, SocketTypes
  <2>3. CASE /\ Peer(fd[t]) # "none"
             /\ owner' = [owner EXCEPT ![fd[t]] = 0]
             /\ peer' = [peer EXCEPT ![owner[fd[t]]] =
                           IF Gone(owner[fd[t]]) THEN "reset" ELSE "closed"]
    <3> DEFINE f == fd[t]
               c == owner[f]
    <3>1. f \in Fds /\ c \in Clients
      BY <2>3 DEF Peer, ThreadTypes, SocketTypes
    <3>2. peer[c] # "absent"
      BY <1>0, <3>1 DEF Absent
    <3>3. owner' = [owner EXCEPT ![f] = 0] /\ \E p \in {"reset", "closed"} : peer' = [peer EXCEPT ![c] = p]
      BY <2>3
    <3> HIDE DEF c, f
    <3>4. SocketTypes'
      BY <3>1, <3>3 DEF SocketTypes, Peers
    <3>5. \A d \in Clients : peer'[d] = "absent" <=> peer[d] = "absent"
      BY <3>1, <3>2, <3>3 DEF SocketTypes
    <3>6. \A g \in Fds : owner'[g] = 0 \/ owner'[g] = owner[g]
      BY <3>1, <3>3 DEF SocketTypes
    <3>7. Absent'
      BY <1>0, <2>0, <3>5, <3>6, GotoAbsent
    <3> QED
      BY <2>0, <2>1, <3>4, <3>7 DEF shared, history, SharedTypes
  <2> QED
    BY <1>9, <2>2, <2>3 DEF Close
<1>10. ASSUME NEW c \in Clients, Accept(c)
      PROVE  Types'
  <2>1. PICK f \in Fds :
          /\ owner' = [owner EXCEPT ![f] = c]
          /\ fd' = [fd EXCEPT ![c] = f]
          /\ table' = Append(table, [fd |-> f, prints |-> Asks])
    BY <1>10 DEF Accept
  <2>2. /\ peer' = [peer EXCEPT ![c] = "here"] /\ LogThen(c, "prompt")
        /\ UNCHANGED <<out, i, mutexOcc, mutexCurFd, curFd, history>>
    BY <1>10 DEF Accept
  <2>3. fd' \in [Threads -> {0} \cup Fds]
    BY <2>1, <1>0 DEF ThreadTypes
  <2>4. PICK l \in {"logRead", "prompt"} :
          /\ Goto(c, l) /\ back' = IF l = "logRead" THEN [back EXCEPT ![c] = "prompt"] ELSE back
    BY <2>2 DEF LogThen
  <2>5. ThreadTypes'
    <3>1. /\ back' = back \/ \E b \in Backs(c) : back' = [back EXCEPT ![c] = b]
          /\ l = "logRead" => back'[c] # "idle"
          /\ l # "send"
      BY <1>0, <2>4 DEF ThreadTypes, Backs, ClientBacks
    <3>2. /\ l \in ClientPcs /\ c # Main /\ c \in Threads /\ i' \in Nat \ {0}
          /\ out' \in [Threads -> {0} \cup Fds]
      BY <1>0, <2>2, <2>4 DEF ThreadTypes, ClientPcs
    <3>3. ThreadTypes
      OBVIOUS
    <3> QED
      BY ONLY <2>3, <2>4, <3>1, <3>2, <3>3, GotoTypes
  <2>6. SocketTypes'
    BY <2>1, <2>2 DEF SocketTypes, Peers
  <2>7. Absent'
    <3>1. pc' = [pc EXCEPT ![c] = l] /\ l # "none" /\ pc \in [Threads -> ClientPcs \cup MainPcs]
      BY <2>4 DEF Goto, ThreadTypes
    <3>2. peer' = [peer EXCEPT ![c] = "here"] /\ peer \in [Clients -> Peers]
      BY <2>2 DEF SocketTypes
    <3> QED
      BY <1>0, <2>1, <3>1, <3>2 DEF Absent, SocketTypes
  <2>8. SharedTypes'
    <3>1. [fd |-> f, prints |-> Asks] \in Item
      BY DEF Item, Asks
    <3>2. table' \in Seq(Item)
      BY <2>1, <3>1 DEF SharedTypes
    <3> QED
      BY <2>2, <3>2 DEF SharedTypes
  <2> QED
    BY <2>2, <2>5, <2>6, <2>7, <2>8 DEF history
<1>11. ASSUME NEW c \in Clients, GoAway(c) \/ Stall(c)
       PROVE  Types'
  BY <1>11 DEF GoAway, Stall, threads, shared, history, ThreadTypes, SharedTypes, SocketTypes, Absent, Peers
<1>12. ASSUME NEW c \in Clients, ReadCommand(c)
       PROVE  Types'
  <2>1. PICK l \in Commands :
          \/ Goto(c, "logRead") /\ back' = [back EXCEPT ![c] = l]
          \/ Goto(c, l) /\ back' = back
    BY <1>12, GivenAssumption DEF ReadCommand, LogThen, Commands
  <2>2. pc[c] = "read" /\ UNCHANGED <<out, fd, i, shared, sockets, history>>
    BY <1>12 DEF ReadCommand
  <2>3. /\ l \in ClientPcs /\ "logRead" \in ClientPcs /\ c # Main
        /\ l \notin {"logRead", "send", "none", "idle"} /\ l \in Backs(c)
    BY <1>0 DEF ClientPcs, Commands, Backs, ClientBacks
  <2>4. ThreadTypes'
    BY <1>0, <2>1, <2>2, <2>3, GotoTypes DEF ThreadTypes
  <2>5. Absent'
    BY <1>0, <2>1, <2>2, <2>3, GotoAbsent DEF sockets
  <2> QED
    BY <2>2, <2>4, <2>5 DEF shared, sockets, history, SharedTypes, SocketTypes
<1>13. ASSUME NEW c \in Clients, Prompt(c)
       PROVE  Types'
  <2>1. ThreadTypes'
    BY <1>0, <1>13, GotoTypes DEF Prompt, ThreadTypes, ClientPcs
  <2>2. Absent'
    BY <1>0, <1>13, GotoAbsent DEF Prompt, sockets
  <2> QED
    BY <1>0, <1>13, <2>1, <2>2 DEF Prompt, sockets, history, SharedTypes, SocketTypes
<1>14. ASSUME NEW c \in Clients, SendPrompt(c)
       PROVE  Types'
  <2>1. /\ UNCHANGED <<out, back, i, table, mutexCurFd, curFd, owner, asked, raws>>
        /\ SendCtrl(c, fd[c], "read", NoThread) /\ pc[c] = "prompting"
    BY <1>14 DEF SendPrompt
  <2>2. /\ fd[c] \in {0} \cup Fds /\ "read" \in ClientPcs /\ c # Main /\ c \in Threads
        /\ NoThread \in {NoThread} \cup Threads /\ out' \in [Threads -> {0} \cup Fds]
    BY <1>0, <2>1 DEF ThreadTypes, ClientPcs
  <2> DEFINE f == fd[c]
             l == "read"
             m == NoThread
  <2>3. /\ SendCtrl(c, f, l, m) /\ f \in {0} \cup Fds /\ m \in {NoThread} \cup Threads
        /\ c \in Threads /\ l \notin {"none", "logRead", "send"} /\ pc[c] # "none"
        /\ IF c = Main THEN l \in MainPcs ELSE l \in ClientPcs
        /\ out' \in [Threads -> {0} \cup Fds]
    BY <2>1, <2>2
  <2> HIDE DEF f, l, m
  <2> QED
    BY ONLY Types, <2>1, <2>3, SendTypes
<1>15. ASSUME NEW c \in Clients, Command(c)
       PROVE  Types'
  <2>1. PICK l \in {"obey", "prompt", "answer", "answerExit"} : Goto(c, l)
    BY <1>15 DEF Command, Commands
  <2>2. /\ UNCHANGED <<out, back, fd, i, mutexOcc, mutexCurFd, curFd, sockets, astray>>
        /\ asked' \in BOOLEAN /\ raws' \subseteq Clients /\ pc[c] \in Commands
    BY <1>15 DEF Command
  <2>3. l \in ClientPcs /\ l \notin {"logRead", "send", "none"} /\ c # Main /\ pc[c] # "none"
    BY <1>0, <2>2 DEF ClientPcs, Commands
  <2>4. ThreadTypes'
    BY <1>0, <2>1, <2>2, <2>3, GotoTypes DEF ThreadTypes
  <2>5. Absent'
    BY <1>0, <2>1, <2>2, <2>3, GotoAbsent DEF sockets
  <2>6. table' \in Seq(Item)
    <3>1. table \in Seq(Item) /\ DOMAIN table = 1 .. Len(table) /\ Len(table) \in Nat
      BY DEF SharedTypes
    <3>2. \A k \in 1 .. Len(table) : table[k] \in Item
      BY <3>1, ElementOfSeq
    <3>3. table' = [k \in 1 .. Len(table) |->
            IF table[k].fd = fd[c] THEN [table[k] EXCEPT !.prints = pc[c] = "print"] ELSE table[k]]
      BY <1>15, <3>1 DEF Command
    <3>4. \A k \in 1 .. Len(table) : table'[k] \in Item
      BY <3>2, <3>3 DEF Item
    <3> QED
      BY <3>1, <3>3, <3>4
  <2> QED
    BY <2>2, <2>4, <2>5, <2>6 DEF sockets, SharedTypes, SocketTypes
<1>16. ASSUME NEW c \in Clients, Answer(c)
       PROVE  Types'
  <2>1. PICK l \in {"prompt", "remove"} : SendCtrl(c, fd[c], l, mutexOcc)
    BY <1>16 DEF Answer
  <2>2. /\ UNCHANGED <<out, back, i, table, mutexCurFd, curFd, owner, asked, raws>>
        /\ pc[c] \in {"answer", "answerExit"}
    BY <1>16 DEF Answer
  <2>3. /\ fd[c] \in {0} \cup Fds /\ l \in ClientPcs /\ c # Main /\ c \in Threads
        /\ mutexOcc \in {NoThread} \cup Threads
    BY <1>0 DEF ThreadTypes, SharedTypes, ClientPcs
  <2> QED
    BY <2>1, <2>2, <2>3, SendTypes DEF ThreadTypes
<1>17. ASSUME NEW c \in Clients, BeginRaw(c)
       PROVE  Types'
  <2>0. /\ pc[c] = "obey" /\ mutexCurFd' = c /\ curFd' = fd[c] /\ Goto(c, "logRead")
        /\ back' = [back EXCEPT ![c] = "endRaw"] /\ "endRaw" \in Backs(c)
        /\ UNCHANGED <<out, fd, i, table, mutexOcc, sockets, history>>
    BY <1>0, <1>17 DEF BeginRaw, Backs, ClientBacks
  <2>1. ThreadTypes'
    BY <1>0, <2>0, GotoTypes DEF ThreadTypes, ClientPcs
  <2>2. Absent'
    BY <1>0, <2>0, GotoAbsent DEF sockets
  <2> QED
    BY <1>0, <2>0, <2>1, <2>2 DEF sockets, history, SharedTypes, SocketTypes, ThreadTypes
<1>18. ASSUME NEW c \in Clients, EndRaw(c)
       PROVE  Types'
  <2>1. ThreadTypes'
    BY <1>0, <1>18, GotoTypes DEF EndRaw, ThreadTypes, ClientPcs
  <2>2. Absent'
    BY <1>0, <1>18, GotoAbsent DEF EndRaw, sockets
  <2> QED
    BY <1>0, <1>18, <2>1, <2>2 DEF EndRaw, Released, sockets, history, SharedTypes, SocketTypes
<1>19. ASSUME NEW c \in Clients, RawGoesOn(c)
       PROVE  Types'
  <2>0. /\ pc[c] = "endRaw" /\ Goto(c, "logRead")
        /\ back' = [back EXCEPT ![c] = "endRaw"] /\ "endRaw" \in Backs(c)
        /\ UNCHANGED <<out, fd, i, shared, sockets, history>>
    BY <1>0, <1>19 DEF RawGoesOn, Backs, ClientBacks
  <2>1. ThreadTypes'
    BY <1>0, <2>0, GotoTypes DEF ThreadTypes, ClientPcs
  <2>2. Absent'
    BY <1>0, <2>0, GotoAbsent DEF sockets
  <2> QED
    BY <2>0, <2>1, <2>2 DEF shared, sockets, history, SharedTypes, SocketTypes
<1>20. CASE UNCHANGED vars
  BY <1>20 DEF vars, threads, shared, sockets, history, ThreadTypes, SharedTypes, SocketTypes, Absent
<1> QED
  BY <1>0, <1>1, <1>2, <1>3, <1>4, <1>5, <1>6, <1>7, <1>8, <1>9, <1>10, <1>11, <1>12, <1>13, <1>14,
     <1>15, <1>16, <1>17, <1>18, <1>19, <1>20
  DEF Next, MainStep, ThreadStep, ClientStep

\* What a step of a thread leaves of the other threads.
LEMMA GotoOthers ==
  ASSUME Types, NEW t \in Threads, NEW l, Goto(t, l)
  PROVE  pc'[t] = l /\ \A u \in Threads : u # t => pc'[u] = pc[u]
  BY DEF Goto, Types, ThreadTypes

LEMMA ThreadNames ==
  /\ Main \in Threads /\ Main \notin Clients /\ Clients \subseteq Threads
  /\ 0 \notin Clients /\ 0 \notin Fds /\ NoThread \notin Threads
  /\ \A t \in Threads : t = Main \/ t \in Clients
  BY ClientsAssumption DEF Main, Threads, Clients, Fds, NoThread

-----------------------------------------------------------------------------
(* The main thread survives                                                *)

\* What has been asked is not forgotten.
LEMMA HistoryNext ==
  ASSUME Types, [Next]_vars
  PROVE  /\ raws \subseteq raws' /\ (asked = TRUE => asked' = TRUE)
         /\ raws' = raws \/ asked' = TRUE
<1>1. \/ UNCHANGED <<asked, raws>>
      \/ \E c \in Clients : /\ asked' = (asked \/ pc[c] \in {"print", "raw"})
                            /\ raws' = IF pc[c] = "raw" THEN raws \cup {c} ELSE raws
  BY DEF Next, MainLogs, MainPrints, MainStep, MainLocks, MainSends, MainUnlocks, ThreadStep, LogRead, Send,
         FdRem, Close, Accept, GoAway, Stall, ReadCommand, ClientStep, Prompt, SendPrompt, Command, Answer,
         BeginRaw, RawGoesOn, EndRaw, history, vars
<1> QED
  BY <1>1 DEF Types

\* Removing an element and adding one that prints nothing leave nothing printed.
LEMMA NothingPrinted ==
  ASSUME Types, [Next]_vars, asked' = FALSE, \A k \in DOMAIN table : table[k].prints = FALSE
  PROVE  \A k \in DOMAIN table' : table'[k].prints = FALSE
<1>1. CASE \E t \in Threads : FdRem(t)
  BY <1>1, FdRemTable
<1>2. ASSUME NEW c \in Clients, Accept(c)
      PROVE  \A k \in DOMAIN table' : table'[k].prints = FALSE
  <2>1. PICK f \in Fds : table' = Append(table, [fd |-> f, prints |-> Asks])
    BY <1>2 DEF Accept
  <2>2. table \in Seq(Item) /\ [fd |-> f, prints |-> Asks].prints = FALSE
    BY DEF Types, SharedTypes, Asks
  <2> QED
    BY <2>1, <2>2
<1>3. ASSUME NEW c \in Clients, Command(c)
      PROVE  \A k \in DOMAIN table' : table'[k].prints = FALSE
  <2>1. pc[c] # "print"
    BY <1>3 DEF Command, Types
  <2>2. /\ DOMAIN table' = DOMAIN table
        /\ \A k \in DOMAIN table : table'[k] =
             IF table[k].fd = fd[c] THEN [table[k] EXCEPT !.prints = pc[c] = "print"] ELSE table[k]
    BY <1>3 DEF Command
  <2>3. \A k \in DOMAIN table : table[k] \in Item
    BY ElementOfSeq DEF Types, SharedTypes
  <2> QED
    BY <2>1, <2>2, <2>3 DEF Item
<1>4. CASE UNCHANGED table
  BY <1>4
<1> QED
  BY <1>1, <1>2, <1>3, <1>4, ThreadNames
  DEF Next, MainLogs, MainPrints, MainStep, MainLocks, MainSends, MainUnlocks, ThreadStep, LogRead, Send,
      Close, GoAway, Stall, ReadCommand, ClientStep, Prompt, SendPrompt, Answer,
      BeginRaw, RawGoesOn, EndRaw, shared, vars

LEMMA NoRawNext == Types /\ NoRaw /\ [Next]_vars => NoRaw'
<1> SUFFICES ASSUME Types, NoRaw, [Next]_vars, raws' = {} PROVE NoRaw'
  BY DEF NoRaw
<1>1. raws = {}
  BY HistoryNext
<1>2. /\ curFd = 0
      /\ \A t \in Threads : pc[t] \notin {"logRead", "obey", "endRaw"}
      /\ \A c \in Clients : pc[c] # "send"
      /\ pc[Main] = "send" => back[Main] = "printing"
  BY <1>1 DEF NoRaw
<1>3. ASSUME NEW t \in Threads, NEW l, Goto(t, l), l \notin {"logRead", "obey", "endRaw"},
             l = "send" => t = Main /\ back'[Main] = "printing",
             t # Main => back'[Main] = back[Main],
             curFd' = 0
      PROVE  NoRaw'
  <2>1. pc'[t] = l /\ \A u \in Threads : u # t => pc'[u] = pc[u]
    BY <1>3, GotoOthers
  <2> QED
    BY <1>2, <1>3, <2>1, ThreadNames DEF NoRaw
<1>4. ASSUME NEW t \in Threads, NEW f, NEW l, NEW m, SendCtrl(t, f, l, m),
             l \notin {"logRead", "obey", "endRaw", "send"}, t # Main => back'[Main] = back[Main],
             UNCHANGED curFd
      PROVE  NoRaw'
  <2>1. Goto(t, l) \/ Goto(t, "remove")
    BY <1>4 DEF SendCtrl
  <2> QED
    BY <1>2, <1>3, <1>4, <2>1
<1>5. CASE MainLogs \/ \E t \in Threads : LogRead(t)
  BY <1>2, <1>5 DEF MainLogs, LogRead
<1>6. CASE MainPrints
  BY <1>2, <1>3, <1>6, ThreadNames DEF MainPrints, shared
<1>7. CASE MainLocks
  BY <1>2, <1>3, <1>7, ThreadNames DEF MainLocks
<1>8. CASE MainUnlocks
  BY <1>2, <1>3, <1>8, ThreadNames DEF MainUnlocks
<1>9. CASE MainSends
  <2>1. CASE table[i].prints
    <3>1. Goto(Main, "send") /\ back' = [back EXCEPT ![Main] = "printing"] /\ UNCHANGED curFd
      BY <1>9, <2>1 DEF MainSends, shared
    <3>2. back'[Main] = "printing"
      BY <3>1, ThreadNames DEF Types, ThreadTypes
    <3> QED
      BY <1>2, <1>3, <3>1, <3>2, ThreadNames
  <2>2. CASE ~table[i].prints
    BY <1>2, <1>9, <2>2 DEF MainSends, NoRaw, shared
  <2> QED
    BY <2>1, <2>2
<1>10. ASSUME NEW t \in Threads, Send(t)
       PROVE  NoRaw'
  <2>1. t = Main /\ back[Main] = "printing"
    BY <1>2, <1>10, ThreadNames DEF Send
  <2> QED
    BY <1>4, <1>10, <2>1 DEF Send
<1>11. ASSUME NEW t \in Threads, FdRem(t) \/ Close(t)
       PROVE  NoRaw'
  BY <1>2, <1>3, <1>11 DEF FdRem, Close, shared
<1>12. ASSUME NEW c \in Clients, Accept(c)
       PROVE  NoRaw'
  BY <1>2, <1>3, <1>12, ThreadNames DEF Accept, LogThen
<1>13. ASSUME NEW c \in Clients, GoAway(c) \/ Stall(c)
       PROVE  NoRaw'
  BY <1>2, <1>13 DEF NoRaw, GoAway, Stall, threads, shared
<1>14. ASSUME NEW c \in Clients, ReadCommand(c)
       PROVE  NoRaw'
  <2>1. PICK l \in Commands : Goto(c, l) /\ UNCHANGED back
    BY <1>2, <1>14, GivenAssumption DEF ReadCommand, LogThen, Commands
  <2> QED
    BY <1>2, <1>3, <1>14, <2>1, ThreadNames DEF Commands, ReadCommand, shared
<1>15. ASSUME NEW c \in Clients, Prompt(c)
       PROVE  NoRaw'
  BY <1>2, <1>3, <1>15, ThreadNames DEF Prompt
<1>16. ASSUME NEW c \in Clients, SendPrompt(c)
       PROVE  NoRaw'
  BY <1>4, <1>16, ThreadNames DEF SendPrompt
<1>17. ASSUME NEW c \in Clients, Command(c)
       PROVE  NoRaw'
  <2>1. pc[c] \in Commands /\ pc[c] # "raw" /\ UNCHANGED <<curFd, back>>
    BY <1>17 DEF Command
  <2>2. Goto(c, "prompt") \/ Goto(c, "answer") \/ Goto(c, "answerExit")
    BY <1>17, <2>1 DEF Command, Commands
  <2> QED
    BY <1>2, <1>3, <2>1, <2>2, ThreadNames
<1>18. ASSUME NEW c \in Clients, Answer(c)
       PROVE  NoRaw'
  BY <1>4, <1>18, ThreadNames DEF Answer
<1>19. ASSUME NEW c \in Clients, BeginRaw(c) \/ RawGoesOn(c) \/ EndRaw(c)
       PROVE  NoRaw'
  BY <1>2, <1>19, ThreadNames DEF BeginRaw, RawGoesOn, EndRaw
<1>20. CASE UNCHANGED vars
  BY <1>2, <1>20 DEF NoRaw, vars, threads, shared
<1> QED
  BY <1>5, <1>6, <1>7, <1>8, <1>9, <1>10, <1>11, <1>12, <1>13, <1>14, <1>15, <1>16, <1>17, <1>18,
     <1>19, <1>20, ThreadNames
  DEF Next, MainStep, ThreadStep, ClientStep

LEMMA NothingAskedNext == Types /\ NoRaw /\ NothingAsked /\ [Next]_vars => NothingAsked'
<1> SUFFICES ASSUME Types, NoRaw, NothingAsked, [Next]_vars, asked' = FALSE PROVE NothingAsked'
  BY DEF NothingAsked
<1>1. asked = FALSE /\ raws' = raws
  BY HistoryNext DEF Types
<1>2. /\ raws = {}
      /\ \A k \in DOMAIN table : table[k].prints = FALSE
      /\ pc[Main] \notin {"send", "remove", "close", "ended"}
  BY <1>1 DEF NothingAsked
<1>3. curFd = 0 /\ pc[Main] # "logRead"
  BY <1>2, ThreadNames DEF NoRaw
<1>4. \A k \in DOMAIN table' : table'[k].prints = FALSE
  BY <1>2, NothingPrinted
<1>5. ASSUME NEW t \in Threads, NEW l, Goto(t, l), t # Main \/ l \notin {"send", "remove", "close", "ended"}
      PROVE  NothingAsked'
  <2>1. pc'[Main] \notin {"send", "remove", "close", "ended"}
    BY <1>2, <1>5, GotoOthers, ThreadNames
  <2> QED
    BY <1>1, <1>2, <1>4, <2>1 DEF NothingAsked
<1>6. CASE \E c \in Clients : \E l : Goto(c, l)
  BY <1>5, <1>6, ThreadNames
<1>7. CASE UNCHANGED pc
  BY <1>1, <1>2, <1>4, <1>7 DEF NothingAsked
<1>8. CASE MainLogs \/ MainPrints \/ MainLocks \/ MainUnlocks
  BY <1>3, <1>5, <1>8, ThreadNames DEF MainLogs, MainPrints, MainLocks, MainUnlocks
<1>9. CASE MainSends
  <2>1. i \in DOMAIN table
    BY <1>9 DEF MainSends, Types, ThreadTypes, SharedTypes
  <2>2. UNCHANGED pc
    BY <1>2, <1>9, <2>1 DEF MainSends
  <2> QED
    BY <1>7, <2>2
<1>10. CASE ThreadStep(Main)
  BY <1>2, <1>3, <1>10 DEF ThreadStep, LogRead, Send, FdRem, Close
<1>11. ASSUME NEW c \in Clients, SendPrompt(c) \/ Answer(c) \/ Send(c)
       PROVE  NothingAsked'
  BY <1>6, <1>11 DEF SendPrompt, Answer, Send, SendCtrl
<1>12. ASSUME NEW c \in Clients,
              Prompt(c) \/ Command(c) \/ BeginRaw(c) \/ RawGoesOn(c) \/ EndRaw(c) \/ LogRead(c) \/ FdRem(c) \/ Close(c)
       PROVE  NothingAsked'
  BY <1>6, <1>12 DEF Prompt, Command, BeginRaw, RawGoesOn, EndRaw, LogRead, FdRem, Close
<1>13. ASSUME NEW c \in Clients, Accept(c) \/ ReadCommand(c)
       PROVE  NothingAsked'
  BY <1>6, <1>13 DEF Accept, ReadCommand, LogThen
<1>14. ASSUME NEW c \in Clients, GoAway(c) \/ Stall(c)
       PROVE  NothingAsked'
  BY <1>7, <1>14 DEF GoAway, Stall, threads
<1>15. CASE UNCHANGED vars
  BY <1>7, <1>15 DEF vars, threads
<1> QED
  BY <1>8, <1>9, <1>10, <1>11, <1>12, <1>13, <1>14, <1>15
  DEF Next, MainStep, ThreadStep, ClientStep

\* A client that has gone away, and whose connection was reset, does not come back.
LEMMA ResetStays ==
  ASSUME Types, [Next]_vars, NEW c \in Clients
  PROVE  /\ peer[c] = "reset" => peer'[c] = "reset"
         /\ peer[c] \notin {"absent", "here", "stalled"} => peer'[c] \notin {"absent", "here", "stalled"}
<1>1. ASSUME NEW t \in Threads, NEW f, NEW l, NEW m, SendCtrl(t, f, l, m)
      PROVE  /\ peer[c] = "reset" => peer'[c] = "reset"
             /\ peer[c] \notin {"absent", "here", "stalled"} => peer'[c] \notin {"absent", "here", "stalled"}
  BY <1>1 DEF SendCtrl, Types, SocketTypes
<1>2. ASSUME NEW t \in Threads, Close(t)
      PROVE  /\ peer[c] = "reset" => peer'[c] = "reset"
             /\ peer[c] \notin {"absent", "here", "stalled"} => peer'[c] \notin {"absent", "here", "stalled"}
  BY <1>2 DEF Close, Gone, Types, SocketTypes, sockets
<1>3. CASE \E d \in Clients : Accept(d) \/ GoAway(d) \/ Stall(d)
  BY <1>3 DEF Accept, GoAway, Stall, Types, SocketTypes
<1>4. CASE UNCHANGED peer
  BY <1>4
<1>5. CASE \E t \in Threads : \E f, l, m : SendCtrl(t, f, l, m)
  BY <1>1, <1>5
<1> QED
  BY <1>2, <1>3, <1>4, <1>5, ThreadNames
  DEF Next, MainLogs, MainPrints, MainStep, MainLocks, MainSends, MainUnlocks, ThreadStep, LogRead, Send,
      FdRem, ReadCommand, ClientStep, Prompt, SendPrompt, Command, Answer, BeginRaw, RawGoesOn, EndRaw,
      sockets, vars

LEMMA UndisturbedNext == Types /\ NoRaw /\ InStep /\ Undisturbed /\ [Next]_vars => Undisturbed'
<1> SUFFICES ASSUME Types, NoRaw, InStep, Undisturbed, [Next]_vars,
                    raws' = {}, \A c \in Clients : peer'[c] # "reset"
             PROVE  astray' = FALSE
  BY DEF Undisturbed
<1>1. raws = {} /\ \A c \in Clients : peer[c] # "reset"
  BY HistoryNext, ResetStays
<1>2. astray = FALSE
  BY <1>1 DEF Undisturbed
<1>3. /\ \A c \in Clients : pc[c] \notin {"none", "ended"} => fd[c] \in Fds /\ owner[fd[c]] = c
      /\ \A k \in DOMAIN table : \E c \in Clients : Registered(c) /\ table[k].fd = fd[c]
      /\ pc[Main] = "send" /\ back[Main] = "printing" => \E k \in DOMAIN table : table[k].fd = out[Main]
  BY <1>2 DEF InStep
<1>4. ASSUME NEW t \in Threads, NEW f, NEW l, NEW m, SendCtrl(t, f, l, m),
             NEW c \in Clients, pc[c] \notin {"none", "ended"}, f = fd[c]
      PROVE  astray' = FALSE
  <2>1. f # 0 /\ owner[f] = c /\ c # 0
    BY <1>3, <1>4, ThreadNames
  <2>2. Peer(f) \notin {"none", "reset"}
    BY <1>1, <2>1 DEF Peer, Types, SocketTypes, Peers
  <2> QED
    BY <1>2, <1>4, <2>2 DEF SendCtrl
<1>5. ASSUME NEW t \in Threads, Send(t)
      PROVE  astray' = FALSE
  <2>1. t = Main /\ back[Main] = "printing" /\ pc[Main] = "send"
    BY <1>1, <1>5, ThreadNames DEF Send, NoRaw
  <2>2. PICK c \in Clients : Registered(c) /\ out[Main] = fd[c]
    BY <1>3, <2>1
  <2> QED
    BY <1>4, <1>5, <2>1, <2>2 DEF Send, Registered
<1>6. ASSUME NEW c \in Clients, SendPrompt(c) \/ Answer(c)
      PROVE  astray' = FALSE
  BY <1>4, <1>6, ThreadNames DEF SendPrompt, Answer
<1>7. CASE UNCHANGED astray
  BY <1>2, <1>7
<1> QED
  BY <1>5, <1>6, <1>7, ThreadNames
  DEF Next, MainLogs, MainPrints, MainStep, MainLocks, MainSends, MainUnlocks, ThreadStep, LogRead,
      FdRem, Close, Accept, GoAway, Stall, ReadCommand, ClientStep, Prompt, Command, BeginRaw, RawGoesOn,
      EndRaw, history, vars

-----------------------------------------------------------------------------
(* The table and the clients                                               *)

LEMMA InStepNext == Types /\ InStep /\ [Next]_vars => InStep'
<1> SUFFICES ASSUME Types, InStep, [Next]_vars, astray' = FALSE PROVE InStep'
  BY DEF InStep
<1>1. astray = FALSE
  <2>1. UNCHANGED astray \/ \E t \in Threads : \E f, l, m : SendCtrl(t, f, l, m)
    BY ThreadNames
    DEF Next, MainLogs, MainPrints, MainStep, MainLocks, MainSends, MainUnlocks, ThreadStep, LogRead, Send,
        FdRem, Close, Accept, GoAway, Stall, ReadCommand, ClientStep, Prompt, SendPrompt, Command, Answer,
        BeginRaw, RawGoesOn, EndRaw, history, vars
  <2> QED
    BY <2>1 DEF SendCtrl, Types
<1>2. /\ pc[Main] \notin {"remove", "close", "ended"}
      /\ \A c \in Clients : pc[c] \notin {"none", "ended"} => fd[c] \in Fds /\ owner[fd[c]] = c
      /\ \A c \in Clients : Registered(c) => \E k \in DOMAIN table : table[k].fd = fd[c]
      /\ \A k \in DOMAIN table : \E c \in Clients : Registered(c) /\ table[k].fd = fd[c]
      /\ \A j, k \in DOMAIN table : table[j].fd = table[k].fd => j = k
      /\ \A t \in Threads : InSection(t) => mutexOcc = t
      /\ pc[Main] = "send" /\ back[Main] = "printing" =>
           \E k \in DOMAIN table : table[k].fd = out[Main]
  BY <1>1 DEF InStep
<1>3. ASSUME NEW t \in Threads, NEW l, Goto(t, l), UNCHANGED <<fd, owner>>,
             DOMAIN table' = DOMAIN table, \A k \in DOMAIN table : table'[k].fd = table[k].fd,
             IF t = Main THEN l \notin {"remove", "close", "ended"}
               ELSE {pc[t], l} \cap {"none", "close", "ended"} = {},
             l \in {"printing", "prompting"} \/ (l = "send" /\ back'[t] = "printing") => mutexOcc' = t,
             t = Main /\ l = "send" /\ back'[Main] = "printing" =>
               \E k \in DOMAIN table : table[k].fd = out'[Main],
             \A u \in Threads \ {t} : back'[u] = back[u] /\ out'[u] = out[u],
             \A u \in Threads \ {t} : InSection(u) => mutexOcc' = u
      PROVE  InStep'
  <2>1. pc'[t] = l /\ \A u \in Threads : u # t => pc'[u] = pc[u]
    BY <1>3, GotoOthers
  <2>2. pc'[Main] \notin {"remove", "close", "ended"}
    BY <1>2, <1>3, <2>1, ThreadNames
  <2>3. \A c \in Clients : Registered(c)' <=> Registered(c)
    BY <1>3, <2>1, ThreadNames DEF Registered
  <2>4. \A c \in Clients : pc'[c] \in {"none", "ended"} <=> pc[c] \in {"none", "ended"}
    BY <1>3, <2>1, ThreadNames
  <2>5. \A u \in Threads : InSection(u)' => mutexOcc' = u
    BY <1>3, <2>1 DEF InSection
  <2>6. pc'[Main] = "send" /\ back'[Main] = "printing" =>
          \E k \in DOMAIN table' : table'[k].fd = out'[Main]
    BY <1>2, <1>3, <2>1, ThreadNames
  <2> QED
    BY <1>2, <1>3, <2>2, <2>3, <2>4, <2>5, <2>6 DEF InStep
<1>4. ASSUME NEW t \in Threads, NEW f \in {0} \cup Fds, NEW l, NEW m, SendCtrl(t, f, l, m),
             UNCHANGED <<table, owner>>,
             l \notin {"none", "close", "ended", "prompting", "send"}, t = Main => l # "remove",
             \A u \in Threads \ {t} : back'[u] = back[u] /\ out'[u] = out[u],
             t # Main => pc[t] \notin {"none", "close", "ended"},
             l = "printing" => InSection(t) /\ m = mutexOcc,
             m = mutexOcc \/ mutexOcc = t
      PROVE  InStep'
  <2>1. \/ Goto(t, l) /\ mutexOcc' = m /\ fd' = fd
        \/ /\ Goto(t, "remove") /\ mutexOcc' = NoThread /\ fd' = [fd EXCEPT ![t] = f]
           /\ t # Main /\ f = fd[t] /\ mutexOcc = t
    <3>1. \/ /\ pc' = [pc EXCEPT ![t] = l] /\ mutexOcc' = m /\ fd' = fd
          \/ /\ pc' = [pc EXCEPT ![t] = "remove"]
             /\ mutexOcc' = NoThread
             /\ fd' = [fd EXCEPT ![t] = f]
             /\ astray' = (astray \/ t = Main \/ f # fd[t] \/ mutexOcc # t)
      BY <1>4, SendCtrlEffect
    <3> QED
      BY <1>1, <3>1 DEF Goto
  <2>2. fd' = fd
    BY <2>1 DEF Types, ThreadTypes
  <2>3. \A u \in Threads \ {t} : InSection(u) => mutexOcc' = u
    BY <1>2, <1>4, <2>1
  <2>4. CASE Goto(t, l) /\ mutexOcc' = m
    BY <1>2, <1>3, <1>4, <2>2, <2>3, <2>4 DEF InSection
  <2>5. CASE Goto(t, "remove") /\ t # Main
    BY <1>2, <1>3, <1>4, <2>2, <2>3, <2>5
  <2> QED
    BY <2>1, <2>4, <2>5
<1>5. \A t \in Threads : fd[t] \in {0} \cup Fds
  BY DEF Types, ThreadTypes
<1>6. CASE MainLogs
  <2>1. PICK l \in {"logRead", "idle"} : Goto(Main, l)
    BY <1>6 DEF MainLogs, LogThen
  <2>2. \A u \in Threads \ {Main} : back'[u] = back[u]
    BY <1>6 DEF MainLogs, LogThen, Types, ThreadTypes
  <2> QED
    BY <1>2, <1>3, <1>6, <2>1, <2>2, ThreadNames DEF MainLogs, shared, sockets
<1>7. CASE MainPrints
  BY <1>2, <1>3, <1>7, ThreadNames DEF MainPrints, shared, sockets
<1>8. CASE MainLocks
  <2>1. \A u \in Threads : ~InSection(u)
    BY <1>2, <1>8, ThreadNames DEF MainLocks
  <2> QED
    BY <1>2, <1>3, <1>8, <2>1, ThreadNames DEF MainLocks, sockets
<1>9. CASE MainUnlocks
  <2>1. \A u \in Threads \ {Main} : ~InSection(u)
    BY <1>2, <1>9, ThreadNames DEF MainUnlocks, InSection
  <2> QED
    BY <1>2, <1>3, <1>9, <2>1, ThreadNames DEF MainUnlocks, sockets
<1>10. CASE MainSends
  <2>1. /\ UNCHANGED <<fd, owner, table, mutexOcc>> /\ pc[Main] = "printing" /\ i \in DOMAIN table
    BY <1>10 DEF MainSends, Types, ThreadTypes, SharedTypes, shared, sockets
  <2>2. CASE table[i].prints
    <3>1. /\ Goto(Main, "send") /\ back' = [back EXCEPT ![Main] = "printing"]
          /\ out' = [out EXCEPT ![Main] = table[i].fd]
      BY <1>10, <2>2 DEF MainSends
    <3>2. /\ out'[Main] = table[i].fd
          /\ \A u \in Threads \ {Main} : back'[u] = back[u] /\ out'[u] = out[u]
      BY <3>1, ThreadNames DEF Types, ThreadTypes
    <3>3. mutexOcc' = Main /\ \A u \in Threads \ {Main} : InSection(u) => mutexOcc' = u
      BY <1>2, <2>1, ThreadNames DEF InSection
    <3> QED
      BY <1>2, <1>3, <2>1, <3>1, <3>2, <3>3, ThreadNames
  <2>3. CASE ~table[i].prints
    <3>1. UNCHANGED <<pc, out, back>>
      BY <1>10, <2>3 DEF MainSends
    <3> QED
      BY <1>2, <2>1, <3>1 DEF InStep, Registered, InSection
  <2> QED
    BY <2>2, <2>3
<1>11. ASSUME NEW t \in Threads, Send(t)
       PROVE  InStep'
  <2>1. /\ SendCtrl(t, out[t], back[t], mutexOcc) /\ UNCHANGED <<table, owner>> /\ pc[t] = "send"
        /\ \A u \in Threads \ {t} : back'[u] = back[u] /\ out'[u] = out[u]
    BY <1>11 DEF Send, Types, ThreadTypes
  <2>2. /\ out[t] \in {0} \cup Fds
        /\ back[t] \notin {"none", "close", "ended", "prompting", "remove", "send"}
    BY ThreadNames DEF Types, ThreadTypes, Commands, MainBacks, ClientBacks
  <2> QED
    BY <1>4, <2>1, <2>2 DEF InSection
<1>12. ASSUME NEW t \in Threads, LogRead(t)
       PROVE  InStep'
  <2>1. /\ pc[t] = "logRead" /\ Goto(t, "send") /\ UNCHANGED <<back, fd, owner, table, mutexOcc>>
        /\ \A u \in Threads \ {t} : out'[u] = out[u]
    BY <1>12 DEF LogRead, shared, sockets, Types, ThreadTypes
  <2>2. back[t] # "printing"
    BY <2>1, ThreadNames DEF Types, ThreadTypes, ClientBacks, MainBacks, Commands
  <2> QED
    BY <1>2, <1>3, <2>1, <2>2
<1>13. ASSUME NEW t \in Threads, FdRem(t)
       PROVE  InStep'
  <2>1. t \in Clients /\ pc[t] = "remove"
    BY <1>2, <1>13, ThreadNames DEF FdRem
  <2>2. /\ pc' = [pc EXCEPT ![t] = "close"] /\ pc'[t] = "close"
        /\ \A u \in Threads : u # t => pc'[u] = pc[u]
        /\ UNCHANGED <<fd, owner, mutexOcc, out, back>> /\ mutexOcc = NoThread
    BY <1>13, GotoOthers DEF FdRem, Goto, sockets
  <2>3. /\ \A j \in DOMAIN table' : \E k \in DOMAIN table : table'[j] = table[k]
        /\ \A k \in DOMAIN table : table[k].fd # fd[t] =>
              \E j \in DOMAIN table' : table'[j] = table[k]
        /\ \A j, k \in DOMAIN table' : table'[j].fd = table'[k].fd => j = k
        /\ \A j \in DOMAIN table' : table'[j].fd # fd[t]
    BY <1>2, <1>13, FdRemTable
  <2>4. \A c \in Clients : Registered(c)' <=> Registered(c) /\ c # t
    BY <2>1, <2>2, ThreadNames DEF Registered
  <2>5. \A c \in Clients : Registered(c) /\ c # t => fd[c] # fd[t]
    BY <1>2, <2>1 DEF Registered
  <2>6. ASSUME NEW c \in Clients, Registered(c)'
        PROVE  \E k \in DOMAIN table' : table'[k].fd = fd'[c]
    <3>1. PICK k \in DOMAIN table : table[k].fd = fd[c]
      BY <1>2, <2>4, <2>6
    <3>2. PICK j \in DOMAIN table' : table'[j] = table[k]
      BY <2>3, <2>4, <2>5, <2>6, <3>1
    <3> QED
      BY <2>2, <3>1, <3>2
  <2>7. ASSUME NEW k \in DOMAIN table'
        PROVE  \E c \in Clients : Registered(c)' /\ table'[k].fd = fd'[c]
    <3>1. PICK j \in DOMAIN table : table'[k] = table[j]
      BY <2>3
    <3>2. PICK c \in Clients : Registered(c) /\ table[j].fd = fd[c]
      BY <1>2
    <3>3. c # t
      BY <2>3, <3>1, <3>2
    <3> QED
      BY <2>2, <2>4, <3>1, <3>2, <3>3
  <2>8. pc'[Main] \notin {"remove", "close", "ended"}
    BY <1>2, <2>1, <2>2, ThreadNames
  <2>9. \A c \in Clients : pc'[c] \notin {"none", "ended"} => fd'[c] \in Fds /\ owner'[fd'[c]] = c
    BY <1>2, <2>1, <2>2, ThreadNames
  <2>10. \A u \in Threads : ~InSection(u)'
    BY <1>2, <2>2, ThreadNames DEF InSection
  <2>11. ~(pc'[Main] = "send" /\ back'[Main] = "printing")
    BY <2>10, ThreadNames DEF InSection
  <2> QED
    BY <2>3, <2>6, <2>7, <2>8, <2>9, <2>10, <2>11 DEF InStep
<1>14. ASSUME NEW t \in Threads, Close(t)
       PROVE  InStep'
  <2>1. t \in Clients /\ pc[t] = "close"
    BY <1>2, <1>14, ThreadNames DEF Close
  <2>2. fd[t] \in Fds /\ owner[fd[t]] = t
    BY <1>2, <2>1
  <2>3. /\ pc'[t] = "ended" /\ \A u \in Threads : u # t => pc'[u] = pc[u]
        /\ UNCHANGED <<table, mutexOcc, out, back>>
    BY <1>14, GotoOthers DEF Close, shared
  <2>4. owner' = owner \/ owner' = [owner EXCEPT ![fd[t]] = 0]
    BY <1>14 DEF Close, sockets
  <2>5. fd' = [fd EXCEPT ![t] = 0]
    BY <1>14 DEF Close
  <2>6. \A c \in Clients : c # t /\ pc[c] \notin {"none", "ended"} =>
          fd'[c] = fd[c] /\ fd[c] \in Fds /\ owner'[fd[c]] = c
    BY <1>2, <2>1, <2>2, <2>4, <2>5, ThreadNames DEF Types, ThreadTypes, SocketTypes
  <2>7. \A c \in Clients : Registered(c)' <=> Registered(c)
    BY <2>1, <2>3, ThreadNames DEF Registered
  <2>8. \A c \in Clients : Registered(c) => c # t /\ fd'[c] = fd[c]
    BY <2>1, <2>6 DEF Registered
  <2>9. \A u \in Threads : InSection(u)' => mutexOcc' = u
    BY <1>2, <2>3 DEF InSection
  <2>10. pc'[Main] \notin {"remove", "close", "ended"}
    BY <1>2, <2>1, <2>3, ThreadNames
  <2>11. \A c \in Clients : pc'[c] \notin {"none", "ended"} => fd'[c] \in Fds /\ owner'[fd'[c]] = c
    BY <2>3, <2>6, ThreadNames
  <2>12. \A k \in DOMAIN table : \E c \in Clients : Registered(c)' /\ table[k].fd = fd'[c]
    BY <1>2, <2>7, <2>8
  <2>13. \A c \in Clients : Registered(c)' => \E k \in DOMAIN table : table[k].fd = fd'[c]
    BY <1>2, <2>7, <2>8
  <2>14. pc'[Main] = "send" /\ back'[Main] = "printing" =>
           \E k \in DOMAIN table : table[k].fd = out'[Main]
    BY <1>2, <2>1, <2>3, ThreadNames
  <2> QED
    BY <1>2, <2>3, <2>9, <2>10, <2>11, <2>12, <2>13, <2>14 DEF InStep
<1>15. ASSUME NEW c \in Clients, Accept(c)
       PROVE  InStep'
  <2>1. PICK f \in Fds :
          /\ owner[f] = 0
          /\ owner' = [owner EXCEPT ![f] = c]
          /\ fd' = [fd EXCEPT ![c] = f]
          /\ table' = Append(table, [fd |-> f, prints |-> Asks])
    BY <1>15 DEF Accept, LowestFree
  <2>2. pc[c] = "none" /\ mutexOcc = NoThread /\ UNCHANGED <<mutexOcc, out>>
    BY <1>15 DEF Accept, Types, Absent
  <2>3. PICK l \in {"logRead", "prompt"} : pc'[c] = l /\ \A u \in Threads : u # c => pc'[u] = pc[u]
    BY <1>15, GotoOthers, ThreadNames DEF Accept, LogThen
  <2>16. \A u \in Threads : u # c => back'[u] = back[u]
    BY <1>15 DEF Accept, LogThen, Types, ThreadTypes
  <2>4. \A d \in Clients : Registered(d)' <=> Registered(d) \/ d = c
    BY <2>2, <2>3, ThreadNames DEF Registered
  <2>5. ~Registered(c)
    BY <2>2 DEF Registered
  <2>6. \A d \in Clients : d # c /\ pc[d] \notin {"none", "ended"} =>
          fd'[d] = fd[d] /\ fd[d] # f /\ fd[d] \in Fds /\ owner'[fd[d]] = d
    <3>1. \A d \in Clients : d # c => fd'[d] = fd[d]
      BY <2>1, ThreadNames DEF Types, ThreadTypes
    <3>2. \A d \in Clients : pc[d] \notin {"none", "ended"} => fd[d] \in Fds /\ owner[fd[d]] = d /\ d # 0
      BY <1>2, ThreadNames
    <3> QED
      BY <2>1, <3>1, <3>2 DEF Types, SocketTypes
  <2>7. fd'[c] = f /\ owner'[f] = c
    BY <2>1, ThreadNames DEF Types, ThreadTypes, SocketTypes
  <2> DEFINE n == Len(table) + 1
  <2>8. /\ DOMAIN table' = DOMAIN table \cup {n} /\ n \notin DOMAIN table
        /\ \A k \in DOMAIN table : table'[k] = table[k]
        /\ table'[n].fd = f
    BY <2>1 DEF Types, SharedTypes
  <2> HIDE DEF n
  <2>9. \A k \in DOMAIN table : table'[k].fd # f
    BY <1>2, <2>5, <2>6, <2>8 DEF Registered
  <2>10. pc'[Main] \notin {"remove", "close", "ended"}
    BY <1>2, <2>3, ThreadNames
  <2>11. \A d \in Clients : pc'[d] \notin {"none", "ended"} => fd'[d] \in Fds /\ owner'[fd'[d]] = d
    BY <2>3, <2>6, <2>7, ThreadNames
  <2>12. ASSUME NEW d \in Clients, Registered(d)'
         PROVE  \E k \in DOMAIN table' : table'[k].fd = fd'[d]
    BY <1>2, <2>4, <2>6, <2>7, <2>8, <2>12 DEF Registered
  <2>13. ASSUME NEW k \in DOMAIN table'
         PROVE  \E d \in Clients : Registered(d)' /\ table'[k].fd = fd'[d]
    <3>1. CASE k = n
      BY <2>4, <2>7, <2>8, <3>1
    <3>2. CASE k \in DOMAIN table
      <4>1. PICK d \in Clients : Registered(d) /\ table[k].fd = fd[d]
        BY <1>2, <3>2
      <4>2. d # c /\ fd'[d] = fd[d]
        BY <2>5, <2>6, <4>1 DEF Registered
      <4> QED
        BY <2>4, <2>8, <3>2, <4>1, <4>2
    <3> QED
      BY <2>8, <3>1, <3>2
  <2>14. \A j, k \in DOMAIN table' : table'[j].fd = table'[k].fd => j = k
    BY <1>2, <2>8, <2>9
  <2>15. \A u \in Threads : ~InSection(u)'
    BY <1>2, <2>2, <2>3, <2>16, ThreadNames DEF InSection
  <2>17. ~(pc'[Main] = "send" /\ back'[Main] = "printing")
    BY <2>15, ThreadNames DEF InSection
  <2> QED
    BY <2>10, <2>11, <2>12, <2>13, <2>14, <2>15, <2>17 DEF InStep
<1>16. ASSUME NEW c \in Clients, GoAway(c) \/ Stall(c)
       PROVE  InStep'
  <2>1. UNCHANGED <<pc, out, back, fd, owner, table, mutexOcc>>
    BY <1>16 DEF GoAway, Stall, threads, shared
  <2> QED
    BY <1>2, <2>1 DEF InStep, Registered, InSection
<1>17. ASSUME NEW c \in Clients, ReadCommand(c)
       PROVE  InStep'
  <2>1. PICK l \in Commands \cup {"logRead"} : Goto(c, l)
    BY <1>17, GivenAssumption DEF ReadCommand, LogThen, Commands
  <2>2. \A u \in Threads \ {c} : back'[u] = back[u]
    BY <1>17 DEF ReadCommand, LogThen, Types, ThreadTypes
  <2> QED
    BY <1>2, <1>3, <1>17, <2>1, <2>2, ThreadNames DEF ReadCommand, Commands, shared, sockets
<1>18. ASSUME NEW c \in Clients, Prompt(c)
       PROVE  InStep'
  <2>1. \A u \in Threads : ~InSection(u)
    BY <1>2, <1>18, ThreadNames DEF Prompt
  <2> QED
    BY <1>2, <1>3, <1>18, <2>1, ThreadNames DEF Prompt, sockets
<1>19. ASSUME NEW c \in Clients, SendPrompt(c)
       PROVE  InStep'
  <2>1. /\ SendCtrl(c, fd[c], "read", NoThread) /\ pc[c] = "prompting"
        /\ UNCHANGED <<out, back, table, owner>>
    BY <1>19 DEF SendPrompt
  <2>2. mutexOcc = c
    BY <1>2, <2>1, ThreadNames DEF InSection
  <2> QED
    BY <1>4, <1>5, <2>1, <2>2, ThreadNames
<1>20. ASSUME NEW c \in Clients, Command(c)
       PROVE  InStep'
  <2>1. PICK l \in {"obey", "prompt", "answer", "answerExit"} : Goto(c, l)
    BY <1>20 DEF Command, Commands
  <2>2. pc[c] \in Commands /\ UNCHANGED <<out, back, fd, owner, mutexOcc>>
    BY <1>20 DEF Command, sockets
  <2>3. DOMAIN table' = DOMAIN table /\ \A k \in DOMAIN table : table'[k].fd = table[k].fd
    <3>1. \A k \in DOMAIN table : table[k] \in Item
      BY ElementOfSeq DEF Types, SharedTypes
    <3> QED
      BY <1>20, <3>1 DEF Command, Item
  <2> QED
    BY <1>2, <1>3, <2>1, <2>2, <2>3, ThreadNames DEF Commands
<1>21. ASSUME NEW c \in Clients, Answer(c)
       PROVE  InStep'
  <2>1. PICK l \in {"prompt", "remove"} : SendCtrl(c, fd[c], l, mutexOcc)
    BY <1>21 DEF Answer
  <2> QED
    BY <1>4, <1>5, <1>21, <2>1, ThreadNames DEF Answer
<1>22. ASSUME NEW c \in Clients, BeginRaw(c)
       PROVE  InStep'
  <2>1. \A u \in Threads \ {c} : back'[u] = back[u]
    BY <1>22 DEF BeginRaw, Types, ThreadTypes
  <2> QED
    BY <1>2, <1>3, <1>22, <2>1, ThreadNames DEF BeginRaw, sockets
<1>23. ASSUME NEW c \in Clients, RawGoesOn(c)
       PROVE  InStep'
  <2>1. \A u \in Threads \ {c} : back'[u] = back[u]
    BY <1>23 DEF RawGoesOn, Types, ThreadTypes
  <2> QED
    BY <1>2, <1>3, <1>23, <2>1, ThreadNames DEF RawGoesOn, shared, sockets
<1>24. ASSUME NEW c \in Clients, EndRaw(c)
       PROVE  InStep'
  BY <1>2, <1>3, <1>24, ThreadNames DEF EndRaw, sockets
<1>25. CASE UNCHANGED vars
  BY <1>2, <1>25 DEF InStep, Registered, InSection, vars, threads, shared, sockets
<1> QED
  BY <1>6, <1>7, <1>8, <1>9, <1>10, <1>11, <1>12, <1>13, <1>14, <1>15, <1>16, <1>17, <1>18, <1>19,
     <1>20, <1>21, <1>22, <1>23, <1>24, <1>25, ThreadNames
  DEF Next, MainStep, ThreadStep, ClientStep

-----------------------------------------------------------------------------
(* What is printed for a client goes to it                                 *)

LEMMA RawOKNext == Types /\ RawOK /\ [Next]_vars => RawOK'
<1> SUFFICES ASSUME Types, RawOK, [Next]_vars, NobodyLeft' PROVE RawOK'
  BY DEF RawOK
<1>1. NobodyLeft
  BY ResetStays DEF NobodyLeft
<1>2. /\ mutexCurFd = NoThread => curFd = 0
      /\ mutexCurFd # NoThread => PrintsRaw(mutexCurFd) /\ curFd = fd[mutexCurFd]
      /\ \A c \in Clients : PrintsRaw(c) => mutexCurFd = c
      /\ \A c \in Clients : PrintsRaw(c) \/ pc[c] = "obey" => c \in raws
      /\ \A c \in Clients : pc[c] = "send" /\ back[c] = "endRaw" => out[c] # 0
      /\ \A c \in Clients : Connected(c) => fd[c] \in Fds /\ owner[fd[c]] = c
      /\ \A k \in DOMAIN table : owner[table[k].fd] # 0
      /\ \A t \in Threads : pc[t] = "send" /\ out[t] # 0 =>
           owner[out[t]] # 0 /\ (back[t] # "printing" => owner[out[t]] \in raws)
  BY <1>1 DEF RawOK
<1>3. /\ raws \subseteq raws' /\ raws \subseteq Clients
      /\ mutexCurFd # NoThread => mutexCurFd \in Clients
      /\ \A t \in Threads : out[t] \in {0} \cup Fds
  BY HistoryNext DEF Types, SharedTypes, ThreadTypes
<1>4. ASSUME NEW t \in Threads, NEW l, Goto(t, l), UNCHANGED <<owner, mutexCurFd, curFd>>,
             \A u \in Threads : u # t => back'[u] = back[u] /\ out'[u] = out[u] /\ fd'[u] = fd[u],
             \A k \in DOMAIN table' : \E j \in DOMAIN table : table'[k].fd = table[j].fd,
             t # Main => /\ PrintsRaw(t)' <=> PrintsRaw(t)
                         /\ fd'[t] = fd[t] \/ (l = "remove" /\ ~PrintsRaw(t))
                         /\ l = "obey" => t \in raws'
                         /\ l = "send" /\ back'[t] = "endRaw" => out'[t] # 0
                         /\ l \notin {"none", "remove", "close", "ended"} => Connected(t),
             l = "send" /\ out'[t] # 0 =>
               owner[out'[t]] # 0 /\ (back'[t] # "printing" => owner[out'[t]] \in raws)
      PROVE  RawOK'
  <2>1. pc'[t] = l /\ \A u \in Threads : u # t => pc'[u] = pc[u]
    BY <1>4, GotoOthers
  <2>2. \A c \in Clients : PrintsRaw(c)' <=> PrintsRaw(c)
    BY <1>4, <2>1, ThreadNames DEF PrintsRaw
  <2>3. mutexCurFd' # NoThread => PrintsRaw(mutexCurFd)' /\ curFd' = fd'[mutexCurFd']
    <3>1. ASSUME mutexCurFd # NoThread
          PROVE  PrintsRaw(mutexCurFd)' /\ curFd' = fd'[mutexCurFd']
      <4>1. PICK c \in Clients : c = mutexCurFd
        BY <1>3, <3>1
      <4>2. PrintsRaw(c) /\ PrintsRaw(c)' /\ mutexCurFd' = c /\ curFd' = fd[c]
        BY <1>2, <1>4, <2>2, <3>1, <4>1
      <4>3. fd'[c] = fd[c]
        BY <1>4, <4>2, ThreadNames
      <4> QED
        BY <4>2, <4>3 DEF PrintsRaw
    <3> QED
      BY <1>4, <3>1
  <2>4. \A c \in Clients : Connected(c)' => fd'[c] \in Fds /\ owner'[fd'[c]] = c
    BY <1>2, <1>4, <2>1, ThreadNames DEF Connected
  <2>5. \A c \in Clients : PrintsRaw(c)' \/ pc'[c] = "obey" => c \in raws'
    BY <1>2, <1>3, <1>4, <2>1, <2>2, ThreadNames
  <2>6. \A c \in Clients : pc'[c] = "send" /\ back'[c] = "endRaw" => out'[c] # 0
    BY <1>2, <1>4, <2>1, ThreadNames
  <2>7. \A u \in Threads : pc'[u] = "send" /\ out'[u] # 0 =>
          owner'[out'[u]] # 0 /\ (back'[u] # "printing" => owner'[out'[u]] \in raws')
    BY <1>2, <1>3, <1>4, <2>1
  <2>8. \A k \in DOMAIN table' : owner'[table'[k].fd] # 0
    BY <1>2, <1>4
  <2> QED
    BY <1>2, <1>4, <2>2, <2>3, <2>4, <2>5, <2>6, <2>7, <2>8 DEF RawOK
<1>5. ASSUME NEW t \in Threads, NEW f \in {0} \cup Fds, NEW l, NEW m, SendCtrl(t, f, l, m),
             f # 0 => owner[f] # 0,
             UNCHANGED <<table, owner, mutexCurFd, curFd>>,
             \A u \in Threads : u # t => back'[u] = back[u] /\ out'[u] = out[u],
             l \notin {"none", "close", "ended", "obey", "logRead", "send"},
             t # Main => /\ Connected(t)
                         /\ PrintsRaw(t) <=> l = "endRaw"
                         /\ PrintsRaw(t) => f # 0
      PROVE  RawOK'
  <2>1. \/ f # 0 /\ Goto(t, l) /\ fd' = fd
        \/ f = 0 /\ Goto(t, "remove") /\ fd' = [fd EXCEPT ![t] = f]
    <3>1. f # 0 => owner[f] \in Clients /\ peer[owner[f]] # "reset"
      BY <1>1, <1>5 DEF NobodyLeft, Types, SocketTypes
    <3> QED
      BY <1>5, <3>1, SendCtrlEffect DEF SendCtrl, Peer, Types, SocketTypes, Peers
  <2>2. \A u \in Threads : u # t => fd'[u] = fd[u]
    BY <2>1 DEF Types, ThreadTypes
  <2>3. CASE f # 0 /\ Goto(t, l) /\ fd' = fd
    <3>1. t # Main => (PrintsRaw(t)' <=> PrintsRaw(t))
      BY <1>5, <2>3, GotoOthers DEF PrintsRaw
    <3> QED
      BY <1>4, <1>5, <2>3, <3>1
  <2>4. CASE f = 0 /\ Goto(t, "remove")
    <3>1. t # Main => ~PrintsRaw(t) /\ ~PrintsRaw(t)'
      BY <1>5, <2>4, GotoOthers DEF PrintsRaw
    <3> QED
      BY <1>4, <1>5, <2>2, <2>4, <3>1
  <2> QED
    BY <2>1, <2>3, <2>4
<1>6. CASE MainLogs
  <2>1. PICK l \in {"logRead", "idle"} : Goto(Main, l)
    BY <1>6 DEF MainLogs, LogThen
  <2>2. \A u \in Threads : u # Main => back'[u] = back[u]
    BY <1>6 DEF MainLogs, LogThen, Types, ThreadTypes
  <2> QED
    BY <1>4, <1>6, <2>1, <2>2, ThreadNames DEF MainLogs, shared, sockets
<1>7. CASE MainPrints
  BY <1>4, <1>7, ThreadNames DEF MainPrints, shared, sockets
<1>8. CASE MainLocks
  BY <1>4, <1>8, ThreadNames DEF MainLocks, sockets
<1>9. CASE MainUnlocks
  BY <1>4, <1>9, ThreadNames DEF MainUnlocks, sockets
<1>10. CASE MainSends
  <2>1. /\ UNCHANGED <<fd, table, owner, mutexCurFd, curFd>>
        /\ i \in DOMAIN table
    BY <1>10 DEF MainSends, Types, ThreadTypes, SharedTypes, shared, sockets
  <2>2. CASE table[i].prints
    <3>1. /\ Goto(Main, "send") /\ back' = [back EXCEPT ![Main] = "printing"]
          /\ out' = [out EXCEPT ![Main] = table[i].fd]
      BY <1>10, <2>2 DEF MainSends
    <3>2. /\ back'[Main] = "printing" /\ out'[Main] = table[i].fd
          /\ \A u \in Threads : u # Main => back'[u] = back[u] /\ out'[u] = out[u]
      BY <3>1, ThreadNames DEF Types, ThreadTypes
    <3>3. owner[out'[Main]] # 0
      BY <1>2, <2>1, <3>2
    <3> QED
      BY <1>4, <2>1, <3>1, <3>2, <3>3, ThreadNames
  <2>3. CASE ~table[i].prints
    <3>1. UNCHANGED <<pc, out, back>>
      BY <1>10, <2>3 DEF MainSends
    <3> QED
      BY <1>2, <1>3, <2>1, <3>1 DEF RawOK, PrintsRaw, Connected
  <2> QED
    BY <2>2, <2>3
<1>11. ASSUME NEW t \in Threads, LogRead(t)
       PROVE  RawOK'
  <2>1. /\ pc[t] = "logRead" /\ Goto(t, "send") /\ UNCHANGED <<back, fd, table, owner, mutexCurFd, curFd>>
        /\ out'[t] = curFd /\ \A u \in Threads : u # t => out'[u] = out[u]
    BY <1>11 DEF LogRead, shared, sockets, Types, ThreadTypes
  <2>2. curFd # 0 => owner[curFd] \in raws /\ owner[curFd] # 0
    <3>1. ASSUME curFd # 0
          PROVE  owner[curFd] \in raws
      <4>1. PICK c \in Clients : c = mutexCurFd
        BY <1>2, <1>3, <3>1
      <4>2. PrintsRaw(c) /\ curFd = fd[c] /\ c \in raws
        BY <1>2, <1>3, <3>1, <4>1, ThreadNames
      <4>3. owner[fd[c]] = c
        BY <1>2, <4>2 DEF PrintsRaw, Connected
      <4> QED
        BY <4>2, <4>3
    <3> QED
      BY <1>3, <3>1, ThreadNames
  <2>3. ASSUME t # Main
        PROVE  /\ PrintsRaw(t)' <=> PrintsRaw(t)
               /\ back'[t] = "endRaw" => out'[t] # 0
               /\ Connected(t)
    <3>1. PrintsRaw(t)' <=> PrintsRaw(t)
      BY <2>1, GotoOthers DEF PrintsRaw
    <3>2. back[t] = "endRaw" => curFd # 0
      <4>1. ASSUME back[t] = "endRaw"
            PROVE  curFd # 0
        <5>1. PrintsRaw(t) /\ t \in Clients
          BY <2>1, <2>3, <4>1, ThreadNames DEF PrintsRaw
        <5>2. mutexCurFd = t /\ fd[t] \in Fds
          BY <1>2, <2>1, <5>1 DEF Connected
        <5> QED
          BY <1>2, <5>1, <5>2, ThreadNames
      <4> QED
        BY <4>1
    <3> QED
      BY <2>1, <3>1, <3>2 DEF Connected
  <2> QED
    BY <1>4, <2>1, <2>2, <2>3
<1>12. ASSUME NEW t \in Threads, Send(t)
       PROVE  RawOK'
  <2>1. /\ pc[t] = "send" /\ SendCtrl(t, out[t], back[t], mutexOcc)
        /\ UNCHANGED <<table, owner, mutexCurFd, curFd>>
        /\ \A u \in Threads : u # t => back'[u] = back[u] /\ out'[u] = out[u]
    BY <1>12 DEF Send, Types, ThreadTypes
  <2>2. back[t] \notin {"none", "close", "ended", "obey", "logRead", "send"}
    BY ThreadNames DEF Types, ThreadTypes, MainBacks, ClientBacks, Commands
  <2>3. t # Main => Connected(t) /\ (PrintsRaw(t) <=> back[t] = "endRaw") /\ (PrintsRaw(t) => out[t] # 0)
    BY <1>2, <2>1, ThreadNames DEF Connected, PrintsRaw
  <2>4. out[t] \in {0} \cup Fds /\ (out[t] # 0 => owner[out[t]] # 0)
    BY <1>2, <1>3, <2>1
  <2> QED
    BY <1>5, <2>1, <2>2, <2>3, <2>4
<1>13. ASSUME NEW t \in Threads, FdRem(t)
       PROVE  RawOK'
  <2>1. /\ pc[t] = "remove" /\ Goto(t, "close")
        /\ UNCHANGED <<out, back, fd, owner, mutexCurFd, curFd>>
    BY <1>13 DEF FdRem, sockets
  <2>2. \A k \in DOMAIN table' : \E j \in DOMAIN table : table'[k].fd = table[j].fd
    BY <1>13, FdRemTable
  <2>3. PrintsRaw(t)' <=> PrintsRaw(t)
    BY <2>1, GotoOthers DEF PrintsRaw
  <2> QED
    BY <1>4, <2>1, <2>2, <2>3
<1>14. ASSUME NEW t \in Threads, Close(t)
       PROVE  RawOK'
  <2>1. /\ pc[t] = "close" /\ Goto(t, "ended") /\ fd' = [fd EXCEPT ![t] = 0]
        /\ UNCHANGED <<out, back, table, mutexCurFd, curFd>>
    BY <1>14 DEF Close, shared
  <2>2. UNCHANGED owner
    <3>1. ASSUME Peer(fd[t]) # "none"
          PROVE  FALSE
      <4>1. fd[t] # 0 /\ fd[t] \in Fds /\ owner[fd[t]] \in Clients
        BY <3>1 DEF Peer, Types, ThreadTypes, SocketTypes
      <4>2. peer'[owner[fd[t]]] \in {"reset", "closed"}
        BY <1>14, <3>1, <4>1 DEF Close, Types, SocketTypes
      <4> QED
        BY <4>1, <4>2 DEF NobodyLeft
    <3> QED
      BY <1>14, <3>1 DEF Close, sockets
  <2>3. pc'[t] = "ended" /\ \A u \in Threads : u # t => pc'[u] = pc[u] /\ fd'[u] = fd[u]
    BY <2>1, GotoOthers DEF Types, ThreadTypes
  <2>4. \A c \in Clients : PrintsRaw(c)' <=> PrintsRaw(c)
    BY <2>1, <2>3, ThreadNames DEF PrintsRaw
  <2>5. mutexCurFd' # NoThread => PrintsRaw(mutexCurFd)' /\ curFd' = fd'[mutexCurFd']
    <3>1. ASSUME mutexCurFd # NoThread
          PROVE  PrintsRaw(mutexCurFd)' /\ curFd' = fd'[mutexCurFd']
      <4>1. PICK c \in Clients : c = mutexCurFd
        BY <1>3, <3>1
      <4>2. PrintsRaw(c) /\ PrintsRaw(c)' /\ mutexCurFd' = c /\ curFd' = fd[c]
        BY <1>2, <2>1, <2>4, <3>1, <4>1
      <4>3. fd'[c] = fd[c]
        BY <2>1, <2>3, <4>2, ThreadNames DEF PrintsRaw
      <4> QED
        BY <4>2, <4>3 DEF PrintsRaw
    <3> QED
      BY <2>1, <3>1
  <2>6. \A c \in Clients : Connected(c)' => fd'[c] \in Fds /\ owner'[fd'[c]] = c
    BY <1>2, <2>2, <2>3, ThreadNames DEF Connected
  <2>7. \A c \in Clients : PrintsRaw(c)' \/ pc'[c] = "obey" => c \in raws'
    BY <1>2, <1>3, <2>3, <2>4, ThreadNames
  <2>8. \A c \in Clients : pc'[c] = "send" /\ back'[c] = "endRaw" => out'[c] # 0
    BY <1>2, <2>1, <2>3, ThreadNames
  <2>9. \A u \in Threads : pc'[u] = "send" /\ out'[u] # 0 =>
          owner'[out'[u]] # 0 /\ (back'[u] # "printing" => owner'[out'[u]] \in raws')
    BY <1>2, <1>3, <2>1, <2>2, <2>3
  <2> QED
    BY <1>2, <2>1, <2>2, <2>4, <2>5, <2>6, <2>7, <2>8, <2>9 DEF RawOK
<1>15. ASSUME NEW c \in Clients, Accept(c)
       PROVE  RawOK'
  <2>1. PICK f \in Fds :
          /\ owner[f] = 0
          /\ owner' = [owner EXCEPT ![f] = c]
          /\ fd' = [fd EXCEPT ![c] = f]
          /\ table' = Append(table, [fd |-> f, prints |-> Asks])
    BY <1>15 DEF Accept, LowestFree
  <2>2. pc[c] = "none" /\ UNCHANGED <<out, mutexCurFd, curFd>>
    BY <1>15 DEF Accept, Types, Absent
  <2>3. PICK l \in {"logRead", "prompt"} :
          /\ pc'[c] = l /\ \A u \in Threads : u # c => pc'[u] = pc[u]
          /\ back' = IF l = "logRead" THEN [back EXCEPT ![c] = "prompt"] ELSE back
    BY <1>15, GotoOthers, ThreadNames DEF Accept, LogThen
  <2>4. /\ l = "logRead" => back'[c] = "prompt"
        /\ \A u \in Threads : u # c => back'[u] = back[u] /\ fd'[u] = fd[u]
        /\ fd'[c] = f
    BY <2>1, <2>3, ThreadNames DEF Types, ThreadTypes
  <2>5. \A d \in Clients : PrintsRaw(d)' <=> PrintsRaw(d) /\ d # c
    BY <2>2, <2>3, <2>4, ThreadNames DEF PrintsRaw
  <2>6. ~PrintsRaw(c)
    BY <2>2 DEF PrintsRaw
  <2>7. mutexCurFd # NoThread => PrintsRaw(mutexCurFd)' /\ curFd' = fd'[mutexCurFd']
    <3>1. ASSUME mutexCurFd # NoThread
          PROVE  PrintsRaw(mutexCurFd)' /\ curFd' = fd'[mutexCurFd']
      <4>1. PICK d \in Clients : d = mutexCurFd
        BY <1>3, <3>1
      <4>2. PrintsRaw(d) /\ PrintsRaw(d)' /\ mutexCurFd' = d /\ curFd' = fd[d] /\ d # c
        BY <1>2, <2>2, <2>5, <2>6, <3>1, <4>1
      <4> QED
        BY <2>4, <4>2, ThreadNames DEF PrintsRaw
    <3> QED
      BY <3>1
  <2>8. /\ owner'[f] = c /\ \A g \in Fds : g # f => owner'[g] = owner[g]
        /\ \A g \in Fds : owner[g] # 0 => owner'[g] = owner[g]
    BY <2>1 DEF Types, SocketTypes
  <2>9. \A d \in Clients : Connected(d)' => fd'[d] \in Fds /\ owner'[fd'[d]] = d
    <3>1. ASSUME NEW d \in Clients, d # c, Connected(d)'
          PROVE  fd'[d] \in Fds /\ owner'[fd'[d]] = d
      <4>1. fd[d] \in Fds /\ owner[fd[d]] = d /\ d # 0 /\ fd'[d] = fd[d]
        BY <1>2, <2>3, <2>4, <3>1, ThreadNames DEF Connected
      <4> QED
        BY <2>8, <4>1
    <3> QED
      BY <2>4, <2>8, <3>1
  <2> DEFINE n == Len(table) + 1
  <2>10. /\ DOMAIN table' = DOMAIN table \cup {n}
         /\ \A k \in DOMAIN table : table'[k] = table[k]
         /\ table'[n].fd = f
    BY <2>1 DEF Types, SharedTypes
  <2> HIDE DEF n
  <2>11. \A k \in DOMAIN table : table[k].fd \in Fds
    <3>1. \A k \in DOMAIN table : table[k] \in Item
      BY ElementOfSeq DEF Types, SharedTypes
    <3> QED
      BY <3>1 DEF Item
  <2>12. \A k \in DOMAIN table' : owner'[table'[k].fd] # 0
    BY <1>2, <2>8, <2>10, <2>11, ThreadNames
  <2>13. \A u \in Threads : pc'[u] = "send" /\ out'[u] # 0 =>
           owner'[out'[u]] # 0 /\ (back'[u] # "printing" => owner'[out'[u]] \in raws')
    BY <1>2, <1>3, <2>2, <2>3, <2>4, <2>8
  <2>14. \A d \in Clients : PrintsRaw(d)' => mutexCurFd' = d
    BY <1>2, <2>2, <2>5
  <2>15. \A d \in Clients : PrintsRaw(d)' \/ pc'[d] = "obey" => d \in raws'
    BY <1>2, <1>3, <2>3, <2>5, ThreadNames
  <2>16. \A d \in Clients : pc'[d] = "send" /\ back'[d] = "endRaw" => out'[d] # 0
    BY <1>2, <2>2, <2>3, <2>4, ThreadNames
  <2> QED
    BY <1>2, <2>2, <2>7, <2>9, <2>12, <2>13, <2>14, <2>15, <2>16 DEF RawOK
<1>16. ASSUME NEW c \in Clients, GoAway(c) \/ Stall(c)
       PROVE  RawOK'
  <2>1. UNCHANGED <<pc, out, back, fd, owner, table, mutexCurFd, curFd>>
    BY <1>16 DEF GoAway, Stall, threads, shared
  <2> QED
    BY <1>2, <1>3, <2>1 DEF RawOK, PrintsRaw, Connected
<1>17. ASSUME NEW c \in Clients, ReadCommand(c)
       PROVE  RawOK'
  <2>1. PICK l \in Commands :
          \/ Goto(c, "logRead") /\ back' = [back EXCEPT ![c] = l]
          \/ Goto(c, l) /\ back' = back
    BY <1>17, GivenAssumption DEF ReadCommand, LogThen, Commands
  <2>2. PICK l2 \in Commands \cup {"logRead"} : Goto(c, l2) /\ (l2 = "logRead" => back'[c] \in Commands)
    <3>1. c \in Threads /\ back' = [back EXCEPT ![c] = l] => back'[c] = l
      BY DEF Types, ThreadTypes
    <3>2. l # "logRead"
      BY DEF Commands
    <3> QED
      BY <2>1, <3>1, <3>2, ThreadNames
  <2>3. pc[c] = "read" /\ UNCHANGED <<out, fd, owner, table, mutexCurFd, curFd>>
    BY <1>17 DEF ReadCommand, shared, sockets
  <2>4. \A u \in Threads : u # c => back'[u] = back[u]
    BY <2>1 DEF Types, ThreadTypes
  <2>5. pc'[c] = l2
    BY <2>2, GotoOthers, ThreadNames
  <2>6. ~PrintsRaw(c) /\ ~PrintsRaw(c)' /\ Connected(c)
    BY <2>2, <2>3, <2>5 DEF PrintsRaw, Connected, Commands
  <2> QED
    BY <1>4, <2>2, <2>3, <2>4, <2>6, ThreadNames DEF Commands
<1>18. ASSUME NEW c \in Clients, Prompt(c)
       PROVE  RawOK'
  <2>1. ~PrintsRaw(c) /\ ~PrintsRaw(c)' /\ Connected(c)
    BY <1>18, GotoOthers, ThreadNames DEF Prompt, PrintsRaw, Connected
  <2> QED
    BY <1>4, <1>18, <2>1, ThreadNames DEF Prompt, sockets
<1>19. ASSUME NEW c \in Clients, SendPrompt(c) \/ Answer(c)
       PROVE  RawOK'
  <2>1. PICK l \in {"read", "prompt", "remove"}, m \in {NoThread} \cup Threads : SendCtrl(c, fd[c], l, m)
    BY <1>19 DEF SendPrompt, Answer, Types, SharedTypes
  <2>2. /\ UNCHANGED <<out, back, table, owner, mutexCurFd, curFd>>
        /\ pc[c] \in {"prompting", "answer", "answerExit"}
    BY <1>19 DEF SendPrompt, Answer
  <2>3. Connected(c) /\ fd[c] \in Fds /\ owner[fd[c]] # 0 /\ ~PrintsRaw(c)
    BY <1>2, <2>2, ThreadNames DEF PrintsRaw, Connected
  <2> QED
    BY <1>5, <2>1, <2>2, <2>3, ThreadNames
<1>20. ASSUME NEW c \in Clients, Command(c)
       PROVE  RawOK'
  <2>1. PICK l \in {"obey", "prompt", "answer", "answerExit"} : Goto(c, l) /\ (l = "obey" => c \in raws')
    BY <1>20 DEF Command, Commands
  <2>2. pc[c] \in Commands /\ UNCHANGED <<out, back, fd, owner, mutexCurFd, curFd>>
    BY <1>20 DEF Command, sockets
  <2>3. \A k \in DOMAIN table' : \E j \in DOMAIN table : table'[k].fd = table[j].fd
    <3>1. \A k \in DOMAIN table : table[k] \in Item
      BY ElementOfSeq DEF Types, SharedTypes
    <3> QED
      BY <1>20, <3>1 DEF Command, Item
  <2>4. ~PrintsRaw(c) /\ ~PrintsRaw(c)' /\ Connected(c)
    BY <2>1, <2>2, GotoOthers, ThreadNames DEF PrintsRaw, Connected, Commands
  <2> QED
    BY <1>4, <2>1, <2>2, <2>3, <2>4, ThreadNames
<1>21. ASSUME NEW c \in Clients, BeginRaw(c)
       PROVE  RawOK'
  <2>1. /\ pc[c] = "obey" /\ mutexCurFd = NoThread /\ mutexCurFd' = c /\ curFd' = fd[c]
        /\ back' = [back EXCEPT ![c] = "endRaw"]
        /\ pc'[c] = "logRead" /\ \A u \in Threads : u # c => pc'[u] = pc[u]
        /\ UNCHANGED <<out, fd, table, owner>>
    BY <1>21, GotoOthers, ThreadNames DEF BeginRaw, sockets
  <2>2. back'[c] = "endRaw" /\ \A u \in Threads : u # c => back'[u] = back[u]
    BY <2>1, ThreadNames DEF Types, ThreadTypes
  <2>3. \A d \in Clients : PrintsRaw(d)' <=> d = c
    BY <1>2, <2>1, <2>2, ThreadNames DEF PrintsRaw
  <2>4. \A d \in Clients : Connected(d)' => fd'[d] \in Fds /\ owner'[fd'[d]] = d
    BY <1>2, <2>1, ThreadNames DEF Connected
  <2>5. \A d \in Clients : PrintsRaw(d)' \/ pc'[d] = "obey" => d \in raws'
    BY <1>2, <1>3, <2>1, <2>3, ThreadNames
  <2>6. PrintsRaw(mutexCurFd)' /\ mutexCurFd' # NoThread
    BY <2>1, <2>2, ThreadNames DEF PrintsRaw
  <2>7. \A d \in Clients : pc'[d] = "send" /\ back'[d] = "endRaw" => out'[d] # 0
    BY <1>2, <2>1, <2>2, ThreadNames
  <2>8. \A u \in Threads : pc'[u] = "send" /\ out'[u] # 0 =>
          owner'[out'[u]] # 0 /\ (back'[u] # "printing" => owner'[out'[u]] \in raws')
    BY <1>2, <1>3, <2>1, <2>2
  <2> QED
    BY <1>2, <2>1, <2>3, <2>4, <2>5, <2>6, <2>7, <2>8 DEF RawOK
<1>22. ASSUME NEW c \in Clients, RawGoesOn(c)
       PROVE  RawOK'
  <2>1. /\ pc[c] = "endRaw" /\ Goto(c, "logRead") /\ back' = [back EXCEPT ![c] = "endRaw"]
        /\ UNCHANGED <<out, fd, table, owner, mutexCurFd, curFd>>
    BY <1>22 DEF RawGoesOn, shared, sockets
  <2>2. back'[c] = "endRaw" /\ \A u \in Threads : u # c => back'[u] = back[u]
    BY <2>1, ThreadNames DEF Types, ThreadTypes
  <2>3. PrintsRaw(c) /\ PrintsRaw(c)' /\ Connected(c)
    BY <2>1, <2>2, GotoOthers, ThreadNames DEF PrintsRaw, Connected
  <2> QED
    BY <1>4, <2>1, <2>2, <2>3, ThreadNames
<1>23. ASSUME NEW c \in Clients, EndRaw(c)
       PROVE  RawOK'
  <2>1. /\ pc[c] = "endRaw" /\ mutexCurFd' = NoThread /\ curFd' = 0
        /\ pc'[c] = "prompt" /\ \A u \in Threads : u # c => pc'[u] = pc[u]
        /\ UNCHANGED <<out, back, fd, table, owner>>
    BY <1>23, GotoOthers, ThreadNames DEF EndRaw, Released, sockets
  <2>2. \A d \in Clients : ~PrintsRaw(d)'
    BY <1>2, <2>1, ThreadNames DEF PrintsRaw
  <2>3. \A d \in Clients : Connected(d)' => fd'[d] \in Fds /\ owner'[fd'[d]] = d
    BY <1>2, <2>1, ThreadNames DEF Connected
  <2>4. \A d \in Clients : pc'[d] = "obey" => d \in raws'
    BY <1>2, <1>3, <2>1, ThreadNames
  <2>5. \A d \in Clients : pc'[d] = "send" /\ back'[d] = "endRaw" => out'[d] # 0
    BY <1>2, <2>1, ThreadNames
  <2>6. \A u \in Threads : pc'[u] = "send" /\ out'[u] # 0 =>
          owner'[out'[u]] # 0 /\ (back'[u] # "printing" => owner'[out'[u]] \in raws')
    BY <1>2, <1>3, <2>1
  <2> QED
    BY <1>2, <2>1, <2>2, <2>3, <2>4, <2>5, <2>6 DEF RawOK
<1>24. CASE UNCHANGED vars
  BY <1>2, <1>3, <1>24 DEF RawOK, PrintsRaw, Connected, vars, threads, shared, sockets
<1> QED
  BY <1>6, <1>7, <1>8, <1>9, <1>10, <1>11, <1>12, <1>13, <1>14, <1>15, <1>16, <1>17, <1>18,
     <1>19, <1>20, <1>21, <1>22, <1>23, <1>24, ThreadNames
  DEF Next, MainStep, ThreadStep, ClientStep

-----------------------------------------------------------------------------
(* The theorems                                                            *)

LEMMA InitIInv == Init => IInv
<1> SUFFICES ASSUME Init PROVE IInv
  OBVIOUS
<1>1. Types
  BY TypesInit
<1>2. NoRaw /\ NothingAsked /\ Undisturbed
  BY ThreadNames DEF Init, NoRaw, NothingAsked, Undisturbed
<1>3. InStep
  BY ThreadNames DEF Init, InStep, Registered, InSection
<1>4. RawOK
  BY ThreadNames DEF Init, RawOK, PrintsRaw, Connected
<1> QED
  BY <1>1, <1>2, <1>3, <1>4 DEF IInv

\* The table, cur_fd and mutex_cur_fd stay in step with the clients' threads, each
\* as long as what it depends on has not gone wrong.
THEOREM InductiveInvariant == Spec => []IInv
<1>1. IInv /\ [Next]_vars => IInv'
  BY TypesNext, NoRawNext, NothingAskedNext, InStepNext, UndisturbedNext, RawOKNext DEF IInv
<1> QED
  BY InitIInv, <1>1, PTL DEF Spec

\* The table of clients holds, once each, the descriptors of the clients that are
\* connected, unless a thread was ended for another one: nmxptool_fd_add(),
\* nmxptool_fd_rem() and mutex_occ.
THEOREM TableHoldsClients == Spec => []TableIsClients
<1>1. IInv => TableIsClients
  BY ThreadNames DEF IInv, InStep, TableIsClients, Registered
<1> QED
  BY <1>1, InductiveInvariant, PTL

\* Only a client that had its raw or params printed, or one that has gone away while
\* packets were printed, can have ended the main thread: nmxptool_send_ctrl().
THEOREM MainIsSafe == Spec => []MainSurvives
<1>1. IInv => MainSurvives
  <2> SUFFICES ASSUME IInv, pc[Main] \in {"remove", "close", "ended"}, raws = {}
               PROVE  asked /\ \E c \in Clients : peer[c] = "reset"
    BY DEF MainSurvives
  <2>1. asked
    BY DEF IInv, Types, NothingAsked
  <2>2. astray # FALSE
    BY DEF IInv, InStep
  <2> QED
    BY <2>1, <2>2 DEF IInv, Undisturbed
<1> QED
  BY <1>1, InductiveInvariant, PTL

\* As long as nobody has left, what nmxp_log() sends goes to a client that gave raw or
\* params, also when the line is late: cur_fd, mutex_cur_fd and nmxptool_send_ctrl().
THEOREM RawIsForAsker == Spec => []RawGoesToAsker
<1>1. IInv => RawGoesToAsker
  <2> SUFFICES ASSUME IInv, NobodyLeft PROVE RawGoesToAsker
    BY DEF RawGoesToAsker, NobodyLeft
  <2>1. \A t \in Threads : pc[t] = "send" /\ back[t] # "printing" /\ out[t] # 0 => owner[out[t]] \in raws
    BY DEF IInv, RawOK
  <2>2. CASE mutexCurFd = NoThread
    BY <2>1, <2>2 DEF IInv, RawOK, RawGoesToAsker
  <2>3. CASE mutexCurFd # NoThread
    <3>1. PICK c \in Clients : c = mutexCurFd
      BY <2>3 DEF IInv, Types, SharedTypes
    <3>2. PrintsRaw(c) /\ curFd = fd[c]
      BY <2>3, <3>1 DEF IInv, RawOK
    <3>3. owner[fd[c]] = c
      BY <3>2 DEF IInv, RawOK, PrintsRaw, Connected
    <3> QED
      BY <2>1, <2>3, <3>1, <3>2, <3>3 DEF RawGoesToAsker, PrintsRaw
  <2> QED
    BY <2>2, <2>3
<1> QED
  BY <1>1, InductiveInvariant, PTL
=============================================================================
