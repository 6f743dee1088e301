------------------------------- MODULE SeedFiles -------------------------------
(***************************************************************************)
(* Mini-SEED output: the samples of a channel are gathered until they fill *)
(* records, each record goes to the file of its channel and of the day on  *)
(* which it starts, and the files that were used last stay open in a ring  *)
(* of NMXP_DATA_MAX_NUM_OPENED_FILE slots.                                 *)
(*                                                                         *)
(* A sample is its time, in units of the sampling period.  How many        *)
(* samples a record takes depends on their compression: any number up to   *)
(* RecordSize.  Directories and files may fail to open at any time;        *)
(* fwrite() and msr_pack() do not fail here.                               *)
(***************************************************************************)
EXTENDS Integers, SequencesExt

CONSTANTS
  Channel,
  MaxFiles,       \* NMXP_DATA_MAX_NUM_OPENED_FILE
  RecordSize,     \* samples that fit in a record
  DayLength,      \* samples in a day
  MaxSamples,     \* bound of the model: samples in a packet
  MaxTime,        \* bound of the model: start of a packet
  MaxReceived     \* bound of the model: samples handled

ASSUME SeedAssumption == MaxFiles \in Nat \ {0} /\ RecordSize \in Nat \ {0} /\ DayLength \in Nat \ {0}

VARIABLES
  slots,      \* filename_mseed and outfile_mseed
  nOpen,      \* n_open_files
  last,       \* last_open_file
  cur,        \* cur_open_file
  dirs,       \* the channels whose directory exists
  errGeneral, \* err_general
  buffer,     \* the samples of each MSRecord
  step,         \* what is going on
  packet,     \* the packet being handled: its channel and samples
  received,   \* history: the samples handled so far
  records,    \* history: the records packed, with the file each went to, or NoFile,
              \* and the number of samples packed when it was
  refused     \* history: the files that fopen() or mkdir() has refused

ring == <<slots, nOpen, last, cur>>
seedVars == <<ring, dirs, errGeneral, buffer, step, packet, received, records, refused>>

Slots == 0 .. MaxFiles - 1
NoFile == <<>>
NoPacket == [channel |-> CHOOSE c \in Channel : TRUE, samples |-> <<>>]

\* nmxp_data_get_filename_ms(): the file of a record that starts at time t.
FileOf(c, t) == <<c, t \div DayLength>>

-----------------------------------------------------------------------------
(* nmxp_data_seed_fopen()                                                  *)

\* The slots that hold a name, and are looked at.
Holding(f) == {k \in 0 .. nOpen - 1 : slots[k].name = f}

\* The slot of the next file.
Victim == (last + 1) % MaxFiles

LastFirst(opened) == Victim                           \* mutant: advanced before fopen()
NextLast(opened) == IF opened THEN Victim ELSE last

OldName(f) == slots[Victim].name                      \* mutant: the name is set after fopen()
NewName(f) == f

\* The file of the slot is closed and the name stored before fopen() is tried.
OpenAt(f, opened) ==
  /\ slots' = [slots EXCEPT ![Victim] = [name |-> IF opened THEN f ELSE NewName(f), open |-> opened]]
  /\ last' = NextLast(opened)
  /\ nOpen' = IF opened /\ nOpen < MaxFiles THEN nOpen + 1 ELSE nOpen
  /\ cur' = IF opened THEN Victim ELSE cur

KeepsCurrent(f) == cur                                \* mutant: cur_open_file is not set
Current(f) == CHOOSE k \in Holding(f) : TRUE

\* nmxp_data_mkdirp() when the directory of the file does not exist.
MakeDir(c) == dirs' = dirs \cup {c}

\* The samples of a channel that have been packed.
PackedSoFar(c) == IF records[c] = <<>> THEN 0 ELSE records[c][Len(records[c])].upTo

\* The record is written where cur_open_file is; a slot without file takes it to
\* nowhere, and so does an error.
WriteRecord(c, samples) ==
  LET f == FileOf(c, samples[1])
      Written(g) ==
        records' = [records EXCEPT ![c] =
          Append(@, [file |-> g, samples |-> samples, upTo |-> PackedSoFar(c) + Len(samples)])]
  IN  \/ /\ Holding(f) # {}
         /\ cur' = Current(f)
         /\ Written(IF slots[cur'].open THEN slots[cur'].name ELSE NoFile)
         /\ UNCHANGED <<slots, nOpen, last, dirs, errGeneral, refused>>
      \/ /\ Holding(f) = {} /\ c \notin dirs          \* nmxp_data_mkdirp() fails
         /\ errGeneral' = TRUE
         /\ Written(NoFile)
         /\ refused' = refused \cup {f}
         /\ UNCHANGED <<ring, dirs>>
      \/ /\ Holding(f) = {}
         /\ MakeDir(c)
         /\ \E opened \in BOOLEAN :
              /\ OpenAt(f, opened)
              /\ Written(IF opened THEN f ELSE NoFile)
              /\ refused' = IF opened THEN refused ELSE refused \cup {f}
         /\ UNCHANGED errGeneral

-----------------------------------------------------------------------------
(* nmxp_data_msr_pack(): with flush all samples are packed, else only those *)
(* that fill records.                                                       *)

PackOne(c) ==
  \E n \in 1 .. RecordSize :
    /\ n <= Len(buffer[c])
    /\ WriteRecord(c, SubSeq(buffer[c], 1, n))
    /\ buffer' = [buffer EXCEPT ![c] = SubSeq(@, n + 1, Len(@))]

\* A packet is handled: it goes on from the samples that wait, after a gap, or
\* from an earlier time.  After err_general main ends the connection, but not
\* before the packets it has at hand are handled.
Handle(c, start, n) ==
  /\ step = "flow"
  /\ SumFunction([d \in Channel |-> Len(received[d])]) + n <= MaxReceived
  /\ packet' = [channel |-> c, samples |-> [k \in 1 .. n |-> start + k - 1]]
  /\ received' = [received EXCEPT ![c] = @ \o packet'.samples]
  /\ step' = "append"
  /\ UNCHANGED <<ring, dirs, errGeneral, buffer, records, refused>>

Contiguous(b, s) == IF b = <<>> THEN TRUE ELSE s[1] = b[Len(b)] + 1

ForgetGap(c) == TRUE                                  \* mutant: a gap is not looked for
NoGap(c) == Contiguous(buffer[c], packet.samples)

FlushGap ==
  /\ step = "append"
  /\ ~NoGap(packet.channel)
  /\ PackOne(packet.channel)
  /\ UNCHANGED <<step, packet, received>>

AppendSamples ==
  /\ step = "append"
  /\ NoGap(packet.channel)
  /\ buffer' = [buffer EXCEPT ![packet.channel] = @ \o packet.samples]
  /\ packet' = [packet EXCEPT !.samples = <<>>]
  /\ step' = "pack"
  /\ UNCHANGED <<ring, dirs, errGeneral, received, records, refused>>

Pack ==
  /\ step = "pack"
  /\ Len(buffer[packet.channel]) > RecordSize
  /\ PackOne(packet.channel)
  /\ UNCHANGED <<step, packet, received>>

Packed ==
  /\ step = "pack"
  /\ Len(buffer[packet.channel]) <= RecordSize
  /\ step' = "flow"
  /\ packet' = NoPacket
  /\ UNCHANGED <<ring, dirs, errGeneral, buffer, received, records, refused>>

-----------------------------------------------------------------------------
(* The end of a connection                                                 *)

CloseFile ==
  /\ step = "flow"
  /\ step' = "closing"
  /\ UNCHANGED <<ring, dirs, errGeneral, buffer, packet, received, records, refused>>

AnyLeft(c) == TRUE                                    \* mutant: not flushed
NoneLeft(c) == buffer[c] = <<>>

Flush(c) ==
  /\ step = "closing"
  /\ PackOne(c)
  /\ UNCHANGED <<step, packet, received>>

\* nmxp_data_seed_fclose_all(), msr_free(), and the next connection unless
\* err_general.
CloseAll ==
  /\ step = "closing"
  /\ \A c \in Channel : NoneLeft(c)
  /\ slots' = [k \in Slots |-> IF slots[k].open THEN [name |-> NoFile, open |-> FALSE] ELSE slots[k]]
  /\ nOpen' = 0
  /\ last' = -1
  /\ cur' = -1
  /\ buffer' = [c \in Channel |-> <<>>]
  /\ step' = IF errGeneral THEN "ended" ELSE "flow"
  /\ UNCHANGED <<dirs, errGeneral, packet, received, records, refused>>

-----------------------------------------------------------------------------
\* nmxp_data_seed_init()
SeedInit ==
  /\ slots = [k \in Slots |-> [name |-> NoFile, open |-> FALSE]]
  /\ nOpen = 0
  /\ last = -1
  /\ cur = -1
  /\ dirs = {}
  /\ errGeneral = FALSE
  /\ buffer = [c \in Channel |-> <<>>]
  /\ step = "flow"
  /\ packet = NoPacket
  /\ received = [c \in Channel |-> <<>>]
  /\ records = [c \in Channel |-> <<>>]
  /\ refused = {}

SeedNext ==
  \/ \E c \in Channel, start \in 0 .. MaxTime, n \in 1 .. MaxSamples : Handle(c, start, n)
  \/ FlushGap \/ AppendSamples \/ Pack \/ Packed
  \/ CloseFile \/ CloseAll
  \/ \E c \in Channel : Flush(c)

SeedSpec == SeedInit /\ [][SeedNext]_seedVars
-----------------------------------------------------------------------------
(* Properties                                                              *)

\* A record lies in the file of its channel and of the day it starts on, whatever
\* cur_open_file was, and spans no gap.
RecordsInPlace ==
  \A c \in Channel : \A k \in DOMAIN records[c] :
    LET r == records[c][k] IN
    /\ r.file \in {NoFile, FileOf(c, r.samples[1])}
    /\ r.samples = [j \in DOMAIN r.samples |-> r.samples[1] + j - 1]

\* The samples of a channel are packed in the order in which they were handled,
\* each once: what is packed, what waits for its record to fill and what is in
\* hand are what was handled.
SamplesConserved ==
  \A c \in Channel :
    /\ \A k \in DOMAIN records[c] :
         records[c][k].samples =
           SubSeq(received[c], IF k = 1 THEN 1 ELSE records[c][k - 1].upTo + 1, records[c][k].upTo)
    /\ buffer[c] \o (IF packet.channel = c THEN packet.samples ELSE <<>>) =
         SubSeq(received[c], PackedSoFar(c) + 1, Len(received[c]))

\* A file that cannot be opened takes only records of its own with it.
LossIsLocal ==
  \A c \in Channel : \A k \in DOMAIN records[c] :
    records[c][k].file = NoFile => FileOf(c, records[c][k].samples[1]) \in refused

\* No file is open twice, every open one is found again, and at most one name in
\* the ring has no file, the one that is replaced next: a file whose fopen() failed
\* is tried again as soon as another one is opened.
RingInOrder ==
  /\ \A k \in Slots : slots[k].open => k < nOpen
  /\ \A k, l \in 0 .. nOpen - 1 : slots[k].name = slots[l].name => k = l
  /\ \A k \in 0 .. nOpen - 1 : slots[k].open \/ k = Victim
=============================================================================
