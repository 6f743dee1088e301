-------------------------------- MODULE Packets --------------------------------
(***************************************************************************)
(* From the body of a data message to the samples that main() handles:     *)
(* nmxp_processCompressedData() with nmxp_data_unpack_bundle(),            *)
(* nmxp_processDecompressedData(), and in the DAP flow nmxp_data_trim().   *)
(* The names come from the channels that Channels has selected.            *)
(*                                                                         *)
(* A byte has ByteValues values; the order of bytes is left out.  Time is  *)
(* counted in samples, the window of a request in halves of them, because  *)
(* nmxp_data_trim() rounds.  One message follows the other without a trace *)
(* of the one before, so the model sends any message of the instrument at  *)
(* any time.                                                               *)
(*                                                                         *)
(* In the PDS flow a packet is followed to the place where main() gets it; *)
(* what main() cuts off at a saved time is in Continuity.                  *)
(***************************************************************************)
EXTENDS Channels

CONSTANTS
  ByteValues,   \* 256 in the code
  MaxOut,       \* MAX_OUTDATA
  Waves,        \* the series of samples that instruments record
  Starts,       \* bound of the model: the times at which packets start
  FieldCounts,  \* bound of the model: fields in a packet
  MaxSamples,   \* bound of the model: samples in a decompressed packet
  Windows       \* start_time and end_time of the requests, in half samples

ASSUME BytesAssumption == ByteValues \in Nat \ {0} /\ ByteValues % 2 = 0 /\ MaxOut \in Nat
ASSUME WavesAssumption == Waves \in Seq(Seq(Int)) /\ Waves # <<>>
ASSUME BoundsAssumption == Starts \subseteq Nat \ {0} /\ FieldCounts \subseteq Nat /\ MaxSamples \in Nat
ASSUME WindowsAssumption == Windows \subseteq [start : Int, end : Int]

VARIABLES
  window,   \* params.start_time and params.end_time
  req,      \* request_chan
  sent,     \* history: the packet received: channel, time, samples recorded, bundles, cut off
  pd        \* the packet that is handled, or NoPacket

vars == <<chanVars, window, req, sent, pd>>

Fields == 4                             \* fields in a bundle, of four bytes each
NullBits == <<0, 0, 2, 1>>              \* 9
Kinds == 0 .. 3                         \* not used, 4 bytes, 2 short words, 1 word
Count(kind) == <<0, 4, 2, 1>>[kind + 1]

\* The values of one, two, three (the first sample) and four bytes; of as many
\* values half are negative.
Word(bytes) ==
  <<ByteValues, ByteValues * ByteValues, ByteValues * ByteValues * ByteValues,
    ByteValues * ByteValues * ByteValues * ByteValues>>[bytes]
Size(kind) == Word(<<1, 1, 2, 4>>[kind + 1])
X0Size == Word(3)

Fits(v, size) == -(size \div 2) <= v /\ v < size \div 2
Unsigned(v, size) == v % size
Signed(u, size) == IF u >= size \div 2 THEN u - size ELSE u

NoPacket == [handled |-> FALSE, key |-> -1, samples |-> <<>>]
SentPacket(key, time, size, bundles, cutoff) ==
  [key |-> key, time |-> time, size |-> size, bundles |-> bundles, cutoff |-> cutoff]
NothingSent == SentPacket(-2, 0, 0, 0, FALSE)
Filler == SentPacket(-1, 0, 0, 0, FALSE)

-----------------------------------------------------------------------------
(* The instrument                                                          *)

\* The series recorded for a key; channels of one instrument differ.
Wave(key) == Waves[(key % Len(Waves)) + 1]

\* A packet of up to n fields whose first sample is series[at]: each field takes
\* as many differences as fit, but none smaller than the kind least.
Encoded(series, at, n, least) ==
  LET Fit(k, off) == /\ at + off + Count(k) <= Len(series)
                     /\ \A i \in 1 .. Count(k) :
                          Fits(series[at + off + i] - series[at + off + i - 1], Size(k))
      Field(k, off) == [kind |-> k,
                        raw |-> [i \in 1 .. Count(k) |->
                                   Unsigned(series[at + off + i] - series[at + off + i - 1], Size(k))]]
      packed[f \in 0 .. n] ==
        IF f = 0 THEN [off |-> 0, fields |-> <<>>]
        ELSE LET acc == packed[f - 1]
                 K == {k \in least .. 3 : Fit(k, acc.off)}
                 k == CHOOSE j \in K : \A l \in K : j <= l
             IN  IF K = {} THEN acc
                 ELSE [off |-> acc.off + Count(k), fields |-> Append(acc.fields, Field(k, acc.off))]
  IN  packed[n]

Unused == [kind |-> 0, raw |-> <<>>]
NullBundle == [f \in 1 .. Fields |-> [kind |-> NullBits[f], raw |-> [i \in 1 .. Count(NullBits[f]) |-> 0]]]

\* The fields in bundles of four, the last one filled up with unused fields.
Bundles(fields) ==
  [b \in 1 .. (Len(fields) + Fields - 1) \div Fields |->
     [f \in 1 .. Fields |-> LET i == (b - 1) * Fields + f
                            IN  IF i <= Len(fields) THEN fields[i] ELSE Unused]]

\* A compressed packet; what follows a null bundle is no data.  The last bundle may
\* be followed by a part of one.
Starting(key) == {t \in Starts : t < Len(Wave(key)) /\ Fits(Wave(key)[t], X0Size)}

Compressed(key, at, fields, padded, partial) ==
  [key |-> key, time |-> at, x0 |-> Unsigned(Wave(key)[at], X0Size), partial |-> partial,
   bundles |-> Bundles(fields) \o (IF padded THEN <<NullBundle>> \o Bundles(fields) ELSE <<>>)]

-----------------------------------------------------------------------------
(* Unpacking                                                               *)

IsNull(bundle) == [f \in 1 .. Fields |-> bundle[f].kind] = NullBits

\* nmxp_data_unpack_bundle(): the samples behind the last one that is there.
Unpack(out, bundle) ==
  LET Differences(field) == [i \in DOMAIN field.raw |-> Signed(field.raw[i], Size(field.kind))]
      d == Differences(bundle[1]) \o Differences(bundle[2])
             \o Differences(bundle[3]) \o Differences(bundle[4])
      sample[i \in 0 .. Len(d)] == IF i = 0 THEN Last(out) ELSE sample[i - 1] + d[i]
  IN  out \o [i \in 1 .. Len(d) |-> sample[i]]

RoomForOneLess(nout) == nout + 4 * Fields < MaxOut    \* mutant: >= for >
HasRoom(nout) == nout + 4 * Fields <= MaxOut

\* The loop of nmxp_processCompressedData() over the bundles.  It ends the program
\* when it has no room for a bundle, or comes to a part of one.
UnpackAll(x0, bundles, partial) ==
  LET unpacked[b \in 0 .. Len(bundles)] ==
        IF b = 0 THEN [out |-> <<x0>>, done |-> FALSE, exit |-> FALSE]
        ELSE LET acc == unpacked[b - 1]
             IN  IF acc.done THEN acc
                 ELSE IF ~HasRoom(Len(acc.out)) THEN [acc EXCEPT !.done = TRUE, !.exit = TRUE]
                 ELSE IF IsNull(bundles[b]) THEN [acc EXCEPT !.done = TRUE]
                 ELSE [acc EXCEPT !.out = Unpack(@, bundles[b])]
      all == unpacked[Len(bundles)]
  IN  [all EXCEPT !.exit = @ \/ (partial /\ ~all.done)]

FirstOfNext(out) == out                               \* mutant: nout is not decremented
OwnSamples(out) == Front(out)

\* The last value unpacked is the first one of the next packet.  A channel that
\* was not selected gives an empty packet.
Process(message, out) ==
  LET name == LookupName(message.key, subset)
  IN  IF name = None THEN NoPacket
      ELSE [handled |-> TRUE, key |-> message.key,
            net |-> name.net, sta |-> name.sta, cha |-> name.cha, loc |-> name.loc,
            time |-> message.time, samples |-> OwnSamples(out),
            x0 |-> Head(out), xn |-> Last(out), significant |-> TRUE]

-----------------------------------------------------------------------------
(* Trimming                                                                *)

\* (int) (x + 0.5) for x half samples.
Rounded(halves) == (halves + 1) \div 2

RemovedFirst(first, last, n) ==
  IF last < window.start \/ first > window.end THEN n
  ELSE IF first <= window.start /\ window.start <= last THEN Rounded(window.start - first)
  ELSE 0

RemovedLast(first, last) ==
  IF first <= window.end /\ window.end <= last THEN Rounded(last - window.end) ELSE 0

\* nmxp_data_trim() with exclude_bitmap 0, as main() calls it.
Trimmed(p) ==
  LET n == Len(p.samples)
      first == 2 * p.time
      last == first + 2 * n
      rf == RemovedFirst(first, last, n)
      rl == RemovedLast(first, last)
      left == n - (rf + rl)
  IN  IF left < 0 \/ rf + rl = 0 THEN p
      ELSE IF left = 0 THEN [p EXCEPT !.samples = <<>>, !.x0 = -1, !.xn = -1]
      ELSE [p EXCEPT !.samples = SubSeq(@, rf + 1, rf + left), !.time = @ + rf,
                     !.x0 = IF rf > 0 THEN p.samples[rf + 1] ELSE @,
                     !.xn = IF rl > 0 THEN p.samples[n - rl + 1] ELSE @]

-----------------------------------------------------------------------------
(* The flows of main()                                                     *)

\* In the DAP flow the packet of a channel that was not asked for is left out, and
\* so is one without samples.  The PDS flow gives any packet to its next part.
Handled(p) ==
  mode = "dap" => p.samples # <<>> /\ LookupKeyIndex(p.key, subset) = req

\* NaqsServer sends what was requested; whatever the DataServer sends is taken.
Keys == IF mode = "dap" THEN {channels[i].key : i \in DOMAIN channels}
                        ELSE {subset[i].key : i \in DOMAIN subset}

Receive ==
  /\ pc = "receive"
  /\ \E key \in Keys : \E at \in Starting(key) :
     \E n \in FieldCounts, least \in 1 .. 3, padded, partial \in BOOLEAN :
       LET e == Encoded(Wave(key), at, n, least)
           message == Compressed(key, at, e.fields, padded, partial)
           u == UnpackAll(Signed(message.x0, X0Size), message.bundles, message.partial)
           p == Process(message, u.out)
           exits == p # NoPacket /\ u.exit
           t == IF mode = "dap" /\ p # NoPacket THEN Trimmed(p) ELSE p
       IN  /\ sent' = SentPacket(key, at, e.off, Len(message.bundles), partial /\ ~padded)
           /\ pd' = IF ~exits /\ Handled(t) THEN t ELSE NoPacket
           /\ pc' = IF exits THEN "exit" ELSE "handled"
  /\ UNCHANGED <<mode, server, patterns, idx, lists, matching, printed, window, req>>

\* Short-term completion: NaqsServer sends the samples themselves.
ReceiveDecompressed ==
  /\ pc = "receive" /\ mode = "pds"
  /\ \E key \in Keys : \E at \in Starts : \E n \in 1 .. MaxSamples :
       LET name == LookupName(key, subset)
           samples == SubSeq(Wave(key), at, at + n - 1)
       IN  /\ at + n - 1 <= Len(Wave(key))
           /\ sent' = SentPacket(key, at, n, 0, FALSE)
           /\ pd' = [handled |-> TRUE, key |-> key,
                     net |-> name.net, sta |-> name.sta, cha |-> name.cha, loc |-> name.loc,
                     time |-> at, samples |-> samples, x0 |-> -1, xn |-> -1, significant |-> FALSE]
  /\ pc' = "handled"
  /\ UNCHANGED <<mode, server, patterns, idx, lists, matching, printed, window, req>>

\* A filler packet: the program ends.
ReceiveFiller ==
  /\ pc = "receive"
  /\ pc' = "exit"
  /\ sent' = Filler
  /\ UNCHANGED <<mode, server, patterns, idx, lists, matching, printed, window, req, pd>>

\* The next message; in the DAP flow READY may come first, and the next request.
Release ==
  /\ pc = "handled"
  /\ pd' = NoPacket /\ sent' = NothingSent
  /\ \/ pc' = "receive" /\ UNCHANGED req
     \/ /\ mode = "dap"
        /\ req' = req + 1
        /\ pc' = IF req' <= Len(subset) THEN "receive" ELSE "exit"
  /\ UNCHANGED <<mode, server, patterns, idx, lists, matching, printed, window>>

Init ==
  /\ ChanInit
  /\ window \in (IF mode = "dap" THEN Windows ELSE {[start |-> 0, end |-> 2]})
  /\ req = 1
  /\ sent = NothingSent /\ pd = NoPacket

Next ==
  \/ ChanNext /\ UNCHANGED <<window, req, sent, pd>>
  \/ Receive \/ ReceiveDecompressed \/ ReceiveFiller \/ Release

Spec == Init /\ [][Next]_vars

-----------------------------------------------------------------------------
(* Properties                                                              *)

\* The samples of a packet that main() should handle: a sample belongs to a window
\* if the middle of its period does.
Wanted(t) == mode = "dap" => window.start < 2 * t + 1 /\ 2 * t + 1 < window.end

AllTimes(s) == s.time .. s.time + s.size - 1
Times(s) == {t \in AllTimes(s) : Wanted(t)}

\* A saved time may lie behind the end of the window.
EmptyWindow == mode = "dap" /\ window.end <= window.start

\* nmxp_processCompressedData() and nmxp_data_trim(): what is handled of a packet
\* in the DAP flow, and in the PDS flow what main() gets before it cuts at a saved
\* time, are the samples that the instrument recorded, in the DAP flow in the window
\* of the request, all of them, each at its time, under the name of their channel,
\* with the values before and after the cut where chanseq_gap() and the outputs look
\* for them.  When the start of the window is not before its end, nmxp_data_trim()
\* may fail; then the whole packet is handled.
PacketRight ==
  pc = "handled" =>
    IF ~pd.handled
      THEN mode = "dap" /\ (Times(sent) = {} \/ subset[req].key # sent.key)
      ELSE LET wave == Wave(sent.key)
               last == pd.time + Len(pd.samples)
           IN  /\ pd.key = sent.key
               /\ \/ pd.time .. last - 1 = Times(sent)
                  \/ EmptyWindow /\ pd.time .. last - 1 = AllTimes(sent)
               /\ pd.samples = SubSeq(wave, pd.time, last - 1)
               /\ pd.significant => pd.x0 = wave[pd.time] /\ pd.xn = wave[last]
               /\ \E i \in DOMAIN subset :
                    subset[i] = [key |-> pd.key, net |-> pd.net, sta |-> pd.sta,
                                 cha |-> pd.cha, loc |-> pd.loc]

\* nmxp_processCompressedData(): a packet ends the program only if its bundles
\* could hold more than MAX_OUTDATA values, if they are followed by a part of a
\* bundle and none of them is a null bundle, or if it is a filler packet, which
\* the comment in nmxp_base.c:633 would have discarded.
EndsOnlyIfUnreadable ==
  pc = "exit" /\ sent # NothingSent =>
    \/ sent = Filler
    \/ sent.bundles * 4 * Fields + 1 > MaxOut
    \/ sent.cutoff
=============================================================================
