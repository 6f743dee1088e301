------------------------------- MODULE Channels --------------------------------
(***************************************************************************)
(* The lists of channels: what the servers have (nmxp_chan_getType(),      *)
(* nmxp_meta_chan_add() and the functions that fill it in), what the       *)
(* option -C selects (nmxp_chan_match(), nmxp_chan_subset()), and what the *)
(* options -l and -L print.                                                *)
(*                                                                         *)
(* A code is a sequence of letters, and a letter a number in the order of  *)
(* strcmp(): lower case is 10 more.  A server's name is a station and a    *)
(* channel code, the latter empty if the name has no period; a pattern is  *)
(* the sequence of what its periods separate.                              *)
(***************************************************************************)
EXTENDS Integers, SequencesExt

CONSTANTS
  ServerLists,    \* the lists a server may have
  PatternLists,   \* the arguments of -C
  DefaultNet,     \* CURRENT_NETWORK
  DefaultLoc      \* CURRENT_LOCATION

Code == Seq(Int)
Name == [sta : Code, cha : Code]
ServerChannel == [key : Nat, type : Int, name : Name]

\* A key names one channel of the server.
ASSUME ServersAssumption ==
  \A list \in ServerLists :
    /\ list \in Seq(ServerChannel)
    /\ \A i, j \in 1 .. Len(list) : list[i].key = list[j].key => i = j
ASSUME PatternsAssumption == \A list \in PatternLists : list \in Seq(Seq(Code))

VARIABLES
  mode,      \* "pds", "dap", "naqslist" (-L) or "list" (-l)
  server,    \* what the server has: keys, types and names
  patterns,  \* params.channels, split at the commas
  pc,
  channels,  \* channelList
  meta,      \* chan_list of nmxp_getMetaChannelList()
  idx,       \* the index of the loop over channels that runs
  pat,       \* the pattern of nmxp_chan_subset()
  ret,       \* ret_match
  subset,    \* channelList_subset
  printed    \* the keys printed

lists == <<channels, meta>>
matching == <<pat, ret, subset>>
chanVars == <<mode, server, patterns, pc, idx, lists, matching, printed>>

TimeSeries == 1       \* NMXP_DATA_TIMESERIES
Wildcard == 0         \* "*" in a station, "?" in a channel
Star == <<Wildcard>>
NoCode == <<>>
NoPattern == <<>>     \* nothing between two commas
Period == -1          \* comes before all letters

-----------------------------------------------------------------------------
(* Names and patterns                                                      *)

\* strcasecmp() of two codes.
SameFolded(x, y) == Len(x) = Len(y) /\ \A i \in DOMAIN x : x[i] % 10 = y[i] % 10

\* strcmp() of two names.
Before(a, b) ==
  LET x == a.sta \o <<Period>> \o a.cha
      y == b.sta \o <<Period>> \o b.cha
  IN  \E i \in 1 .. Len(y) :
        /\ i <= Len(x) + 1
        /\ \A j \in 1 .. (i - 1) : x[j] = y[j]
        /\ i > Len(x) \/ x[i] < y[i]

\* nmxp_chan_cpy_sta_chan(): which part is which, from the number of parts and
\* their lengths; three parts of other lengths leave all codes empty.
Split(parts) ==
  LET Codes(net, sta, cha, loc) == [net |-> net, sta |-> sta, cha |-> cha, loc |-> loc]
  IN  CASE Len(parts) = 4 -> Codes(parts[1], parts[2], parts[3], parts[4])
        [] Len(parts) = 3 /\ Len(parts[2]) = 3 /\ Len(parts[3]) = 2 ->
             Codes(NoCode, parts[1], parts[2], parts[3])
        [] Len(parts) = 3 /\ Len(parts[1]) = 2 /\ Len(parts[3]) = 3 ->
             Codes(parts[1], parts[2], parts[3], NoCode)
        [] Len(parts) = 2 -> Codes(NoCode, parts[1], parts[2], NoCode)
        [] OTHER -> Codes(NoCode, NoCode, NoCode, NoCode)

ValidPattern(parts) ==
  LET p == Split(parts)
  IN  /\ p.sta = Star \/ Wildcard \notin ToSet(p.sta)
      /\ Wildcard \notin ToSet(p.net \o p.loc)
      /\ Len(p.cha) = 3
ValidName(n) == Len(n.cha) = 3

\* nmxp_chan_match(): 1 match, 0 no match, -1 and -2 errors.
Match(name, parts) ==
  LET p == Split(parts)
  IN  IF ~ValidPattern(parts) THEN -1
      ELSE IF name.cha = NoCode THEN -2
      ELSE IF ~ValidName(name) THEN -1
      ELSE IF /\ p.sta = Star \/ SameFolded(p.sta, name.sta)
              /\ \A i \in 1 .. 3 : p.cha[i] \in {Wildcard, name.cha[i]} THEN 1
      ELSE 0

-----------------------------------------------------------------------------
(* The lists                                                               *)

\* nmxp_chan_sortByName(): the results qsort() may produce.
SortByName(list) ==
  {q \in {[i \in DOMAIN list |-> list[p[i]]] : p \in Bijection(DOMAIN list, DOMAIN list)} :
     \A i, j \in DOMAIN q : i < j => ~Before(q[j].name, q[i].name)}

AlwaysBehindFirst(item, first) == FALSE             \* mutant: no new head of the list
NewHead(item, first) == Before(item.name, first.name)

\* nmxp_meta_chan_add(): behind the first item and those that follow and are smaller.
Add(list, item) ==
  LET Passed == {i \in 1 .. Len(list) :
                   /\ ~NewHead(item, list[1])
                   /\ \A j \in 2 .. i : Before(list[j].name, item.name)}
  IN  InsertAt(list, Cardinality(Passed) + 1, item)

\* nmxp_meta_chan_search_key(): the first item with the key, if there is one.
SearchKey(list, key) ==
  {i \in DOMAIN list : list[i].key = key /\ \A j \in 1 .. (i - 1) : list[j].key # key}
SetTimes(list, key, times) ==
  [i \in DOMAIN list |-> IF i \in SearchKey(list, key) THEN [list[i] EXCEPT !.times = times] ELSE list[i]]
SetNetwork(list, key, network) ==
  [i \in DOMAIN list |-> IF i \in SearchKey(list, key) THEN [list[i] EXCEPT !.network = network] ELSE list[i]]

\* nmxp_chan_lookupName(): the last channel with the key.
None == [key |-> -1]
LookupName(key, list) ==
  LET Having == {i \in DOMAIN list : list[i].key = key}
  IN  IF Having = {} THEN None ELSE list[CHOOSE i \in Having : \A j \in Having : j <= i]

\* nmxp_chan_lookupKeyIndex(): the first one.
LookupKeyIndex(key, list) ==
  LET Having == {i \in DOMAIN list : list[i].key = key}
  IN  IF Having = {} THEN -1 ELSE CHOOSE i \in Having : \A j \in Having : i <= j

-----------------------------------------------------------------------------
(* What a server has                                                       *)

IsSeries(c) == c.type = TimeSeries

\* nmxp_getAvailableChannelList(): the loop of nmxp_chan_getType(), and the sort.
GetType ==
  /\ pc = "start" /\ mode \in {"pds", "naqslist"}
  /\ idx <= Len(server)
  /\ channels' = IF IsSeries(server[idx]) THEN Append(channels, server[idx]) ELSE channels
  /\ idx' = idx + 1
  /\ UNCHANGED <<mode, server, patterns, pc, meta, matching, printed>>

FromNaqs ==
  /\ pc = "start" /\ mode \in {"pds", "naqslist"}
  /\ idx > Len(server)
  /\ channels' \in SortByName(channels)
  /\ pc' = IF mode = "pds" THEN "subset" ELSE "print"
  /\ idx' = 1
  /\ UNCHANGED <<mode, server, patterns, meta, matching, printed>>

\* nmxp_getMetaChannelList(): the list itself is passed on as it came.
Item(c) == [key |-> c.key, name |-> c.name, times |-> 0, network |-> 0]

AddItem ==
  /\ pc = "start" /\ mode \in {"dap", "list"}
  /\ idx <= Len(server)
  /\ meta' = IF IsSeries(server[idx]) THEN Add(meta, Item(server[idx])) ELSE meta
  /\ idx' = idx + 1
  /\ UNCHANGED <<mode, server, patterns, pc, channels, matching, printed>>

FromDataServer ==
  /\ pc = "start" /\ mode \in {"dap", "list"}
  /\ idx > Len(server)
  /\ channels' = server
  /\ pc' = "precis"
  /\ idx' = 1
  /\ UNCHANGED <<mode, server, patterns, meta, matching, printed>>

\* The precis list: times of the time series.  The times and the network of a
\* channel are named by its key.
Precis ==
  /\ pc = "precis"
  /\ idx <= Len(server)
  /\ meta' = IF IsSeries(server[idx]) THEN SetTimes(meta, server[idx].key, server[idx].key) ELSE meta
  /\ idx' = idx + 1
  /\ UNCHANGED <<mode, server, patterns, pc, channels, matching, printed>>

PrecisEnd ==
  /\ pc = "precis"
  /\ idx > Len(server)
  /\ pc' = "info" /\ idx' = 1
  /\ UNCHANGED <<mode, server, patterns, lists, matching, printed>>

\* getChannelNumberFromKey() = 0.
FirstOfInstrument(key) == key % 10 = 0

\* -i: the network, asked for the first channel of each instrument.
Info ==
  /\ pc = "info"
  /\ idx <= Len(meta)
  /\ LET key == meta[idx].key
     IN  meta' = IF FirstOfInstrument(key) THEN SetNetwork(meta, key, key) ELSE meta
  /\ idx' = idx + 1
  /\ UNCHANGED <<mode, server, patterns, pc, channels, matching, printed>>

\* At once without -i.
InfoEnd ==
  /\ pc = "info"
  /\ idx = 1 \/ idx > Len(meta)
  /\ pc' = IF mode = "list" THEN "print" ELSE "subset"
  /\ idx' = 1
  /\ UNCHANGED <<mode, server, patterns, lists, matching, printed>>

-----------------------------------------------------------------------------
(* Selection                                                               *)

\* The patterns that are looked at: an empty one ends them.
Used == {i \in DOMAIN patterns : \A j \in 1 .. i : patterns[j] # NoPattern}

\* NET.STA.CHAN.LOC, where the pattern or the default gives NET and LOC.
Named(c, parts) ==
  LET p == Split(parts)
  IN  [key |-> c.key, sta |-> c.name.sta, cha |-> c.name.cha,
       net |-> IF p.net # NoCode THEN p.net ELSE DefaultNet,
       loc |-> IF p.loc # NoCode THEN p.loc ELSE DefaultLoc]

EvenTwice(c) == c.type = TimeSeries                   \* mutant: no look at what is there
IsNew(c) == c.type = TimeSeries /\ LookupName(c.key, subset) = None

\* The inner loop of nmxp_chan_subset().
MatchOne ==
  /\ pc = "subset" /\ pat \in Used
  /\ idx <= Len(channels) /\ ret # -1
  /\ ret' = Match(channels[idx].name, patterns[pat])
  /\ subset' = IF ret' = 1 /\ IsNew(channels[idx])
                 THEN Append(subset, Named(channels[idx], patterns[pat])) ELSE subset
  /\ idx' = idx + 1
  /\ UNCHANGED <<mode, server, patterns, pc, lists, pat, printed>>

NextPattern ==
  /\ pc = "subset" /\ pat \in Used
  /\ idx > Len(channels) \/ ret = -1
  /\ pat' = pat + 1 /\ idx' = 1 /\ ret' = 1
  /\ UNCHANGED <<mode, server, patterns, pc, lists, subset, printed>>

\* Without a channel the program ends.
Selected ==
  /\ pc = "subset" /\ pat \notin Used
  /\ pc' = IF subset = <<>> THEN "exit" ELSE "receive"
  /\ UNCHANGED <<mode, server, patterns, idx, lists, matching, printed>>

\* The functions ..._print_with_match(): a channel is tried against one pattern
\* after the other until a result is not 0.
Prints(name) ==
  \E i \in Used :
    /\ Match(name, patterns[i]) = 1
    /\ \A j \in 1 .. (i - 1) : Match(name, patterns[j]) = 0

ListToPrint == IF mode = "list" THEN meta ELSE channels

PrintOne ==
  /\ pc = "print"
  /\ idx <= Len(ListToPrint)
  /\ printed' = IF Prints(ListToPrint[idx].name) THEN Append(printed, ListToPrint[idx].key) ELSE printed
  /\ idx' = idx + 1
  /\ UNCHANGED <<mode, server, patterns, pc, lists, matching>>

PrintEnd ==
  /\ pc = "print"
  /\ idx > Len(ListToPrint)
  /\ pc' = "exit"
  /\ UNCHANGED <<mode, server, patterns, idx, lists, matching, printed>>

ChanInit ==
  /\ mode \in {"pds", "dap", "naqslist", "list"}
  /\ server \in ServerLists /\ patterns \in PatternLists
  /\ pc = "start" /\ idx = 1
  /\ channels = <<>> /\ meta = <<>>
  /\ pat = 1 /\ ret = 1 /\ subset = <<>>
  /\ printed = <<>>

ChanNext ==
  \/ GetType \/ FromNaqs
  \/ AddItem \/ FromDataServer \/ Precis \/ PrecisEnd \/ Info \/ InfoEnd
  \/ MatchOne \/ NextPattern \/ Selected
  \/ PrintOne \/ PrintEnd

-----------------------------------------------------------------------------
(* Properties                                                              *)

\* The time series of the server, and what each is selected by: the first pattern it
\* matches.
Series == {c \in ToSet(server) : IsSeries(c)}
FirstMatch(c) ==
  {p \in Used : /\ Match(c.name, patterns[p]) = 1
                /\ \A q \in 1 .. (p - 1) : Match(c.name, patterns[q]) # 1}

WellFormed ==
  /\ \A i \in DOMAIN server : server[i].name.cha = NoCode \/ ValidName(server[i].name)
  /\ \A i \in Used : ValidPattern(patterns[i])

\* nmxp_chan_subset(): whatever the names and patterns are, every channel selected
\* is a time series of the server, is there once, and has the network and the
\* location of the first pattern that it matches; and with well-formed names and
\* patterns no time series that matches is left out, nor printed by -l and -L
\* unless it is selected too.
SelectedOnce == \A i, j \in DOMAIN subset : subset[i].key = subset[j].key => i = j
SelectedByFirst ==
  \A i \in DOMAIN subset : \E c \in Series : \E p \in FirstMatch(c) : subset[i] = Named(c, patterns[p])
NoneLeftOut ==
  WellFormed /\ pc \in {"receive", "handled"} =>
    \A c \in Series : FirstMatch(c) # {} => \E i \in DOMAIN subset : subset[i].key = c.key
PrintedAreSelected ==
  WellFormed /\ pc = "exit" /\ mode \in {"list", "naqslist"} =>
    ToSet(printed) = {c.key : c \in {d \in Series : FirstMatch(d) # {}}}

SelectionRight == SelectedOnce /\ SelectedByFirst /\ NoneLeftOut /\ PrintedAreSelected

\* nmxp_meta_chan_add() and the setters: the list has every time series of the
\* server once, in the order of the names, and no channel has another one's times
\* or network.
MetaInOrder ==
  pc # "start" /\ mode \in {"dap", "list"} =>
    /\ {item.key : item \in ToSet(meta)} = {c.key : c \in Series}
    /\ \A i, j \in DOMAIN meta : i < j => /\ meta[i].key # meta[j].key
                                        /\ ~Before(meta[j].name, meta[i].name)
    /\ \A item \in ToSet(meta) : /\ item.times \in {0, item.key}
                                 /\ pc # "precis" => item.times = item.key
                                 /\ item.network \in {0, item.key}
                                 /\ item.network # 0 => FirstOfInstrument(item.key)
=============================================================================
