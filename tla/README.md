# A TLA+ model of nmxptool

nmxptool retrieves seismic data from Nanometrics servers: from NaqsServer, in
near real time, with the Private Data Stream (PDS) protocol, and from
DataServer, for the past, with the Data Access Protocol (DAP). What it receives
goes to output functions: Mini-SEED files, SeedLink, Earthworm, a listening
socket, or the terminal. These modules model the parts of it in which order,
time, restarts and threads matter. Paths below are those of the repository:
`lib/`, `src/` and `include/` are `src/lib/`, `src/src/` and `src/include/` in
`PROJECT.json`.

## 1. Inventory

| component | code | state it keeps | operations |
|---|---|---|---|
| raw stream buffer | `lib/nmxp.c:729-1076` | per channel: a sorted array of at most `max_pdlist_items` packets, `last_seq_no_sent`, `last_sample_time` | init, manage (with a packet or NULL), free |
| connection and request thread | `src/nmxptool.c`, `src/nmxptool_sigcondition.c`, `lib/nmxp.c:96-222` | the socket, the channel list and sequence, `sigcondition`, `flag_force_close_connection`, two mutexes, a static group index | main's three nested loops, the detached thread that requests channels, four signal handlers |
| channel sequence and state file | `src/nmxptool_chanseq.c` | per channel: `last_time`, `after_start_time`, `last_time_call_raw_stream`, `x_1`; a line in a file | init, free, gap, save, load |
| DAP flow | `src/nmxptool.c:476-823` | `params.start_time`, `params.end_time`, the channel being requested | request a channel, receive until Ready, keep alive |
| sessions with a server | `lib/nmxp.c:225-727`, `src/nmxptool.c:476-823` | what of the answers has been read, the list being filled in | open, log in, wait for READY, request, receive, keep alive |
| message framing and sockets | `lib/nmxp_base.c` | what of the byte stream has been read | open, receive header and body with a time-out, send |
| packet decoding and trimming | `lib/nmxp.c`, `lib/nmxp_data.c` | none | unpack bundles, decompressed packets, trim to an interval |
| Mini-SEED files | `lib/nmxp_data.c:813-1192` | a ring of open files, one record buffer per channel | open, pack, write, close all |
| channel lists | `lib/nmxp_chan.c` | lists of channels, a linked list of meta channels | match, subset, look up, add |
| listen server, log lists | `src/nmxptool_listen.c`, `lib/nmxp_log.c` | a table of client sockets, lists of log functions | accept, command, send to all, remove |
| Earthworm, SeedLink, options, CRC, memory | `src/nmxptool_ew.c`, `src/seedlink_plugin.c`, `src/nmxptool_getoptlong.c`, ... | - | output, parsing, tables |

How they interact. `main()` owns everything but the request thread, the
listening threads and the signal handlers. Per connection it makes a channel list
and a channel sequence, loads the state file, runs the DAP flow and then the PDS
flow (or one of them), saves the state file and frees all. In the PDS flow a
packet goes from the framing through decoding, trimming and the raw stream
buffer to the output functions; NULL goes to the buffer when a channel is silent
for `--timeoutrecv` seconds and when the connection ends. The request thread
uses the socket and the list that main closes and frees. The handlers read or set
globals: `sigcondition` under a mutex, `flag_force_close_connection` without one.

What is hard, and what makes each component correct:

- *raw stream buffer*: packets late, twice and in any order, a full buffer, time-outs
  that give a gap up while its packet is on its way. The output must stay in
  order, without loss and without repetition as long as no gap is given up; the
  array must neither overflow nor keep a pointer to a freed packet.
- *connection*: the request thread of one connection and the end of that
  connection, the request thread of the last one and the static index it shares,
  a signal at every point. All channels must be requested, on the right
  connection, and a signal must end the process.
- *channel sequence, state file, DAP flow*: crashes before, in and after a save, a
  failed save, failed requests, two columns of times for two kinds of flow. No
  sample may be missed that a server still has, and none handled twice that was.
- *framing*: the stream comes in any pieces, a time-out falls inside a message, a
  message is too long, the server goes silent. Whatever is lost, no packet may be
  made of the bytes of two messages, and silence must end the connection.
- *sessions with a server*: no message says which request it answers. Until a read
  fails (it times out, or a signal interrupts `recv()`) requests and answers must
  stay in step, each failed read may leave at most one answer more unread, and every
  conversation must end, whatever the server does.
- *decoding, trimming, channel lists*: pure functions with boundaries: widths of
  differences, the sample that belongs to the next packet, rounding at both ends
  of a window, patterns that overlap.
- *Mini-SEED files*: the ring at its limit, a file or a directory that cannot be
  opened, gaps. No sample may go to another file, or be lost with a file that is
  not its own.
- *listen server*: a client that leaves, or stops reading, while the main thread
  prints to it; descriptors that are used again; the log that goes to a client.

`PROJECT.json` lists the hazards line by line.

## 2. Modules

| module | stands for | how |
|---|---|---|
| `RawStream` | the buffer of one channel | one action is one call of `nmxp_raw_stream_manage()` with what its caller does around it; a packet is its sequence number |
| `RawStreamSteps` | the same, loop by loop | the pointer array, the heap, the force, compact, sort, handle and shift steps; implements `RawStream` |
| `Connection` | main, request threads, signal handlers | one action is what a thread does between two points where another could interfere; each `nmxptool_sigcondition_read()` is two steps |
| `Continuity` | main's outer loops, DAP and PDS flow with a state file | one channel, time in samples, packets of a fixed length on two servers, crashes and restarts |
| `Framing` | the receiving loop around `nmxp_receiveMessage()` and `nmxp_recv_ctrl()` | the stream is a sequence of bytes; one action is one `recv()` that returns, times out or fails |
| `LossyFifo` | | abstract: what the receiving side promises, which `Framing` implements |
| `Session` | `nmxp_getMetaChannelList()`, the DAP flow over channels and periods, `nmxp_getAvailableChannelList()` | one action is one message sent or received |
| `Listen` | the listening thread, client threads, main's printing and the lists of `nmxp_log()` | one action is a step between two points where another thread could interfere: a `send()` is one, each read of `cur_fd` and the passing of its value are others |
| `SeedFiles` | `nmxp_data_msr_pack()`, `nmxp_data_seed_fopen()` and `_fclose_all()` | one action is a packet that is appended, a record that is packed and written, or the end of a connection |
| `Channels` | `lib/nmxp_chan.c`: names, patterns, lists, look-ups | operators for the pure functions; one action is one round of a loop over a list: a channel that is added, filled in, matched or printed |
| `Packets` | decoding and trimming of packets, on the channels that `Channels` selected | one action is one message that main receives |
| `RawStreamProofs`, `RawStreamStepsProofs`, `ConnectionProofs`, `ContinuityProofs`, `FramingProofs`, `SessionProofs` | | the theorems of section 4, each module about the one it is named after |
| `PacketsProofs` | | those about `Packets` and the module it extends, `Channels` |
| `OutputProofs` | | those about the two modules that receive what is handled, `SeedFiles` and `Listen` |
| `MCFraming`, `MCSession`, `MCPackets` | | the values of the constants that a configuration cannot write |
| `MCRawStreamSteps` | | `RawStreamSteps` with its proofs, so that TLC evaluates the assumptions they use of `RawStreamProofs` |

Abstract and detailed. `RawStream` is the abstract specification of the buffer and
`RawStreamSteps` the detailed one: `ImplementsRawStream` instantiates the first
in the second. Between the start and the return of a call the mapping shows the
state of the last return (the variable `before`), so a call is many stutters and
one step. `LossyFifo` says in two actions what a caller of the framing may rely
on: messages come whole, in order, none twice, some perhaps never.
`ImplementsLossyFifo` maps what was sent after the last packet handed on, each
message with its number, to the set `outstanding`; reading out of step, time-outs and refused messages are stutters, until a
later packet skips what was lost.

Composition. `Packets` extends `Channels`: the packets that are decoded carry the
names that the selection gave their keys, and a packet of a key that was not
selected takes the path of the code for it. `Session` counts in messages where
`Framing` counts in bytes: a read that succeeds in step takes one whole message, and
one that fails may end inside of a message, whose rest the next reads take for
headers. It assumes what `Framing` assumes too, that the bytes of a body are never the
signature.

The names are those of the code. In `RawStream`, `last`, `lastTime` and `pdlist`
are `last_seq_no_sent`, `last_sample_time` and `pdlist[0 .. n_pdlist-1]`;
`qsort()` may return any sorted permutation, in `RawStreamSteps` of the pointers in
the first `n_pdlist` places (its contract, not its algorithm), and `malloc()` any
address that is not in use; whether the first packet is later
than `max_tolerable_latency` is chosen freely at each call, as the clock would.
In `Connection`, socket, list and thread of the c-th connection are c, and 0 is
a closed socket or NULL; a descriptor that a late thread still holds may be
that of the next connection (`Reaches`). In `Continuity`, `done` records each
handled sample with the time it was labelled with, because trimming can change
one without the other; `fellOut` records what NaqsServer no longer had when it
was asked, `unsaved` that the program was killed or could not save. `--buffdate`
asks for less than is missing, so the two properties about completeness speak of
runs without it; the run has both. In
`Framing`, only the beginning of a message can be taken for a signature, and every
`recv()` may bring a single byte; `quiet` is the time since `lasttime_pds_receiveddata`. In `Session`
`answers` are the messages on their way, each with the request it answers, which
the client does not see, `rest` is how many reads of a header it takes to pass over
what a failed read has left of a message, and `failures` counts those reads; an answer
that is copied into the structure of another request, or the middle of a message that
is taken for one, gives the value "wrong" to any of the channels. In `Listen`, `table` is
the arrays `ds` up to `occ`, `curFd` stands for `cur_fd` together with the entry in
the log lists, `out` is the descriptor each thread has passed to
`nmxptool_send_ctrl()`, `raws` are the clients that gave `raw` or `params`, and a failed `send()` makes the thread that called it leave through
`remove` and `close`, as `nmxptool_send_ctrl()` does. In `SeedFiles`, `slots`
pairs `filename_mseed` and `outfile_mseed`, and `records` notes the file each
record was written to, with `upTo`, the number of samples of the channel that were
packed by then. In `Channels` a code is a sequence of letters with upper
and lower case, `idx` is the counter of whichever loop over channels runs, and `pat`
and `ret` are the pattern and `ret_match` of `nmxp_chan_subset()`; the type of a channel
is a field of its own, where the code takes it out of the key. The messages a
DataServer's lists come in are read in the order of its channels. In `Packets` a byte has
`ByteValues` values, and a series of samples is encoded by the model as an
instrument would, with any kind of field that fits.

Left out of `Connection`: the state file and therefore the second turn of the
times_flow loop (they are in `Continuity`), and connections beyond the bound,
which the server refuses. Left out of `Continuity`: threads and reordering (the
other modules), several channels, `--delay`, `--timeoutrecv` above 0 (with it
main does not trim), and times between two samples. Left out of `Framing`: the
variant with `select()` for systems where SO_RCVTIMEO is broken. Left out of
`SeedFiles`: failures of `fwrite()` and `msr_pack()`. Left out of `Packets`: byte
order, and in the PDS flow what main cuts off at a saved time, which `Continuity` has
(in the PDS flow `PacketRight` is about the packet as main gets it). Time in half
samples loses nothing: between two of them what `nmxp_data_trim()` rounds stays the
same. Left out of `Channels`: printing without `-C`. Signals and ticks of the clock
happen where the program reads them; at other places they would commute with the next
step. That is not so in `recv()`, which a signal interrupts: in `Session` any read may
fail so, also inside of a message.

## 3. Runs

Every bound is a CONSTANT of the module, named in its comment.

| run | bounds | what it shows |
|---|---|---|
| `RawStream` | 5 numbers, 2 copies each, buffer of 3, time-out 0 or 1 | type, order, bound, no loss before a gap is given up, a packet twice only after a forced NULL call, the saved time is the end of the last packet, a silent channel's packets are handled |
| `MCRawStreamSteps` | 4 numbers, otherwise the same | the heap holds the buffer and nothing else, no slot in use points to freed memory, every call is a step of `RawStream` |
| `Connection` | 2 connections, 2 groups of channels, 1 signal of any kind to any thread | a thread that got the mutex in time never outlives its connection, requests go in order, exit and forced close do end, all channels are requested |
| `Continuity` | packets of 2 samples, NaqsServer keeps 3 s, DAP off or 3 s, start at 4, end at 9, with and without Raw Stream | no sample missed, each DAP request goes back far enough, none handled twice |
| `MCFraming` | 3 messages of 4 kinds (data of 1 or 2 bytes, others of 0 or 3), header of 3 bytes, buffer of 2, `-T` 0, 1 or 5, highest time-out 2, watchdog 4 | nothing lost before a message is left unfinished, packets are messages and in order, how long a silent connection is kept, and that it ends |
| `MCSession` | 3 channels, 2 of them asked for their network, 1 packet for a request, 2 periods, any number of failed reads, up to 2 reads of a header in what is left of a message, 2 messages before READY | requests and answers in step until a read fails, after that at most one answer unread for each failed read, an undisturbed conversation is complete, every conversation ends |
| `Listen` | 2 clients that give `print`, `raw` or `exit` | the table holds the clients' descriptors, clients that only come and go do not end the thread that receives data, the log goes to who asked for it, also a line that is late, main is held up for ever only by a client that stops reading |
| `SeedFiles` | 2 channels, ring of 2, records of up to 2 samples, days of 2 samples, packets of 1 or 2 samples, 5 samples in all | records in the right file and without gaps, samples kept in order and once, a refused file takes only its own records, the ring in order |
| `MCPackets` | 4 lists of 3 or 4 channels, 5 arguments of `-C`, 4 ways of running; bytes of 4 values (`ByteValues`), buffer of 33 values, 2 waves, packets of 0, 3, 6 or 12 fields from 2 starts, with a null bundle or a part of a bundle at the end, 5 windows | selection by the first pattern, the list of a DataServer in order, the samples that are handled are those recorded in the window, when a packet ends the program |
| `Connection_TermTerminates`, `_WaitedForRequests` | 1 connection, 1 signal | violated, see 5 |
| `Continuity_SamplesKeepTime` | one mode, packets of 3 samples | violated, see 5 |

Why these bounds. A buffer of 3 can be full with a gap before it, and one
behind its first packet; 5 numbers leave room for a packet before, between and
after what it holds; a second copy of each packet is what makes duplicates. Two
connections are a late thread of the first and the teardown of the second; two
groups are a first request and one that depends on the static index. In its five ticks
`Continuity` makes packets complete before, during and after a
connection, drops some from NaqsServer's memory, and goes through any number of
restarts (the depth of its state graph is 64). In `Framing` a third message is
what is read out of step after the second was left, and may be found again; a
body of 3 is longer than the buffer, one of 0 has no body to wait for; the three
values of `-T` are the default, less than the watchdog and more than it. In `Session`
the third channel is asked after an answer that came late for the second; reads may
fail one after the other, so that several answers are late at once, two reads of a
header in a message's rest are one that is followed by another and one that is the
last, and the server greets with up to one message
more than `nmxp_waitReady()` reads. Two clients of `Listen` are one that leaves and one that gets its
descriptor, with main between them; the
commands left out are answered like `print`, or not at all, and ask for nothing. In `SeedFiles` 2 channels and times 0 to 3
make four files for a ring of two. In `Packets` a difference fits each of the three
kinds of field and no smaller one, the buffer has room for two bundles of any
content, and the windows cut a packet at the beginning, at the end, at both, not
at all, and leave nothing; one is shorter than a sample, one is empty and one ends
before it starts; `MaxOut` 33 is exceeded by packets of 12 fields. In
`Connection` and `Continuity` each signal is counted or absorbed, so the state
space is finite without a state constraint.

Fairness. `RawStream`: only weak fairness of `Timeout`: the PDS loop returns
from its read at the latest after the socket's time-out and then looks at all
channels. `Connection`: weak fairness of each thread (they are scheduled; a read
returns within NMXP_HIGHEST_TIMEOUT) and of main's lock of `mutexsig`; strong
fairness of the lock in the request threads and in the handler, since main
takes and releases the mutex again and again but spends its time without it. A
mutex that starved a waiter for ever would break `ShutdownCompletes`; nothing is
assumed of signals, failures or packets. `Framing`: time passes (`Tick`) and the
main thread runs (`Reader`); the server owes nothing. `Session`: the main thread runs,
and strong fairness of `WakeUp`, since a sleep that keep-alive messages interrupt
has an end; the server owes nothing. `Listen`: weak fairness of the client
threads, strong fairness of main, for the mutex they take again and again; no client
owes a command, or that it reads. `Continuity`, `SeedFiles` and `Packets` state
safety only.

Deadlock is checked in `RawStream`, `MCRawStreamSteps` and `Continuity`. Elsewhere the
model may stop because what it stands for does: the process or the conversation
ends (`Connection`, `Framing`, `Session`, `Packets`), the last client is gone or main
waits for one that stopped reading (`Listen`), or the bound on what is handled is
reached and a directory failed (`SeedFiles`).

Runs list a type invariant where a mistake in the code could break it. The
`TypeOK` of `RawStreamSteps`, `Connection`, `Framing` and `Session` is for the reader and the
proofs.

The definitions commented "mutant" are not part of the model. Each changes one
definition the way a plausible mistake would and breaks one property:
`PROJECT.json` pairs them.

## 4. Proofs

TLAPS proves the following for every value of the constants that the assumptions
of the modules allow; the bounds of section 3 play no part. Every module proves
that an invariant is inductive from a lemma for the initial states and one for the
steps, with one case per action, and the properties from it: `InductiveInvariant`
(`Spec => []IInv`), for `SeedFiles` `SeedInductiveInvariant`, in `PacketsProofs`
`HandlingInductive`.

| module | theorems | property of a run they state |
|---|---|---|
| `RawStreamProofs` | `TypeCorrect`, `BufferAlwaysWaits`, `BufferNeverOverflows`, `InOrder`, `OnceUnlessForcedNull`, `Lossless`, `TimeOfLast` | all safety invariants of `RawStream` |
| `RawStreamStepsProofs` | `HeapHoldsBuffer`, `PointersAreLive`, `CallsAreAtomic`; `TypeCorrect`, `ReturnsAreSafe` | `HeapIsBuffer`, `NoDanglingPointer`, `ImplementsRawStream` |
| `ConnectionProofs` | `NoTeardownUnderRequests`, `InOrderOnce`; `TypeCorrect`, `RequestsExclude` | `RequestsBeforeTeardown`, `RequestsInOrder` |
| `ContinuityProofs` | `TypeCorrect`, `NothingIsSkipped`, `RequestReachesBack`, `HandlesOnce` | `TypeOK`, `DataContinuity`, `DapCoversMissing`, `HandledOnce` |
| `FramingProofs` | `InStepUntilFault`, `SilenceIsBounded`, `RefinesLossyFifo`; `TypeCorrect` | `NothingLostUntilFault`, `SilenceBounded`, `ImplementsLossyFifo` |
| `SessionProofs` | `StaysInStep`, `FallsBehindByFailures`, `Completes`; `TypeCorrect` | `InStep`, `FewUnread`, `Complete` |
| `OutputProofs` | `TableHoldsClients`, `MainIsSafe`, `RawIsForAsker` | `TableIsClients`, `MainSurvives`, `RawGoesToAsker` of `Listen` |
| | `EachRecordInItsFile`, `LossStaysLocal`, `RingStaysInOrder`, `NoSampleLostOrTwice` | `RecordsInPlace`, `LossIsLocal`, `RingInOrder`, `SamplesConserved` of `SeedFiles` |
| `PacketsProofs` | `SelectionIsRight`, `MetaRight` | `SelectionRight`, `MetaInOrder` of `Channels` |
| | `HandledIsRight`, `EndsRight`; `MessageRight`, `TrimmedRight` | `PacketRight`, `EndsOnlyIfUnreadable` of `Packets` |

Theorems after a semicolon state what no run lists.

Assumptions. Numbers, sizes, times and counts are naturals, and those of which the
code has at least one (slots of the buffer and of the ring, connections, groups,
clients, bytes of a header, samples in a packet, a record and a day, packets, periods,
the time-out and the watchdog) are not 0. Beyond that: `KindsAssumption` of `Framing`, no
data message is without a body; `ChannelsAssumption` of `Session` and
`ServersAssumption` of `Channels`, a server's list has no key twice, since a key is
what a server knows a channel by; `BytesAssumption`, half of the values of a
byte are negative; `TimeAssumption` of `Continuity`, the DAP flow does not
ask for times before 0; and `ReachAssumption`, the one that excludes options a user
may give (section 5). The last two concern `Continuity` alone. The limits of a window are any two integers
(`WindowsAssumption`): that it starts before it ends is not assumed.
`PatternsAssumption`, `WavesAssumption` and `GivenAssumption` only say that patterns are
sequences of codes, waves sequences of integers, and what clients give commands.

### The raw stream buffer

The properties are not inductive one by one. The inductive invariant `IInv` adds to them

- `EmptyBeforeFirst`: while `last` is -1 nothing is in the buffer, so "first
  time" does not move `last` back behind a packet that waits;
- `HandledUpToLast`: nothing beyond `last` has been handled, so a handled run
  that starts at `last + 1` extends the order;
- `NewerAreBuffered`: what came and is newer than `last` waits in the buffer,
  whatever was given up, and `HandledAreRun`: until a gap is given up what was
  handled is a run that ends at `last`. Together they are `LosslessUntilGivenUp`.

Order needs `HandledUpToLast`, which needs after a NULL call that the first packet
is beyond what was handled, which is `BufferWaitsForGap`; a forced packet
followed by its own copy is the case that makes `DeliveredInOrder` weak (`<=`) and
`TwiceOnlyByForcedNull` conditional. The proof goes along a call: `HeldFacts`
and `BeforeSort` (what is sorted, and how it relates to `last`), `QSortFacts`
(any result of `qsort` is a sorted permutation), `AfterSort` (what a NULL call
changes), `HandledFacts` (what the loop hands out), `SubSeqFacts` and
`ConcatSorted` about sequences, `ManageStep` for the whole call.

In `RawStreamSteps` the memory is safe because every packet on the heap is at
exactly one place of the array, or is the copy a call has made and not yet put
there (`HeapOK`, `DistinctOK`), and because `PlacesOK` says in every round of
every loop which places are in use: in the loop that shifts, those filled, those
still to be freed and those still to be moved.

`CallsAreAtomic` is the refinement. `RefinementInv` adds to `IInv` how far the call
has come towards the step of `RawStream` that its return will be: `Called` (the call
was one that `RawStream` allows in the state `before`), `AtForce` (the packet is
copied), `AtSort` (the places in use are a permutation of what `RawStream` sorts),
`AtHandle` (the first j packets of a sorted sequence have been looked at) and
`AtShift` (i of the rest have been moved). Each loop has a lemma for its round,
and `ReturnRefines` shows that a return with `RefinementInv` is `Manage`.
`ReturnsAreSafe` then reads the theorems of `RawStreamProofs` as statements about the
array of pointers and the heap: at every return what waits is sorted behind a gap,
what was handled is in order, and until a gap is given up none is lost.

### Connection

`IInv` is `TypeOK`, `RequestsInOrder`, `Control` and `Progress`. `Control` says who is
where: a holder of `mutexsig` is just reading `sigcondition`, exactly the
requesting thread holds `mutex_sendAddTimeSeriesChannel`, a thread is created
once and after its connection, main's socket and lists belong to the current
connection, and main does not pass the wait while a thread that got the mutex in
time requests. `Progress` ties the static index to the thread that is using it:
exactly the groups before the one it counts down to have been requested, and none
by a thread that has not started. That is why the index, which all threads
share, is not disturbed by a late thread: it starts again only under the mutex.

### State file and DAP flow

`ResumesOK` is about every time that is, or may become, the one to resume from: that
of the options, both columns of the file, both times in memory and the one of
the trimming. Up to each of them nothing is missing, to the end of the packet it
lies in (the rest of that packet is trimmed), or the DAP flow can go back to it.
This holds through crashes at any point because a save only replaces one such time
by another. `BufferOK` is the same for the last packet of the Raw Stream and for
the next one to come. `OnceOK` is the converse order: every time to resume from
is later than all samples handled, as long as the state was saved.

### Framing

`StreamOK` describes what has been sent and not been read: bytes of messages in their
order, where only beginnings are missing, and where the end of a message is
followed by the beginning of one. From it follows that a body is read whole
(`BodyNext`) and that nothing of a message remains when it has been handed on
(`HandedOK`), so a packet is one message and later than the last:
`RefinesLossyFifo`, step by step, with reading out of step as stutters. `InStep` is the
stronger property before the first fault. `TimeOK` counts what a message may
take: each byte took one `recv()` at most.

### Sessions

`RequestsOK` splits the list of requests in those sent and those left, and says
that the answer that is read is that to the last one sent; `AnswersOK` that READY is
at the end of an answer and only there, and that nothing is left of one, or of a
message, when the next request goes out, as long as none can be late (`NoneLate`: no
read has failed, or no answer but the first has been asked for); `PacketsOK` and
`ListOK` how much of the data, or of the channel list, has been understood at
each message. `Complete` is their value at the end. `UnreadOK` is what remains when
reads have failed: an answer has one READY (`UnreadAnswer`), so those left unread are
counted by the READYs, of which a message that is read takes at most one
(`UnreadTail`), and while an answer is waited for there is one more than reads have
failed. `FewUnread` follows at the next request.

### Listen server

`InStep` of the proofs adds to `TableIsClients` the clients that are removed and not
closed, who holds `mutex_occ`, and that what main is about to send to is still in the
table; it ends, as the property does, when a failed `send()` has ended the wrong
thread (`astray`). Three invariants say what cannot fail: `NothingAsked`, that main
sends nothing before a client asks for something; `NoRaw`, that without `raw` or
`params` nobody sends what is logged, so that main sends packets only, to the table;
and `Undisturbed`, that such a `send()` does not fail either unless its client has gone
away. `MainSurvives` joins them. `RawOK` follows the descriptors while nobody has
left: none is closed, so only a `send()` to descriptor 0 fails, and the client that is
obeyed never passes 0, because `cur_fd` is its own until it gives `mutex_cur_fd` back;
what another thread has read of `cur_fd` is 0 or a client's that gave `raw` or
`params`, at the time of the `send()` too.

### Mini-SEED files

`RingOK` adds to `RingInOrder` that slots are taken one after the other, and that a name
without file was refused. `WaitingOK` (what waits for its record spans no gap)
gives each record its day; `CutOK` says that the records, what waits and what is in
hand cut what was handled into pieces that follow each other.

### Channel lists

`ChanTypes`, `MetaOK` and `Selecting` are the invariant. `MetaOK` follows the list of a
DataServer through the three passes: in the first one every time series that has been
read is in the list once, and the list is in the order of `Before`, which
needs that `Before` is a strict order of names (`BeforeIsOrder`: it is decided by the
first letter in which two names differ) and what one insertion does (`AddEffect`:
the new item goes behind a smaller one and before one that is not, also when
`NewHead` has put it first); in the others every item that was passed has its own
times or network. `Selecting` follows the two loops of `nmxp_chan_subset()`: what is in the
subset matched a pattern and none before it (`SubsetOK`), and what matched a pattern that
was passed, at a place before the first channel that cannot be matched, is in the
subset (`LoopOK`). That exception is the observation on names of section 5;
`WellFormed` takes it away. `PrintOK` is the same for the loop that prints.

### Packets

The proof goes with a message. `EncodedRight`: the fields an instrument makes, with
any choice among the kinds that fit, lie end to end on the series (`Lays`), each
holding the differences between its ends. `BundlesRight`: the same for the
bundles of four, the last filled up with unused fields, none of which is a null
bundle. `SignedIsInverse` takes a difference back from its bytes, `UnpackRight` the
samples from the differences of one bundle (`Steps`, which `StepsConcat` joins), and
`UnpackAllRight` follows the loop over the bundles to the null bundle or the end.
Together they are `MessageRight`. `UnpackAllEffect` and `ExitIfUnreadable` bound what the
loop has made by 16 values for a bundle, and say that it meets the part of a bundle at
the end only if there is no null bundle before it. `TrimArithmetic` is the rounding at
both ends: the samples counted off are those outside of the window, whichever of the
limits lie in the packet, and never more than there are, however short the window is;
`EmptyArithmetic` is what is left of that for a window that does not start before its
end, where more than all samples may be counted off and the packet is left whole;
`TrimmedRight` follows what
`nmxp_data_trim()` makes of the packet. `HandlingOK` ties the request to the
channels selected, so that `nmxp_chan_lookupKeyIndex()` compared with the request is a
comparison of keys (`LookupKeyIndexIs`), and the name is that of the only channel with
the key (`LookupNameIs`).

What the loops and the recursive functions compute for inputs of any length is shown
by induction over the naturals. The library's theorems of induction take a predicate,
which the provers cannot instantiate; `SetInduction` states the principle of a set
instead and proves it with finite sets: if a set with 0 and all successors lacked x, the
predecessor would map what it lacks up to x into a smaller set without repetition.
`RecursionExists` derives from it that a function defined step by step exists, and
`UnpackAllIs`, `UnpackIs` and `EncodedIs` apply it to the definitions.

### What is only model-checked

- Liveness, which the prover does not reach: `BufferedIsHandled`, `ShutdownCompletes`,
  `ForceCloseCloses`, `AllRequested`, `SilenceEndsConnection`, `Ends`, `MainGoesOn`.
Neither TLC nor a proof says anything of `qsort()`, the Mini-SEED library and the
instruments: they are not in the repository, and the models state their contracts.

## 5. What the models found

Three are runs with expectation "violation" and a finding that quotes the
sentence it contradicts.

- TERM that arrives in `nmxptool_sigcondition_read()` makes its handler wait for the
  mutex its own thread holds (`src/nmxptool.c:1499`).
- Main "waits" for the request thread by locking a mutex the thread may not have
  locked yet (`src/nmxptool.c:1142`).
- A packet cut by `--buffdate` keeps its first samples under later times
  (`src/nmxptool.c:1017`).

The others are observations: what the code does where a reader may expect
something else. Several are the conditions that a property had to name.

Raw stream, connection, state file:

- A NULL call that also forces its first packet handles a second copy of it
  (`lib/nmxp.c:986`), although the comment at `lib/nmxp.c:1000` has duplicates
  discarded; `TwiceOnlyByForcedNull` says exactly when.
- The flush at the end of a connection handles packets up to the next gap; those
  behind it are freed unhandled, and only NaqsServer's memory brings them back.
- After the shift of the array, copies of pointers stay beyond `n_pdlist`;
  `NoDanglingPointer` shows that no later call reads them.
- ALRM between the allocation, or the release, of the two lists dereferences NULL
  (`src/nmxptool.c:1418`).
- USR1 between the opening of the socket and line 898 is lost.
- ALRM or USR1 that cuts a pause of the request thread short makes the next
  request "too soon": it is skipped and its channels are never requested. That is
  the exception in `AllRequested`.
- Any failure in a reconnection makes main return 1 although the loop is "exit only
  on request"; a failed DAP request makes the process exit after the next
  connection (`src/nmxptool.c:370`).
- Without Raw Stream, the time saved can go back to an older one
  (`src/nmxptool_chanseq.c:249`).
- With `--maxdataretr` shorter than NaqsServer's memory the DAP flow moves the
  time to resume from past data that NaqsServer still has: `ReachAssumption` of
  `Continuity` excludes it.
- With Raw Stream and a DAP flow the samples of the DAP flow are handled again: the
  time saved for Raw Stream does not move in it. That is why `HandledOnce` is
  about no DAP flow.

Framing and sessions:

- After a time-out inside a message, or a message longer than the buffer, the
  reader is out of step; twelve bytes that are no header are an error or an empty
  message, `recv_errno` is 0 and main reads on. What follows is lost until chance
  puts the reader back at a header or the watchdog closes the connection. No
  packet is ever made of such bytes (`ImplementsLossyFifo`).
- The watchdog is looked at only between two messages, so a server that sends a
  message byte by byte keeps the connection longer: `SilenceBounded` allows a time-out
  for each of its bytes.
- A read fails when it times out, but also when any signal that has a handler, ALRM
  and USR1 included, interrupts `recv()`, which is not started again on a socket with
  SO_RCVTIMEO. After that the DAP flow and `nmxp_getMetaChannelList()` send the next
  request while the answer to the last one is on its way, or the rest of a message:
  late answers are taken for those of the next request, for the channel list without
  a look at their type, and the middle of a message is taken for an empty message.
  The lists then hold wrong values, or are read beyond what was received ("crashed" in
  `Session`). `FewUnread` bounds how far behind the reader gets.
- `nmxp_waitReady()` gives up after ten messages even if the eleventh is READY.
- `nmxp_receiveChannelList()` returns no list and no error when a message of another
  type comes, and `nmxp_chan_getType()` then reads through NULL ("crashed" in
  `Session`).

Packets and channels:

- The room in the buffer is looked at before the null bundle, so a long packet
  may end the program for bundles that hold no data.
- A filler packet ends the program with `exit(0)`, although `lib/nmxp_base.c:633`
  says "Filler packet.  Discard entire packet." and the message at line 634 that it is
  discarded: it is the exception in `EndsOnlyIfUnreadable`.
- A body that ends inside of a bundle ends the program with `exit(1)`
  (`lib/nmxp_base.c:708`), unless a null bundle came before.
- A window that does not start before its end can leave a packet whole, because both
  ends round and more than all samples would go: `nmxp_data_trim()` returns an error
  that main does not look at. The options do not allow such a window, but a saved time
  behind the end makes one (`src/nmxptool.c:544`). A window that is only shorter than
  a sample is cut correctly.
- A server's name with a channel code of other than three letters makes
  `nmxp_chan_match()` return -1, the result of an invalid pattern, and not the -2
  that `lib/nmxp_chan.c:114-116` says: the channels behind it are not looked at for
  that pattern.
- `-l` and `-L` stop trying patterns at the first result other than 0, errors
  included, while the selection goes on to the next pattern.
- An empty pattern ends the list of `-C`.

Mini-SEED files and listen server:

- When `fopen()` fails in a full ring the slot keeps the name without a file, and
  the records of that file are dropped without a further try until another file is
  opened (`RingInOrder`, `LossIsLocal`).
- A failed `send()` to a client ends the thread that called it, the one that
  receives data included: when a client it prints to has gone away, or, once a client
  has given `raw` or `params`, when `cur_fd` changes between main's two reads of it or
  before it sends (`MainSurvives`).
- A line that another thread logs while a client has its `raw` printed may be sent late.
  When the client has left by then, it goes to a closed descriptor, or to the next
  client that got the same number, which asked for nothing: that is the condition of
  `RawGoesToAsker`.
- The thread that fails inside the command `raw` leaves `mutex_cur_fd` locked and
  `cur_fd` set, so that later "raw" commands wait for ever.
- Main sends with `mutex_occ` locked: a client that has its packets printed and
  stops reading holds up the reception of data.
- The commands `print` and `exit` do what they do and are then answered as unknown
  commands.

## 6. Plan

Done: all modules of section 2, and the proofs of section 4: every safety property
that a passing run checks, and both refinements.

Worth doing next:

1. For `Framing` and `Session`, that the reads of `Session`, those that fail inside of
   a message included, are what `Framing` does with its bytes, as a refinement of its own.
2. What `Connection` promises a thread that came too late: that it does no more than
   request on a socket that is closed or that of a later connection.
3. Between `Packets` and `RawStream`: that the packets of one channel keep their order
   and their samples from the framing to the outputs, as one composed specification.

Liveness stays with the model checker.

Not modelled, and why:

- Earthworm: calls a library that is not in the repository.
- The SeedLink plugin: pure output, headers and `write()` loops.
- Option parsing: sequential; only the constraints between options matter, and
  the models name them.
- CRC-32, memory accounting, the Windows layer, scripts and templates: no state or
  protocol of their own.
- Instruments that restart their sequence numbers, and the overflow of their
  differences: `RawStream` identifies a packet with its number.
- More clients than the table of the listen server holds (there is no test for
  it).
