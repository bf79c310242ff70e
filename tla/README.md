# Verification of the Unicore N4 ROS 2 driver

This directory holds TLA+ models of the driver in `src/`, TLC runs that check
them on small instances, and TLAPS proofs about them for every instance.

- [1. The system](#1-the-system)
- [2. Plan](#2-plan)
- [3. The modules](#3-the-modules)
- [4. Runs, bounds, fairness](#4-runs-bounds-fairness)
- [5. Proofs](#5-proofs)
- [6. Findings](#6-findings)
- [7. What is not covered](#7-what-is-not-covered)

## 1. The system

A UM982 (or another N4) receiver is connected to a serial port. `unicore_node`
reads lines and binary frames from it and publishes positions, heading and
diagnostics; corrections come from an NTRIP caster through `ntrip_client_node`
as `rtcm_msgs/Message` and are written to the same port; the client in turn
subscribes to the positions, to tell the caster where the rover is.

```
 receiver == tty ==  SerialPort  --read-->  UnicoreTransport --events--> parsers
    ^                    ^                                                  |
    |                    | write                                   process_line,
    |                    |                                     process_binary_frame
    |              handle_rtcm <-- rtcm -- NTRIPClientNode <-- fix --- publishers
    |                                          |
    +---------- corrections                 libcurl == caster
```

| component | state | operations | what makes it correct |
|---|---|---|---|
| transport (`unicore_transport.cpp`) | `buffer_`, `counted_sync_candidate_`, counters, options | `append`, `drain`, `clear` | no byte lost or used twice; what comes out does not depend on how `read` cuts the stream; recovery from noise; `drain` returns |
| frame dispatcher (same file) | counts per message id, recent unknown ids | `dispatch` | every frame is counted once; bounded list |
| serial port (`serial_port.cpp`) | `fd_` | `open`, `close`, `read`, `write`, `wait_writable` | one descriptor; a write returns |
| serial link (`unicore_node.cpp` 662-755, 2884-2921) | the port, `last_open_attempt_`, RTCM counters | `poll_serial`, `ensure_serial_open`, `handle_rtcm` | a lost device is recovered from; nothing joined across a reconnect; counters say what was sent |
| NTRIP client (`ntrip_client_node.cpp`) | parameters in force and pending, two mutexes, flags, curl handle and header list, `latest_gga_` | `on_fix`, the refresh timer, `on_set_parameters_callback`, destructor; the streaming thread | no request with a state from the middle of a call, no accepted change lost, no freed header used, back-off, shutdown |
| sentence parser (`unicore_parser.cpp`) | `ParserCounters` | `parse_line`, a function per log | each member comes from its own field; what is refused is counted; nothing is read beyond the end |
| binary parser (`unicore_binary_nav.cpp`) | none | `parse`, a function per log | each member comes from its own bytes; both encodings of a log say the same |
| selection and publication (`unicore_node.cpp` 757-1478) | the latest message of each log with the time it came, recent RTCM ids | `process_line`, `process_binary_frame`, `active_*`, `publish_*` | a topic carries the latest valid report of the preferred feed that has one in time, with its own status, and does not go back in time |
| diagnostics (`unicore_node.cpp` 338-660, 1484-2882) | reads all of the above; `rtcm_history_`, counter snapshots | nine statuses, `publish_diagnostics` on a wall timer | an OK rests on evidence in time; the loss of a backend (the navigation backend excepted), of the fix, of corrections or of the receiver shows; an anomaly is reported once |
| live validator (`tools/unicore_live_validate.py`) | its own transport, port and command state | probe, reset, configure, capture, report | receiver and port at one rate; what it reports happened |

How they interact: all of `unicore_node` runs in callbacks of one
single-threaded executor (poll timer, diagnostics timer, RTCM subscription).
They do not interleave, but each makes several system calls, and the device
changes between them. `drain` calls the parsers and publishers for each event.
`ntrip_client_node` has two threads that share state through two mutexes and two
atomic flags. The two nodes only exchange messages.

What is hard: the byte stream is cut anywhere and mixes two framings; a damaged
length may cover intact messages; the device disappears between two calls, takes
a part of a message, or stops taking bytes; a flag is cleared by one thread after
it has read what the other writes; a request to the caster has no end of its own;
old data of one kind shadows new data of another. `PROJECT.json` lists these
hazards, each at its line, with the properties that would show it going wrong.

## 2. Plan

In order of what a failure would cost:

| | module | source | state |
|---|---|---|---|
| A | `UnicoreTransport`, `ReceiverStream`, abstract `MessageChannel` | `unicore_transport.cpp` | checked; safety and the safety part of the refinement proved |
| B | `NtripClient` | `ntrip_client_node.cpp` | checked; safety proved |
| C | `SerialLink` | `serial_port.cpp`, `unicore_node.cpp` 662-740, 2884-2921 | checked; safety proved |
| D | `NodeFeeds`, abstract `PreferredFeed` | `unicore_node.cpp` 757-1478 | checked; safety and the refinement proved |
| E | `Parsers`, `ParserHealth` | both parsers, `dispatch`, `gps_parser_status` | checked; safety proved |
| F | `Diagnostics`, which extends D | `unicore_node.cpp` 338-660, 1484-2882 | checked; safety proved |
| G | A, C and D in one behaviour | composition | not built, see section 7 |
| H | the live validator | `unicore_live_validate.py` | not built, see section 7 |

Every safety property that a passing run checks is proved for all constants
(section 5). Modules meant to be proved about have no RECURSIVE operator. Still worth
doing: what the live validator shares with A and C (H).

## 3. The modules

### UnicoreTransport (proved in UnicoreTransportProofs)

One turn of `drain`'s loop, down to its `continue` or `break`, is an action; the
loop may be anywhere between two turns, so `DrainReturns` is a real question.
`append` (here `Append_`) starts a drain as in `poll_serial`, `Clear` is
`transport_.clear()`. The variables are the members; `received`, `consumed`,
`origin`, `abandoned` and `events` are history.

| code | action |
|---|---|
| lines 45-67, ASCII only | `AsciiOnlyLine`, `DrainDone` |
| 72-84, a candidate at the front | `CandidateWaits`, `RejectTooLarge`, `RejectBadCrc`, `EmitFrame` |
| 86-103, a line before the next sync | `LineBeforeSync` |
| 105-111 | `SkipToSync` |
| 113-121, a start of something | `HoldPartial` |
| 123-125 | `DropByte` |

Bytes, sync pattern, header size, CRC size, the reading of the length field and the
CRC itself are constants, so that TLC can use a three-byte header and the proofs cover
every size. The length is read at one position of the header, where the code reads two
bytes; how a byte stands for a length is left open. Per-reason maps of counters are
reduced to the two reasons that occur. `set_options` is called once, before any byte,
and is the choice in `Init`; the default of `config/unicore.yaml` is ASCII only.

Two properties say that the reads do not matter. A line or a frame is defined on the
stream alone, as if it had come in one read: `TextLine`, and for frames the positions
that a scan of the whole stream finds (`ScanFinds`: it steps over each frame and over
the first byte of anything else, and ends at a candidate that lacks bytes). The
events must be those, after each `drain`. The scan is an equation on a set of
positions, so that it needs no recursion; it has one solution (`OneScan`).

### ReceiverStream, MessageChannel, MCStream (proved in ReceiverStreamProofs)

The transport at the end of a line: a receiver that sends lines and frames
(external), a line that damages some, and `poll_serial`'s read loop, which takes
any number of the bytes that are there. `MessageChannel` says what a channel
promises: what is delivered is a prefix of what was sent, and all of it comes out.
`ImplementsChannel` is the refinement, with `sent` and `delivered` read off the
history. What the receiver may send is an assumption (`StreamAssumption`): a line
begins with `$` or `#` and holds no newline and no sync, a frame has the format the
transport expects.

### NtripClient (proved in NtripClientProofs)

The executor thread (`execPc`) and the streaming thread (`streamPc`). A parameter
callback takes `params_mutex_`, writes the batch one by one and either refuses it
or sets the flag; the streaming thread copies the parameters one by one under the
same mutex, applies them, rebuilds the header and clears the flag last. The curl
handle is what a request would go out with: parameters and the number of the fix
in its header, 0 for none. libcurl and the caster are external: `RequestEnds`
returns as it likes. `gga_mutex_` is only ever held over one access, and one
action stands for that critical section.

Two members are read in ways the model does not show. `CURLINFO_PRIVATE` is
read into an object that is not a pointer, which libcurl does not allow; the
model takes it that the value asked for was the one set. And the comment before
`gga_header_list_` speaks of "every connection", while the header is only rebuilt
by a reconfigure; the model follows the code.

A batch that is refused in the middle leaves the values before it in `pending_*`,
to be applied by the next reconfigure. `spoiled` keeps these parameters, and
`AcceptedParamsInForce` exempts exactly them. So a request may go out with the first
half of a refused batch. What cannot happen is that it goes out with the state in the
middle of a call: `left` collects every state of `pending_*` that a call has left
behind, and the handle has one of those (`SnapshotIsWhole`).

A request that failed is followed by the back-off of one second, but a flag that is
set meanwhile takes its place: the loop goes on at once. `owed` says that one of the
two is still due; `FailedRequestBacksOff` that no request begins while it is.

### SerialLink (proved in SerialLinkProofs)

`SerialPort` with the three functions of the node that use it. Each system call
is a step, and between two of them the device may go, come back as another, send
or take a byte. A descriptor is the number of the device it was opened on; it is
alive while that device is there. The transport's buffer holds, for each byte,
the open it came by; `drain` leaves some suffix of it, which is what
`UnicoreTransportProofs` shows of the transport (`BufferIsSuffix`).

With VMIN and VTIME zero, `read` returns 0 both when there is nothing and on a
descriptor that is hung up; `poll_serial` takes both for silence. So reading
alone does not notice a lost device, and `HungUpPortClosed` starts from a
correction to be written.

### NodeFeeds, PreferredFeed (proved in NodeFeedsProofs)

What the node keeps of the receiver's messages. Every `latest_*` member with its
time is a feed, named after the log it comes from; `latest` has its data, `age`
how long ago it came, in ticks and no further than `Old`. The actions are the
branches of the two functions that receive a message, each with the publication
it ends in:

| code | action |
|---|---|
| `process_line`, GGA and PVTSLNA | `FixLine`, with `publish_active_fix` |
| `process_line`, HDT and HPR | `HeadingLine`, with `publish_active_heading` |
| `process_line`, all other logs | `StatusLine` |
| `process_binary_frame`, PVTSLNB | `PvtslnbFrame`, with both publications if `use_binary_nav` |
| `process_binary_frame`, all other logs | `StatusFrame` |
| the steady clock | `Tick` |

`active_fix` prefers PVTSLNB (when `use_binary_nav` is set), PVTSLNA, GGA, each
if it is in time and has a quality above 0; `active_heading` likewise, without
a quality. A position is its feed, age and quality. `PreferredFeed` says what
such a topic promises, without members, branches or timeouts per call; both
topics implement it (`ImplementsPreference`), and every report on a feed in use
is answered. What the promise does not say is checked beside it: whose status a
position carries (`StatusIsOwn`), and that positions do not go back in time
(`RegressionOnlyOnLostFix`).

`StatusIsOwn` gives the status of every quality, that of 0 among them, so that it does
not rest on 0 being unselected; that it is, against a comment in the parser, is
[finding 5](#6-findings). A remark from reading the code: a GGA without a fix, whose
fields are blank, is refused by the parser, so that the last valid GGA stays active
until `data_timeout_sec` has passed.

### Diagnostics (proved in DiagnosticsProofs)

Extends `NodeFeeds` with the serial port (open or not), the corrections written
(`rtcm_history`, as ages) and the report, a level per status. `Receive` and
`TimePasses` are the steps of `NodeFeeds`, `PollSerial` opens or closes the port,
`handle_rtcm` writes a correction, `publish_diagnostics` reports. Each status
selects its feed by itself, with timeouts that differ by status and backend
(`Lifetime`), so that a status combines members that expire at different times.
`OkMeansEvidence` says of every OK which messages it must rest on, in terms of
the feeds and their ages alone and not of the selectors. The jamming status looks at
two logs: an OK needs one of them in time and free of alarm, and no live one of the
preferred backend with one. The RF status needs a gain mean that is neither
too high nor too low.

A subject with a binary backend of its own is never OK when that backend is silent,
whatever the ASCII logs say. The navigation backend is different, and
`LostBackendNotOK` says how: nothing tests for its loss, so that with PVTSLNB out of time
the fix is OK exactly if an ASCII position in time is RTK fixed. What the receiver says
is reduced to what a level depends on: a quality, a count, flags, the gains of
one antenna.

### Parsers, ParserHealth (proved in ParserHealthProofs)

`Parsers` has the logs as the receiver writes them, a sequence of cells with a
value and a width, and the functions that read them: the ASCII functions by field
index, the binary ones by byte offset. One operator per function of the code,
with the fields or offsets of that function; those that read a fixed layout
share `FixedLine` and `FixedFrame`. SATSINFO, BESTSAT and OBSVMCMP have loops
whose cursor moves by counts read from the message. The layouts are external: they
are those of the tests and of the comments in the parsers.

A message is what a log says (`says`), the cells it is written in, and what a reader
should be told of it (`told`), which is taken from the cells by their names and never by
an index or an offset; `IsMessage` ties the three together. For SATSINFO, BESTSAT and
OBSVMCMP the cells are laid out from a list of satellites, signals or observations of
any length.

`ParserHealth` sends such logs, whole, cut and with blank fields, through
`parse_line`, `parse` and `dispatch`, counts what is refused, damaged or unknown,
and has `gps_parser_status` compare the counters with its snapshot.

What the model follows and a reader may not expect: the satellites of a PVTSLN are
those of its solution or those tracked, and with 0 in the solution the ASCII function
says 0 and the binary one the number tracked (`SatellitesAsSent`; a blank solution
means those tracked). A BESTNAVA with fewer than 39 fields counts as parsed, and its
last five are taken for a velocity if they are numbers, whatever they are
(`VelocityOfLastFields`, `unicore_parser.cpp` 805); `process_line` stores it, but it
has neither position nor status. `DecodedAsSent` excepts this velocity and the
satellites of a PVTSLN with none in its solution. Names and codes in a log are words
(`Wording`), not numbers, so that only the cuts which end in five numbers lead to such
a velocity, as in the code. A frame of a known id that its parser refuses is counted
nowhere, unlike a line (`unicore_node.cpp` 895); the ids 240, 242, 954, 972, 2116,
2117 and 2119 are known by name but not decoded, although `README.md` (line 29 of the
repository's) lists UNIHEADINGB among the decoded logs.

## 4. Runs, bounds, fairness

| run | states | what it shows |
|---|---|---|
| `transport` | 407,000 | Streams of up to eight bytes, put together from six chunks (halves of a sync, of a frame, of a line, noise), each chunk a read, with `clear` at any time, in ASCII, lax and strict mode. The buffer is a suffix of the stream, candidates are accounted for, frames are genuine, events disjoint, what stays is a partial message, and frames and lines are those a single read would have given. |
| `stream_clean` | 67,000 | Up to four messages of five kinds, among them frames whose payload is a newline or starts like a frame, read in pieces of every size: the channel is implemented, safety and liveness. |
| `stream_noise` | 1,019,000 | Three messages, one of which loses a byte anywhere or has any byte changed to any of six: every intact frame comes out, every line behind an intact message comes out, no frame is made up. |
| `ntrip` | 137,000 | Two parameters, five batches (two refused, one of them half-way), three calls, two fixes, a count of two. |
| `serial` | 203,000 | Two devices one after the other, three bytes, three messages of size 0 or 2, queues of 2 and 1, known and unknown rate. |
| `diagnostics` | 111,000 | Thirteen setups, each with the logs it reads and the backends it may use: every status of the report, and the two topics; reports at any moment. |
| `parser` | 54,000 | Every log in both encodings, whole, cut after every cell, with every field blank, and a PVTSLN with no satellite in its solution; and bad checksums, unknown ids and line noise between reports. |
| `stream_bad_crc`, `ntrip_first_fix`, `ntrip_silent_caster`, `heading_startup`, `unfixed_position` | | see [Findings](#6-findings) |

Why the bounds are enough. Eight bytes hold two frames of four bytes, or one of five
with a line or noise around it, cut in several ways; the loop looks at the front of
the buffer only, so a longer stream repeats these situations. Frames in the
`transport` run have a one-byte checksum whose values are bytes of the alphabet, so
that noise does pass it; the stream runs have a wide one, since what they say of noise
is only true as far as the CRC tells. Two fixes give the client a first and a later
one; two parameters are needed for half a batch, three calls for one that is refused
between two that are not; a count of two makes `record_count_` carry over. In the
serial run an output queue of one byte and a message of two force a partial write, and
two devices force a stale descriptor. Timeouts of one and two ticks and an age of
three, which is old for all, give two feeds every order of arriving and expiring, the
one with the longer timeout before or after the other; feeds have qualities of their
own, so that a borrowed one shows. A list of one id and one of two corrections are
full after two and three messages. One setup of `diagnostics` per status is enough
since the statuses only share what they read: feeds they both read are in both setups.
Gains and counts are at, above and below each threshold. A SATSINFO or BESTSAT has up
to two satellites, each on one to three frequencies, which moves the cursor by every
sum of two strides; four anomalies of each kind between and behind reports are more
than the snapshot can tell apart. `MaxCount`, `MaxReceived`, `MaxMessages`,
`MaxDamaged`, `MaxFix`, `MaxSets`, `MaxPlugs` and `MaxBytes` are bounds; the program
has no such limits.

Fairness.

- Transport: `Drain`, straight-line code that is running. Stream: reads (the poll
  timer fires for ever) and drain turns; the receiver may fall silent.
- NTRIP: the streaming thread, the executor inside a callback, and the wall timer.
  `CasterFairness`, that a request in the end records something or ends, is an
  assumption about the caster that nothing in the client enforces: the run `ntrip`
  has it, `ntrip_silent_caster` does not, and shows what depends on it.
- Serial: callbacks run to their end, the poll timer fires, time passes. Nothing
  is assumed of the device but that it sends finitely many bytes: the read loop of
  `poll_serial` has no limit of its own, and `CallbacksReturn` rests on `MaxBytes` there. For
  `handle_rtcm` it rests on nothing.
- Diagnostics: time passes, and the wall timer of `publish_diagnostics` fires
  while there is no report on the way. The executor has one thread, so this takes
  for granted that `poll_serial` returns; its read loop ends when the device is
  empty for a moment (the hazard at `unicore_node.cpp:671`), which a serial line
  cannot prevent at its rate. `SilenceReported` assumes silence from some moment on,
  not that it must come.
- Parser: safety only, no fairness. The topics are safety too, and part of the run
  `diagnostics`.

Deadlock is not checked in the stream runs, which end when all messages are sent
and read. Elsewhere it is.

## 5. Proofs

Seven proof modules state safety for every value of the constants, from the named
assumptions beside the CONSTANTS; an eighth, `DataInduction`, has what several need in
place of induction (a nonempty set of naturals has a least element; a recursive
equation on the naturals has a solution; sequences laid one behind the other begin at
the sums of the lengths before them). TLC evaluates the assumptions on every run.
Leaves that take the prover more than a second or two name a longer time limit
(`SMTT(30)`, `ZenonT(30)`), so that a slower machine proves them too. Beside types and
sizes they say of the environment: no sync byte is a newline (`BytesAssumption`), the
receiver sends well-formed messages (`StreamAssumption`), the mark for "no message
yet" is not a message, and that for an absent value not a number (`NoneAssumption`),
the receiver writes logs of the layouts of `Parsers`, and no blank where a BESTSAT has
a name, which the parser would copy as it is (`SentAssumption`), the correction
history holds one or more (`HistoryAssumption`), and the contents of the logs that the
statuses read are integers, counts not below zero (`StatusContent`).

`UnicoreTransportProofs`. `TypeOK`, `BufferIsStreamSuffix`, `CandidatesAccounted`,
`FramesAreGenuine` and `EventsDisjoint` together are inductive. A frame event carries
the bytes that were at the front of the buffer; that these are the bytes of the stream
where the event says is `BufferIsStreamSuffix`. Events stay disjoint because each
begins at `consumed`, which passes the end of every event before it. The accounting
needs to know that a remembered candidate is still at the front, which appending does
not disturb and every erasure resets. The lemmas on `EraseFront` and on growing
streams carry most of the work. The assumption that no sync byte is a newline is
needed where a line is cut in front of a sync. `ResidueIsPartial` is then inductive
relative to these: the three turns that end the loop leave one of its three cases. Two
theorems go beyond what the run checks: `OverflowIsText`, that whatever stands above
the limit of `poll_serial` holds no newline and, in binary mode, no sync but at most a
part of one at its very end, so that the `clear` that follows costs no line that has
ended and no frame of which the sync has come (one of which only the first sync bytes
have come is lost with it); and `EachTurnTakesBytes`, the measure behind
`DrainReturns`.

That the reads do not matter has an invariant per mode. In ASCII mode (`AsciiInv`) the
lines of the bytes taken so far are those that have come out, and the next begins
at `consumed`. In binary mode (`ScanInv`) each position that has left the buffer is
`Decided`: a frame was emitted there, or it is inside one, or what has been
received refutes a frame there whatever comes later (`Refuted`: a byte that is not
the sync's, a size above the limit, a wrong CRC in strict mode). Each turn decides the
positions it takes; the interesting one is a line in front of a sync
(`LineScanned`), whose last positions could be a sync cut by the end of the
buffer, were it not for the newline among them. When `drain` has returned, what is
left holds no frame, or begins with a candidate that waits, where the scan ends
too (`ScanEnds`). `OneScan` goes by the least position in which two scans
differ.

`ReceiverStreamProofs`. `LineOK` says where each message lies in what was sent, read
or not. The core is `FrontMessage`: while an intact message is at the front of the
buffer, the only turns are the one that emits it whole and those that wait for the
rest of it. Without noise (`NoNoise`, that the line has no way to damage a message)
and in binary mode the front is always the start of a message (`CleanInv`), and every
turn is a delivery of the abstract channel or a stutter (`ChannelSafety`). With noise
the drain may be anywhere; `BeforeFrame` and `BeforeNewline` show that no turn passes
the first byte of an intact frame, or the newline before a line, from in front of it,
unless a frame is emitted that covers it. Whether noise can make such a frame is a
matter of the CRC, and so the recovery theorems (`FramesRecovered`, `LinesRecovered`)
are about the behaviours in which `NoFabricatedFrame` always holds, and
`NoneFabricated` shows it of those in which the CRC tells damage from frames
(`CrcTells`: a piece of the stream in the form of a frame, with the right CRC, is one
that was sent there). Both hold in every state of the run `stream_noise`, which checks
the first; `RecoveryFromNoise` puts them together. In ASCII mode `drain` takes frames
for text, so these properties are about the strict binary mode.

`NtripClientProofs`. What is to be shown of the flag, that no accepted change is lost,
is not inductive: while the streaming thread is in the block the flag is still set,
and the parameters are in force when it clears it because (a) it holds the mutex from
the copy to the clearing (`ParamsLock`), so `pending_*` has not moved since; (b) what
no failed call has written over is as the last successful call left it
(`OnlySpoiledDiffer`). `ReconfigureAnnounced` says the flag is up until then. (a) also
gives `SnapshotIsWhole`: no call can be in its middle while the parameters are copied,
so what is copied is what the last call left. The back-off rests on
`desired_count_reached_` being cleared before each request
(`CountReachedMeansWriteError`), so that the short pause is never taken for a request
that failed. The invariant holds without any answer from the caster
(`SilentCasterInvariant`).

`SerialLinkProofs`. `CutMessageEndsSession` speaks of messages long past; the
strengthening says where the session stands now: behind an open, configured port
all messages are whole except the last while it is being written, and then
`written` and what is left of it add up (`OpenPortHasWhole`); messages are in the
order of opens (`LineInOrder`), so a new open starts behind all of them. The counters
are cardinalities: of the whole messages, and of their bytes, a set that grows by one
interval when a message becomes whole (`CountsAreOfWholeMessages`).
`ControlOK` says system calls are made on an open port with something to write,
which is also what keeps the count of descriptors (`OneDescriptor`) from going
below zero.

`NodeFeedsProofs`. `OutputsCurrent` says that what was published is what publishing
again would give; with `ActiveFix`, that the active fix is usable and preferred to all
usable ones, it gives the status of a position (`StatusBelongs`): no quality is
replaced by one of a GGA. For the order (`NoSilentRegression`) the published age alone
is not inductive. `NotBehind` says why an older position stays unpublished: each
usable feed is either not older than what was published last, or behind a usable,
preferred feed that is not older than it. Publishing establishes this
(`PublishedInOrder`); time keeps it (`TimeInOrder`), because a preferred feed that is
not older does not expire first, which is where `BinaryNavTimeout >= DataTimeout` is
needed; and it makes the next report publish itself or something not older
(`ReportInOrder`). A report of quality 0 takes the preferred feed away, and then an
older position follows. The refinement (`KeepsPreference`) maps each report and each
tick to the step of the topic that they are; it needs that a feed with a heading block
is the one the topic names, and nothing is assumed of the qualities but that they are
integers.

`DiagnosticsProofs`. The steps of the node are those of `NodeFeeds` with the port, the
corrections and the report unchanged, so that the invariant and both topics carry over
(`FeedsUndisturbed`, `TopicsUndisturbed`). The statuses are functions of the feeds;
what makes them more than that is time: the history is kept in the order of writing,
the last correction is in it while it is in the window (`HistoryOK`), and a report is
that of the feeds it was made from (`ReportOK`). Then each OK is traced to its
messages by status (`FixEvidence` to `JammingEvidence`; the last needs that a log was
heard at all, `JammingHeard`), and `LossOfBackend` and `ErrorOnLoss` follow by cases
on the selectors, for the navigation backend with the fix of the ASCII feeds that
takes its place.

`ParserHealthProofs`. An anomaly is pending exactly while a counter differs from the
snapshot (`PendingCounted`), and the list of unknown ids keeps its limit and
holds the last one (`ListOK`); a report takes the snapshot, so that it warns once.
What the counters count is left open: any scene, as long as it says what it counts.

`ParsersAgree` is `DecodedAsSent`, with its two exceptions, for all values, any number
of satellites, signals and observations, cut anywhere and blank anywhere. Its
invariant is small (what was decoded last was decoded from some message of a log); the
work is in the operators. For the logs of fixed layout a table gives each member with
the index or the offset its parser reads it from. `FixedLineTells` and
`FrameTableTells` show, for any table, that the parser understands the log if each
index or offset is that of the cell with the member's name and if the parser refuses
what is too short; then there is one lemma per parser that its table is right. That a
name and a number of a position type lead to the same quality is `QualityAgrees`. A
PVTSLN has a member that no table gives, the satellites, with a lemma for each
encoding (`PvtslnaSent`, `PvtslnbSent`). A line with fewer fields than its table
yields nothing, except the BESTNAVA, which yields the velocity that `DecodedAsSent`
excepts and no other member.

The parsers with loops say where satellite i begins by a recursive equation, and so
does the layout. First each equation is shown to have a solution (`RecursionExists`),
without which the CHOOSE in it would say nothing. Then the first satellite at which
the cursor of the code and the place in the layout differ is considered: there is none
before it, the code's step adds the stride that the message names and the layout the
cells that were written, and these are the same (`SatsinfoLine`, `SatsinfoFrame`,
`BestsatLine`, `BestsatFrame`, `ObsvmcmpFrame`). A log that was cut ends the loop in
the satellite that was cut, and the parser refuses it or has nothing left to read.

Only model-checked: everything under fairness (`DrainReturns`, `ReconfigureHappens`,
`GgaEventuallyForwarded`, `ShutdownCompletes`, `CallbacksReturn`, `ClosedPortReopens`,
`HungUpPortClosed`, `SilenceReported`, and that each message sent comes out,
the other half of `ImplementsChannel`), which the prover does not reach.

## 6. Findings

1. `resync_count` counts bytes (`stream_bad_crc`). A frame with a wrong CRC is
   rejected, one resynchronisation, and what is left of it is thrown away byte by
   byte, one resynchronisation each (`unicore_transport.cpp:123-125`). The test
   `RejectsBadCrcInStrictMode` expects one for the frame.
2. The reconnect for the first position can be lost (`ntrip_first_fix`). `on_fix`
   stores the position, then sets the flag, without `params_mutex_`; the streaming
   thread clears the flag after it has built the header. A first fix between the
   two is stored too late for the header and its flag is cleared. The comment in
   `on_fix` promises the next cycle; the five-minute timer makes it good
   (`GgaEventuallyForwarded` holds).
3. The five-minute refresh does not end a request to a caster that keeps the
   connection and sends nothing (`ntrip_silent_caster`): the timer sets a flag that
   is looked at when `curl_easy_perform` returns, and no timeout is set. The same
   holds for parameter changes and for the destructor.

4. The heading of a receiver that has none is published (`heading_startup`).
   `parse_pvtslnb` takes the heading block when its type is 0 or its baseline is
   longer than 0 (`unicore_binary_nav.cpp:803`). The type of an all-zero block is
   0, so with `use_binary_nav` a heading of 0 degrees is published while an HPR or
   HDT is in time, which the comment above the line says does not happen.
5. A position without a fix is never published (`unfixed_position`).
   `parse_pvtslna` accepts a PVTSLNA of quality 0 "because [...] downstream consumers gate
   on NavSatStatus.status" (comment at `unicore_parser.cpp` 745-751), but
   `active_ascii_fix` (`unicore_node.cpp:1302`) selects no report of quality 0, so that
   the topic falls silent and STATUS_NO_FIX never reaches a consumer.

## 7. What is not covered

The live validator, a tool of its own that no node calls: it drives a receiver
through a terminal session, and its state is what the person at the terminal
tries next. It copies the framing of the transport in Python; module A is about
the C++ one.

One behaviour of transport, link and feeds together. Their interfaces are checked on
both sides: what `drain` leaves is a suffix of what it was given (`BufferIsSuffix`,
which `SerialLink` builds on), what comes out are the messages that were sent
(`ImplementsChannel`), and `NodeFeeds` takes them in any order and number. The limit
on the receive buffer, the larger of 8192 and twice the largest frame, is the
interface that could lose something, and `OverflowIsText` says that it costs no line
that has ended and no frame of which the sync has come; the `clear` it leads to is the
action `Clear`, possible at any time. A correction that the NTRIP client cuts at the
end of a request is not followed to the receiver; the client does not look at what it
carries.

Data: floats and units, covariances, names of bands, the bit fields of an OBSVMCMP
record, key/value pairs and messages of the diagnostics, the arithmetic of
checksums and CRCs (a checksum is right or wrong) and `unicore_crc_probe.py`, which
searches for one. Message definitions, launch files and containers have no
behaviour of their own.

Of the modelled parts these are left out: logging; moving and reconfiguring a
`SerialPort` while it is open, which the node does not do; what is inside an RTCM
record; that counters wrap; the counts per message id that nothing reads.
