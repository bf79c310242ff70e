-------------------------- MODULE UnicoreTransport --------------------------
(***************************************************************************)
(* UnicoreTransport (src/src/unicore_transport.cpp): the byte stream of    *)
(* the UM982 is cut into ASCII lines and binary frames.  The caller        *)
(* appends the bytes of one serial read to buffer_ and drains it; drain()  *)
(* is a loop, and every action below but Append and Clear is one turn of   *)
(* it, down to the `continue` or the `break` that ends the turn.           *)
(*                                                                         *)
(* The real header has 24 bytes, its length field two and the CRC four;    *)
(* here they are parameters.  What a byte says about a payload length and  *)
(* what the CRC of a frame is are operators: nothing below depends on how  *)
(* they are computed.                                                      *)
(***************************************************************************)
EXTENDS Integers, Sequences

CONSTANTS
    Byte,                   \* the bytes a read can return
    BinarySync,             \* kBinarySync, AA 44 B5
    Newline,
    CarriageReturn,
    LineStart,              \* '$' and '#'
    HeaderSize,             \* kUnicoreBinaryHeaderSize
    CrcSize,                \* kUnicoreBinaryCrcSize
    LengthAt,               \* position in the header of the payload length
    LengthOf(_),            \* the payload length a header byte stands for
    Crc(_),                 \* crc32_unicore_binary, as a sequence of bytes
    Options,                \* the <<enable_binary, strict_binary_crc>> it may be given
    binary_max_frame_size,  \* options_.binary_max_frame_size
    Chunk,                  \* what one read of the port can return
    MaxReceived             \* bound on the bytes received, for TLC

ASSUME BytesAssumption ==
    /\ BinarySync \in Seq(Byte) /\ Len(BinarySync) >= 2
    /\ Newline \in Byte /\ CarriageReturn \in Byte /\ LineStart \subseteq Byte
    /\ \A i \in 1..Len(BinarySync) : BinarySync[i] # Newline
    /\ \A b \in Byte : LengthOf(b) \in Nat

ASSUME SizesAssumption ==
    /\ HeaderSize \in Nat /\ CrcSize \in Nat \ {0} /\ LengthAt \in Nat
    /\ Len(BinarySync) < LengthAt /\ LengthAt <= HeaderSize
    /\ binary_max_frame_size \in Nat
    /\ Options \subseteq BOOLEAN \X BOOLEAN

ASSUME ChunkAssumption ==
    /\ Chunk \subseteq Seq(Byte)
    /\ MaxReceived \in Nat

VARIABLES
    enable_binary,              \* options_, set once by the constructor of the node
    strict_binary_crc,
    pc,                         \* is drain() running?
    buffer,                     \* buffer_
    counted_sync_candidate,
    frames_total,               \* binary_counters_ ...
    crc_errors,                 \* also frame_parse_errors_by_reason["crc_mismatch"]
    frame_too_large,            \* frame_parse_errors_by_reason["frame_too_large"]
    resync_count,
    sync_candidates,
    \* History variables: the code does not have them.
    received,                   \* every byte ever appended
    consumed,                   \* how many of them have left the buffer
    origin,                     \* how many of them came before the last clear()
    abandoned,                  \* candidates that clear() threw away undecided
    events                      \* every event drain() has returned

counters == <<frames_total, crc_errors, frame_too_large, resync_count, sync_candidates>>
options  == <<enable_binary, strict_binary_crc>>
history  == <<received, origin, abandoned>>
vars == <<options, pc, buffer, counted_sync_candidate, counters, history, consumed, events>>

MinFrame == HeaderSize + CrcSize

-----------------------------------------------------------------------------
(* Looking at the buffer *)

\* The three sync bytes stand at position i (find_binary_sync compares there).
SyncAt(i) ==
    /\ i + Len(BinarySync) - 1 <= Len(buffer)
    /\ \A k \in 1..Len(BinarySync) : buffer[i + k - 1] = BinarySync[k]

FirstSyncAt(i) == SyncAt(i) /\ \A j \in 1..(i - 1) : ~ SyncAt(j)
NoSync == \A i \in 1..Len(buffer) : ~ SyncAt(i)

Mut_AnyNewlineAt(n) == buffer[n] = Newline                     \* mutant: not the first

FirstNewlineAt(n) ==
    /\ buffer[n] = Newline
    /\ \A j \in 1..(n - 1) : buffer[j] # Newline
NoNewline == \A i \in 1..Len(buffer) : buffer[i] # Newline

Mut_NoPrefixTest == FALSE                     \* mutant: a sync cut by a read is noise

\* begins_with_binary_sync_prefix: at most all but one of the sync bytes are
\* compared, so a buffer that goes on with a wrong last sync byte also matches.
BeginsWithSyncPrefix ==
    /\ buffer # <<>>
    /\ \A k \in 1..(Len(BinarySync) - 1) : k <= Len(buffer) => buffer[k] = BinarySync[k]

HeaderComplete == Len(buffer) >= MinFrame
Mut_LengthHasCrc == HeaderSize + LengthOf(buffer[LengthAt])     \* mutant
FrameSize == MinFrame + LengthOf(buffer[LengthAt])
Mut_NoSizeLimit == FALSE                                        \* mutant
FrameTooLarge == FrameSize > binary_max_frame_size
FrameComplete == Len(buffer) >= FrameSize

Mut_CrcNotCompared(frame) == TRUE                               \* mutant

\* The last CrcSize bytes of a frame are the CRC of the rest.
CrcValid(frame) ==
    SubSeq(frame, Len(frame) - CrcSize + 1, Len(frame))
        = Crc(SubSeq(frame, 1, Len(frame) - CrcSize))

Candidate == SubSeq(buffer, 1, FrameSize)

-----------------------------------------------------------------------------
(* The steps of drain() *)

Init ==
    /\ \E o \in Options : enable_binary = o[1] /\ strict_binary_crc = o[2]
    /\ pc = "idle"
    /\ buffer = <<>> /\ counted_sync_candidate = FALSE
    /\ frames_total = 0 /\ crc_errors = 0 /\ frame_too_large = 0
    /\ resync_count = 0 /\ sync_candidates = 0
    /\ received = <<>> /\ consumed = 0 /\ origin = 0 /\ abandoned = 0
    /\ events = <<>>

\* append(), after which the caller drains.
Append_(chunk) ==
    /\ pc = "idle"
    /\ chunk # <<>>
    /\ pc' = "draining"
    /\ buffer' = buffer \o chunk
    /\ received' = received \o chunk
    /\ UNCHANGED <<options, counted_sync_candidate, counters, consumed, origin, abandoned, events>>

\* clear(): the port was reopened, or the buffer outgrew the caller's limit.
Clear ==
    /\ pc = "idle"
    /\ buffer' = <<>>
    /\ counted_sync_candidate' = FALSE
    /\ consumed' = consumed + Len(buffer)
    /\ origin' = Len(received)
    /\ abandoned' = abandoned + (IF counted_sync_candidate THEN 1 ELSE 0)
    /\ UNCHANGED <<options, pc, counters, received, events>>

\* Mutants: one byte too many stays; a frame or a line loses all but its last
\* byte.
Mut_EraseKeepsByte(n) ==
    /\ buffer' = SubSeq(buffer, n, Len(buffer))
    /\ consumed' = consumed + n
Mut_EraseShort(n) ==
    /\ buffer' = SubSeq(buffer, n, Len(buffer))
    /\ consumed' = consumed + n - 1

EraseFront(n) ==
    /\ buffer' = SubSeq(buffer, n + 1, Len(buffer))
    /\ consumed' = consumed + n

\* The bytes before the newline at n, without a carriage return at their end.
LineBefore(n) ==
    IF n > 1 /\ buffer[n - 1] = CarriageReturn THEN SubSeq(buffer, 1, n - 2)
                                               ELSE SubSeq(buffer, 1, n - 1)

LineEvent(n) ==
    [kind |-> "line", at |-> consumed, size |-> n, bytes |-> LineBefore(n), crc_valid |-> FALSE]

FrameEvent ==
    [kind |-> "frame", at |-> consumed, size |-> FrameSize, bytes |-> Candidate,
     crc_valid |-> CrcValid(Candidate)]

\* Mutant: an empty line is not emitted, and not erased either.
Mut_EmptyLineStays(n) ==
    /\ FirstNewlineAt(n) /\ LineBefore(n) # <<>>
    /\ EraseFront(n)
    /\ events' = Append(events, LineEvent(n))
    /\ counted_sync_candidate' = FALSE
    /\ UNCHANGED <<pc, counters, history>>

\* A line is emitted unless it is empty, and leaves the buffer with its newline.
ExtractLine(n) ==
    /\ FirstNewlineAt(n)
    /\ EraseFront(n)
    /\ events' = IF LineBefore(n) = <<>> THEN events ELSE Append(events, LineEvent(n))
    /\ counted_sync_candidate' = FALSE
    /\ UNCHANGED <<pc, counters, history>>

AsciiOnlyLine == pc = "draining" /\ ~ enable_binary /\ \E n \in 1..Len(buffer) : ExtractLine(n)

\* The loop ends on an empty buffer, or in ASCII mode without a newline.
DrainDone ==
    /\ pc = "draining"
    /\ buffer = <<>> \/ (~ enable_binary /\ NoNewline)
    /\ pc' = "idle"
    /\ UNCHANGED <<buffer, counted_sync_candidate, counters, history, consumed, events>>

\* Mutant: a candidate that waits is counted again with every read.
Mut_CountEveryTime ==
    /\ pc = "draining" /\ enable_binary
    /\ SyncAt(1)
    /\ sync_candidates' = sync_candidates + 1

\* A candidate at the front is counted the first time it is looked at.
AtCandidate ==
    /\ pc = "draining" /\ enable_binary
    /\ SyncAt(1)
    /\ sync_candidates' = sync_candidates + (IF counted_sync_candidate THEN 0 ELSE 1)

\* try_extract_binary_frame returns false: too few bytes yet.
CandidateWaits ==
    /\ AtCandidate
    /\ HeaderComplete => ~ FrameTooLarge /\ ~ FrameComplete
    /\ pc' = "idle"
    /\ counted_sync_candidate' = TRUE
    /\ UNCHANGED <<buffer, frames_total, crc_errors, frame_too_large, resync_count,
                   history, consumed, events>>

\* Mutant: the whole candidate is skipped, with whatever its length field covers.
Mut_RejectWhole ==
    /\ EraseFront(IF FrameSize <= Len(buffer) THEN FrameSize ELSE 1)
    /\ resync_count' = resync_count + 1
    /\ counted_sync_candidate' = FALSE
    /\ UNCHANGED <<pc, frames_total, history, events>>

\* A rejected candidate loses its first byte, and the search goes on from there.
RejectCandidate ==
    /\ EraseFront(1)
    /\ resync_count' = resync_count + 1
    /\ counted_sync_candidate' = FALSE
    /\ UNCHANGED <<pc, frames_total, history, events>>

RejectTooLarge ==
    /\ AtCandidate
    /\ HeaderComplete /\ FrameTooLarge
    /\ frame_too_large' = frame_too_large + 1
    /\ RejectCandidate
    /\ UNCHANGED crc_errors

RejectBadCrc ==
    /\ AtCandidate
    /\ HeaderComplete /\ ~ FrameTooLarge /\ FrameComplete
    /\ strict_binary_crc /\ ~ CrcValid(Candidate)
    /\ crc_errors' = crc_errors + 1
    /\ RejectCandidate
    /\ UNCHANGED frame_too_large

\* A complete frame leaves the buffer; only the strict mode asks for its CRC.
EmitFrame ==
    /\ AtCandidate
    /\ HeaderComplete /\ ~ FrameTooLarge /\ FrameComplete
    /\ strict_binary_crc => CrcValid(Candidate)
    /\ EraseFront(FrameSize)
    /\ events' = Append(events, FrameEvent)
    /\ frames_total' = frames_total + 1
    /\ crc_errors' = crc_errors + (IF CrcValid(Candidate) THEN 0 ELSE 1)
    /\ counted_sync_candidate' = FALSE
    /\ UNCHANGED <<pc, frame_too_large, resync_count, history>>

\* No candidate at the front: a newline comes before the first sync, if any.
LineBeforeSync ==
    /\ pc = "draining" /\ enable_binary /\ ~ SyncAt(1)
    /\ \E n \in 1..Len(buffer) :
        /\ \A i \in 1..n : ~ SyncAt(i)
        /\ ExtractLine(n)

\* The first sync is further on and no newline comes before it.
SkipToSync ==
    /\ pc = "draining" /\ enable_binary
    /\ \E i \in 2..Len(buffer) :
        /\ FirstSyncAt(i)
        /\ \A j \in 1..i : buffer[j] # Newline
        /\ EraseFront(i - 1)
    /\ resync_count' = resync_count + 1
    /\ counted_sync_candidate' = FALSE
    /\ UNCHANGED <<pc, frames_total, crc_errors, frame_too_large, sync_candidates, history, events>>

NothingFound ==
    /\ pc = "draining" /\ enable_binary
    /\ buffer # <<>> /\ NoSync /\ NoNewline

\* The start of a line, or of a sync, is kept until more bytes come.
HoldPartial ==
    /\ NothingFound
    /\ buffer[1] \in LineStart \/ BeginsWithSyncPrefix
    /\ pc' = "idle"
    /\ UNCHANGED <<buffer, counted_sync_candidate, counters, history, consumed, events>>

DropByte ==
    /\ NothingFound
    /\ buffer[1] \notin LineStart /\ ~ BeginsWithSyncPrefix
    /\ EraseFront(1)
    /\ resync_count' = resync_count + 1
    /\ counted_sync_candidate' = FALSE
    /\ UNCHANGED <<pc, frames_total, crc_errors, frame_too_large, sync_candidates, history, events>>

Drain ==
    /\ \/ AsciiOnlyLine \/ DrainDone
       \/ CandidateWaits \/ RejectTooLarge \/ RejectBadCrc \/ EmitFrame
       \/ LineBeforeSync \/ SkipToSync \/ HoldPartial \/ DropByte
    /\ UNCHANGED options

Receive ==
    \E chunk \in Chunk :
        /\ Len(received) + Len(chunk) <= MaxReceived
        /\ Append_(chunk)

Next == Receive \/ Drain \/ Clear

\* drain() is straight-line code: once called it takes its next turn.
Spec == Init /\ [][Next]_vars /\ WF_vars(Drain)

-----------------------------------------------------------------------------
(* Properties *)

LineEvents == [kind : {"line"}, at : Nat, size : Nat, bytes : Seq(Byte), crc_valid : {FALSE}]

\* A frame is no longer than binary_max_frame_size, whatever its length field says.
FrameEvents == [kind : {"frame"}, at : Nat, size : MinFrame..binary_max_frame_size,
                bytes : Seq(Byte), crc_valid : BOOLEAN]
Event == LineEvents \cup FrameEvents

\* The type invariant of the transport, with the limit on the frames it returns.
TypeOK ==
    /\ enable_binary \in BOOLEAN /\ strict_binary_crc \in BOOLEAN
    /\ pc \in {"idle", "draining"}
    /\ buffer \in Seq(Byte)
    /\ counted_sync_candidate \in BOOLEAN
    /\ frames_total \in Nat /\ crc_errors \in Nat /\ frame_too_large \in Nat
    /\ resync_count \in Nat /\ sync_candidates \in Nat
    /\ received \in Seq(Byte) /\ consumed \in Nat /\ origin \in Nat /\ abandoned \in Nat
    /\ events \in Seq(Event)

\* No byte is duplicated, reordered or lost between append() and the events:
\* the buffer is always exactly the part of the stream that no turn of drain()
\* has taken, whatever mixture of frames, lines and noise came before.
BufferIsStreamSuffix ==
    /\ consumed + Len(buffer) = Len(received)
    /\ \A i \in 1..Len(buffer) : buffer[i] = received[consumed + i]

\* Every candidate that sync_candidates counts is decided exactly once, as a
\* frame, as too large, as a CRC error of the strict mode, or by a clear();
\* the only undecided one is the one that counted_sync_candidate_ remembers
\* across the reads that complete it (drain(), lines 72-84).
CandidatesAccounted ==
    /\ sync_candidates =
          frames_total + frame_too_large + (IF strict_binary_crc THEN crc_errors ELSE 0)
          + abandoned + (IF counted_sync_candidate THEN 1 ELSE 0)
    /\ counted_sync_candidate => enable_binary /\ SyncAt(1)

\* e is a frame of the first `taken` bytes of a stream.
GenuineFrame(e, stream, taken, strict) ==
    /\ e.at + e.size <= taken
    /\ Len(e.bytes) = e.size
    /\ \A i \in 1..e.size : e.bytes[i] = stream[e.at + i]
    /\ \A i \in 1..Len(BinarySync) : e.bytes[i] = BinarySync[i]
    /\ e.size >= MinFrame /\ e.size = MinFrame + LengthOf(e.bytes[LengthAt])
    /\ e.size <= binary_max_frame_size
    /\ e.crc_valid = CrcValid(e.bytes)
    /\ strict => e.crc_valid

\* A frame event carries bytes of the stream unaltered: they are where the
\* event says, they start with the sync bytes, their length field agrees with
\* their number, and in strict mode their CRC is right.
FramesAreGenuine ==
    \A k \in 1..Len(events) : events[k].kind = "frame" =>
        GenuineFrame(events[k], received, consumed, strict_binary_crc)

\* Events come out in stream order and no byte serves two of them.
EventsDisjoint ==
    /\ \A k, l \in 1..Len(events) : k < l => events[k].at + events[k].size <= events[l].at
    /\ \A k \in 1..Len(events) : events[k].at + events[k].size <= consumed

\* When drain() returns it has left no complete message behind.  What stays is
\* a candidate that still lacks bytes, shorter than the largest frame, so that
\* the caller's overflow check never throws away a candidate; or it is text
\* without a newline, which may end in a part of a sync.
ResidueIsPartial ==
    pc = "idle" =>
        \/ ~ enable_binary /\ NoNewline
        \/ enable_binary /\ SyncAt(1) /\ counted_sync_candidate
             /\ (Len(buffer) < MinFrame \/ Len(buffer) < binary_max_frame_size)
             /\ (HeaderComplete => ~ FrameTooLarge /\ Len(buffer) < FrameSize)
        \/ enable_binary /\ NoSync /\ NoNewline
             /\ (buffer = <<>> \/ buffer[1] \in LineStart \/ buffer[1] = BinarySync[1])

-----------------------------------------------------------------------------
(* The stream as one read would have cut it *)

\* What the stream shows behind its first `at` bytes: a sync, a header, and the
\* size that the header gives.
SyncBehind(at) ==
    /\ at + Len(BinarySync) <= Len(received)
    /\ \A k \in 1..Len(BinarySync) : received[at + k] = BinarySync[k]
HeaderBehind(at) == at + MinFrame <= Len(received)
SizeBehind(at) == MinFrame + LengthOf(received[at + LengthAt])

\* A candidate there is a frame, or lacks bytes.
Accepted(at) ==
    /\ SyncBehind(at) /\ HeaderBehind(at)
    /\ SizeBehind(at) <= binary_max_frame_size /\ at + SizeBehind(at) <= Len(received)
    /\ strict_binary_crc => CrcValid(SubSeq(received, at + 1, at + SizeBehind(at)))
Undecided(at) ==
    /\ SyncBehind(at)
    /\ HeaderBehind(at) =>
          SizeBehind(at) <= binary_max_frame_size /\ at + SizeBehind(at) > Len(received)

Inside(at, frames) == \E f \in frames : f < at /\ at < f + SizeBehind(f)

\* The frames that a scan of the whole stream finds: it steps over each frame
\* and over the first byte of anything else, up to a candidate that lacks bytes.
ScanFinds(frames) ==
    frames = { at \in origin..Len(received) :
                 /\ Accepted(at) /\ ~ Inside(at, frames)
                 /\ \A w \in origin..(at - 1) : Undecided(w) => Inside(w, frames) }

FramesEmitted ==
    { events[k].at : k \in { l \in 1..Len(events) :
                               events[l].kind = "frame" /\ events[l].at >= origin } }

\* How the reads cut the stream does not matter for binary frames: after each
\* drain() the frames emitted are those that one read of all the bytes would
\* have given, noise and false syncs included.
FramesIndependentOfReads ==
    pc = "idle" /\ enable_binary => ScanFinds(FramesEmitted)

\* A line that is not empty, from behind one newline to the next.
TextLine(at, end) ==
    /\ at = origin \/ (at > origin /\ received[at] = Newline)
    /\ at < end /\ received[end] = Newline
    /\ \A i \in (at + 1)..(end - 1) : received[i] # Newline
    /\ end # at + 1
    /\ end = at + 2 => received[at + 1] # CarriageReturn

\* In ASCII mode a line comes out for each non-empty newline-terminated part
\* of the stream, whatever the reads, and binary bytes in it are left alone.
LinesIndependentOfReads ==
    pc = "idle" /\ ~ enable_binary =>
        /\ \A k \in 1..Len(events) : events[k].at >= origin =>
              TextLine(events[k].at, events[k].at + events[k].size)
        /\ \A at, end \in origin..Len(received) : TextLine(at, end) =>
              \E k \in 1..Len(events) : events[k].at = at /\ events[k].size = end - at

\* drain() returns, whatever bytes it is given: every turn that does not end
\* it takes at least one byte from the buffer.
DrainReturns == (pc = "draining") ~> (pc = "idle")

=============================================================================
