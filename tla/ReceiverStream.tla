--------------------------- MODULE ReceiverStream ---------------------------
(***************************************************************************)
(* The transport at the end of a serial line.  The UM982 (not part of the  *)
(* repository) sends lines and frames; the line may damage some; poll_serial *)
(* (src/src/unicore_node.cpp) reads what has arrived, in pieces of any     *)
(* size, appends each piece to the transport and drains it.                *)
(***************************************************************************)
EXTENDS UnicoreTransport

CONSTANTS
    Message,            \* [kind, text]: a line without its CR LF, or a frame
    Damaged(_),         \* the forms a message's bytes can take on a bad line
    MaxMessages,        \* bounds
    MaxDamaged

BytesOf(m) ==
    IF m.kind = "line" THEN m.text \o <<CarriageReturn, Newline>> ELSE m.text

\* A line begins like one and holds no newline and no sync.
IsLine(m) ==
    /\ m.text # <<>> /\ m.text[1] \in LineStart
    /\ \A i \in 1..Len(m.text) : m.text[i] # Newline
    /\ \A i \in 1..(Len(BytesOf(m)) - Len(BinarySync) + 1) :
          \E k \in 1..Len(BinarySync) : BytesOf(m)[i + k - 1] # BinarySync[k]

\* A frame has the format that the transport expects.
IsFrame(m) ==
    /\ Len(m.text) >= MinFrame
    /\ \A k \in 1..Len(BinarySync) : m.text[k] = BinarySync[k]
    /\ Len(m.text) = MinFrame + LengthOf(m.text[LengthAt])
    /\ Len(m.text) <= binary_max_frame_size
    /\ CrcValid(m.text)

ASSUME StreamAssumption ==
    /\ MaxMessages \in Nat /\ MaxDamaged \in Nat
    /\ CarriageReturn # Newline
    /\ Message \subseteq [kind : {"line", "frame"}, text : Seq(Byte)]
    /\ \A m \in Message :
        /\ \/ m.kind = "line" /\ IsLine(m)
           \/ m.kind = "frame" /\ IsFrame(m)
        /\ Damaged(BytesOf(m)) \subseteq Seq(Byte)

VARIABLES
    wire,               \* bytes sent and not yet read
    sent                \* history: what was sent, where in the stream, and if intact

link == <<wire, sent>>
streamVars == <<vars, link>>

StreamInit == Init /\ wire = <<>> /\ sent = <<>>

Put(m, bytes, intact) ==
    /\ Len(sent) < MaxMessages
    /\ wire' = wire \o bytes
    /\ sent' = Append(sent, [message |-> m, at |-> Len(received) + Len(wire), intact |-> intact])
    /\ UNCHANGED vars

Send == \E m \in Message : Put(m, BytesOf(m), TRUE)

SendDamaged ==
    /\ Len(SelectSeq(sent, LAMBDA s : ~ s.intact)) < MaxDamaged
    /\ \E m \in Message : \E bytes \in Damaged(BytesOf(m)) : Put(m, bytes, FALSE)

\* One turn of poll_serial's loop: read() returns some of the bytes that are
\* there, the transport takes them and is drained before the next read.
Read ==
    \E n \in 1..Len(wire) :
        /\ Append_(SubSeq(wire, 1, n))
        /\ wire' = SubSeq(wire, n + 1, Len(wire))
        /\ UNCHANGED sent

DrainStep == Drain /\ UNCHANGED link

StreamNext == Send \/ SendDamaged \/ Read \/ DrainStep

\* poll_serial runs from a timer every poll period and reads until read()
\* returns nothing; the device is under no obligation to send.
StreamFairness == WF_streamVars(Read) /\ WF_streamVars(DrainStep)

StreamSpec == StreamInit /\ [][StreamNext]_streamVars /\ StreamFairness

-----------------------------------------------------------------------------
(* Properties *)

Sent == [i \in 1..Len(sent) |-> sent[i].message]
Delivered == [i \in 1..Len(events) |-> [kind |-> events[i].kind, text |-> events[i].bytes]]

Channel == INSTANCE MessageChannel WITH sent <- Sent, delivered <- Delivered

\* Without noise the transport is a reliable channel: however the reads cut
\* the stream, in whatever order lines and frames follow each other, and
\* whatever bytes a frame carries (newlines, sync bytes), each message comes out
\* once, whole, in order, and every message sent comes out in the end.
ImplementsChannel == Channel!Spec

\* The message sent as sent[i] came out as it was sent.
Recovered(i) ==
    \E k \in 1..Len(events) :
        /\ events[k].at = sent[i].at
        /\ events[k].kind = sent[i].message.kind
        /\ events[k].bytes = sent[i].message.text

\* Resynchronisation costs no intact frame: in strict mode the drain never
\* throws away the first byte of a frame that the line did not damage, though
\* damaged lengths and false syncs before it may have swallowed it for a while.
IntactFramesRecovered ==
    enable_binary /\ strict_binary_crc =>
        \A i \in 1..Len(sent) :
            sent[i].intact /\ sent[i].message.kind = "frame" /\ consumed > sent[i].at
                => Recovered(i)

\* Noise costs at most the line that follows it: a line behind an intact
\* message is never lost.
IntactLinesRecovered ==
    enable_binary /\ strict_binary_crc =>
        \A i \in 1..Len(sent) :
            /\ sent[i].intact /\ sent[i].message.kind = "line" /\ consumed > sent[i].at
            /\ i = 1 \/ sent[i - 1].intact
            => Recovered(i)

\* In strict mode every frame event is a frame that was sent, intact, where it
\* was sent: no false sync inside a payload or in noise ever becomes a frame.
NoFabricatedFrame ==
    strict_binary_crc =>
        \A k \in 1..Len(events) : events[k].kind = "frame" =>
            \E i \in 1..Len(sent) :
                /\ sent[i].intact /\ sent[i].at = events[k].at
                /\ sent[i].message = [kind |-> "frame", text |-> events[k].bytes]

\* The n bytes behind the first `at` of the stream, as a frame.
Piece(at, n) == [kind |-> "frame", text |-> SubSeq(received, at + 1, at + n)]

\* The CRC tells noise from frames: a piece of the stream that has the form of a
\* frame and the right CRC is a frame that was sent there.
CrcTells ==
    \A at \in 0..Len(received), n \in 1..Len(received) :
        at + n <= Len(received) /\ IsFrame(Piece(at, n)) =>
            \E i \in 1..Len(sent) :
                sent[i].intact /\ sent[i].at = at /\ sent[i].message = Piece(at, n)

\* What RejectsBadCrcInStrictMode (src/test/test_unicore_transport.cpp) says of
\* one frame with a wrong CRC: one CRC error, one resynchronisation.
OneResyncPerBadCrc == pc = "idle" => resync_count = crc_errors

=============================================================================
