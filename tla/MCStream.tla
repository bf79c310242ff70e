------------------------------ MODULE MCStream ------------------------------
(***************************************************************************)
(* ReceiverStream with a handful of messages: two lines, a frame without   *)
(* payload, one whose payload is a newline and one whose payload starts    *)
(* like a frame.  The CRC is a 16-bit hash, too wide for the small streams *)
(* below to collide by accident.                                           *)
(***************************************************************************)
EXTENDS ReceiverStream, SequencesExt

Sync1 == 170
Sync2 == 68
NL == 10
CR == 13
Dollar == 36
Hash == 35
MCByte == 0..65535
MCBinarySync == <<Sync1, Sync2>>
MCLineStart == {Dollar, Hash}
MCLengthOf(b) == b
MCCrc(s) == << 256 + FoldLeft(LAMBDA h, b : (h * 31 + b) % 9973, 7, s) >>

Framed(s) == s \o MCCrc(s)
Line(t) == [kind |-> "line", text |-> t]
Frame(payload) ==
    [kind |-> "frame", text |-> Framed(<<Sync1, Sync2, Len(payload)>> \o payload)]

MCMessage == { Line(<<Dollar, 65>>), Line(<<Hash>>),
               Frame(<<>>), Frame(<<NL>>), Frame(<<Sync1, Sync2, 1>>) }

\* Both kinds of message share the line, and the CRC is enforced.
MCOptions == { <<TRUE, TRUE>> }

NoMessage == {}
NoDamage(bytes) == {}

\* A byte is lost, or changed into one of the bytes that mean something.
NoiseByte == {1, 3, NL, Dollar, Sync1, Sync2}
LostOrChanged(bytes) ==
    LET lost == { RemoveAt(bytes, i) : i \in 1..Len(bytes) }
        changed == { [bytes EXCEPT ![i] = b] : i \in 1..Len(bytes), b \in NoiseByte }
    IN (lost \cup changed) \ {bytes}

\* The damage of the unit test: the last byte of the frame, its CRC, is wrong.
BadCrc(bytes) == { [bytes EXCEPT ![Len(bytes)] = 255] }
FramesOnly == { Frame(<<>>) }

=============================================================================
