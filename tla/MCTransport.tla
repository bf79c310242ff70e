---------------------------- MODULE MCTransport ----------------------------
(***************************************************************************)
(* UnicoreTransport on every stream that can be put together from a few    *)
(* chunks: parts of frames, parts of lines, noise, one read after another. *)
(* The sync has two bytes, the header three and the CRC one, so that a     *)
(* stream of eight bytes can hold two frames.                              *)
(***************************************************************************)
EXTENDS UnicoreTransport, SequencesExt

Sync1 == 170
Sync2 == 68
NL == 10
CR == 13
Dollar == 36
MCByte == {0, NL, CR, Dollar, Sync1, Sync2}
MCBinarySync == <<Sync1, Sync2>>
MCLineStart == {Dollar}

\* '$' announces one byte of payload; a newline and the sync bytes, too many.
MCLengthOf(b) == b % 7

\* A checksum whose value is again one of the bytes above: noise can pass it.
MCCrc(s) == << IF FoldLeft(LAMBDA sum, b : sum + b, 0, s) % 2 = 0 THEN NL ELSE 0 >>

MCChunk == { <<Sync1>>, <<Sync1, Sync2>>, <<Sync2, Dollar>>, <<NL>>,
             <<Sync1, Sync2, 0, NL>>,           \* a frame without payload
             <<Dollar, CR, NL, Dollar, NL>> }   \* two lines

\* ASCII only, or binary frames with the CRC enforced or only noted.
MCOptions == { <<FALSE, TRUE>>, <<TRUE, TRUE>>, <<TRUE, FALSE>> }

=============================================================================
