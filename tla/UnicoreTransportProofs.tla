----------------------- MODULE UnicoreTransportProofs -----------------------
(***************************************************************************)
(* Safety of the transport for every alphabet, frame format, size limit,   *)
(* mode and stream, in whatever pieces the stream arrives.                 *)
(***************************************************************************)
EXTENDS UnicoreTransport, DataInduction, TLAPS

\* The conjunction of the invariants is inductive: what an event says of the
\* stream rests on the buffer being a suffix of it, and the accounting of the
\* candidates rests on the remembered one being at the front of the buffer.
IInv ==
    /\ TypeOK
    /\ BufferIsStreamSuffix
    /\ CandidatesAccounted
    /\ FramesAreGenuine
    /\ EventsDisjoint

-----------------------------------------------------------------------------
(* Lemmas on the buffer and on the events *)

\* A piece of a stream, from its elements.
LEMMA PieceIs ==
    ASSUME NEW s \in Seq(Byte), NEW a \in Nat, NEW n \in Nat \ {0}, a + n <= Len(s),
           NEW t \in Seq(Byte), Len(t) = n, \A i \in 1..n : t[i] = s[a + i]
    PROVE  SubSeq(s, a + 1, a + n) = t
<1>1. \A i \in (a + 1)..(a + n) : s[i] \in Byte
  BY ElementOfSeq, LenProperties
<1>2. /\ SubSeq(s, a + 1, a + n) \in Seq(Byte)
      /\ Len(SubSeq(s, a + 1, a + n)) = IF a + 1 <= a + n THEN (a + n) - (a + 1) + 1 ELSE 0
      /\ \A i \in 1..((a + n) - (a + 1) + 1) : SubSeq(s, a + 1, a + n)[i] = s[(a + 1) + i - 1]
  BY <1>1, SubSeqProperties
<1>3. (a + n) - (a + 1) + 1 = n /\ a + 1 <= a + n /\ \A i \in 1..n : (a + 1) + i - 1 = a + i
  OBVIOUS
<1>4. \A i \in 1..Len(SubSeq(s, a + 1, a + n)) : SubSeq(s, a + 1, a + n)[i] = t[i]
  BY <1>2, <1>3
<1> QED
  BY <1>2, <1>3, <1>4, SeqEqual

\* Erasing the first n bytes of the buffer leaves a suffix of the stream.
LEMMA EraseFrontKeepsSuffix ==
    ASSUME TypeOK, BufferIsStreamSuffix, received' = received,
           NEW n \in 0..Len(buffer), EraseFront(n)
    PROVE  /\ buffer' \in Seq(Byte) /\ Len(buffer') = Len(buffer) - n
           /\ consumed' \in Nat /\ consumed' = consumed + n
           /\ BufferIsStreamSuffix'
<1>1. /\ buffer \in Seq(Byte) /\ Len(buffer) \in Nat
      /\ \A i \in 1..Len(buffer) : buffer[i] \in Byte
      /\ consumed \in Nat
  BY LenProperties, ElementOfSeq DEF TypeOK
<1>2. \A i \in (n + 1)..Len(buffer) : buffer[i] \in Byte
  BY <1>1
<1>3. /\ SubSeq(buffer, n + 1, Len(buffer)) \in Seq(Byte)
      /\ Len(SubSeq(buffer, n + 1, Len(buffer)))
            = IF n + 1 <= Len(buffer) THEN Len(buffer) - (n + 1) + 1 ELSE 0
      /\ \A i \in 1..(Len(buffer) - (n + 1) + 1) :
            SubSeq(buffer, n + 1, Len(buffer))[i] = buffer[(n + 1) + i - 1]
  BY <1>1, <1>2, SubSeqProperties
<1>4. buffer' \in Seq(Byte) /\ Len(buffer') = Len(buffer) - n
  BY <1>1, <1>3 DEF EraseFront
<1>5. \A i \in 1..Len(buffer') : n + i \in 1..Len(buffer) /\ buffer'[i] = buffer[n + i]
  BY SMTT(30), <1>1, <1>3, <1>4 DEF EraseFront
<1>6. consumed' \in Nat /\ consumed' = consumed + n
  BY <1>1 DEF EraseFront
<1>7. consumed' + Len(buffer') = Len(received')
  <2>1. consumed + Len(buffer) = Len(received)
    BY DEF BufferIsStreamSuffix
  <2> QED
    BY <1>1, <1>4, <1>6, <2>1
<1>8. ASSUME NEW i \in 1..Len(buffer')
      PROVE  buffer'[i] = received'[consumed' + i]
  <2>1. n + i \in 1..Len(buffer) /\ buffer'[i] = buffer[n + i]
    BY <1>5
  <2>2. buffer[n + i] = received[consumed + (n + i)]
    BY <2>1 DEF BufferIsStreamSuffix
  <2>3. consumed' + i = consumed + (n + i)
    BY <1>1, <1>4, <1>6
  <2> QED
    BY <2>1, <2>2, <2>3
<1>9. BufferIsStreamSuffix'
  BY <1>7, <1>8 DEF BufferIsStreamSuffix
<1> QED
  BY <1>4, <1>6, <1>9

\* An event has a place and a size, and says whether its CRC matched.
LEMMA EventFields ==
    ASSUME NEW e \in Event
    PROVE  /\ e.at \in Nat /\ e.size \in Nat /\ e.crc_valid \in BOOLEAN
           /\ e.kind \in {"line", "frame"} /\ e.bytes \in Seq(Byte)
<1>1. CASE e \in LineEvents
  BY <1>1 DEF LineEvents
<1>2. CASE e \in FrameEvents
  <2>1. MinFrame..binary_max_frame_size \subseteq Nat
    BY SizesAssumption DEF MinFrame
  <2> QED
    BY <1>2, <2>1 DEF FrameEvents
<1> QED
  BY <1>1, <1>2 DEF Event

\* Positions and sizes of events are natural numbers.
LEMMA EventTypes ==
    ASSUME TypeOK
    PROVE  /\ Len(events) \in Nat
           /\ \A k \in 1..Len(events) :
                 events[k] \in Event /\ events[k].at \in Nat /\ events[k].size \in Nat
<1>1. events \in Seq(Event)
  BY DEF TypeOK
<1>2. \A k \in 1..Len(events) : events[k] \in Event
  BY <1>1, ElementOfSeq
<1>3. \A e \in Event : e.at \in Nat /\ e.size \in Nat
  BY EventFields
<1> QED
  BY <1>1, <1>2, <1>3, LenProperties

\* What is known of a frame event stays true: the stream only grows.
LEMMA GenuineFrameStable ==
    ASSUME NEW e \in Event, NEW s, NEW t, NEW n \in Nat, NEW m \in Nat,
           n <= m, n <= Len(s), Len(s) \in Nat,
           \A i \in 1..Len(s) : t[i] = s[i],
           NEW strict, GenuineFrame(e, s, n, strict)
    PROVE  GenuineFrame(e, t, m, strict)
<1>1. e.at \in Nat /\ e.size \in Nat
  BY EventFields
<1>2. e.at + e.size <= n
  BY DEF GenuineFrame
<1>3. e.at + e.size <= m
  BY <1>1, <1>2
<1>4. ASSUME NEW i \in 1..e.size
      PROVE  e.bytes[i] = t[e.at + i]
  <2>1. e.at + i \in 1..Len(s)
    BY <1>1, <1>2
  <2> QED
    BY <2>1 DEF GenuineFrame
<1> QED
  BY <1>3, <1>4 DEF GenuineFrame

\* A step that emits nothing keeps what is known of the events, as long as the
\* stream only grows and bytes only leave the buffer.
LEMMA SilentStepKeepsEvents ==
    ASSUME TypeOK, FramesAreGenuine, EventsDisjoint,
           consumed <= Len(received), consumed' \in Nat, consumed' >= consumed,
           events' = events, UNCHANGED options,
           \A i \in 1..Len(received) : received'[i] = received[i]
    PROVE  FramesAreGenuine' /\ EventsDisjoint'
<1>1. /\ consumed \in Nat /\ Len(received) \in Nat
      /\ strict_binary_crc' = strict_binary_crc
  BY LenProperties DEF TypeOK, options
<1>2. \A e \in Event : GenuineFrame(e, received, consumed, strict_binary_crc)
                         => GenuineFrame(e, received', consumed', strict_binary_crc')
  BY <1>1, GenuineFrameStable
<1>3. FramesAreGenuine'
  BY <1>2, EventTypes DEF FramesAreGenuine
<1>4. EventsDisjoint'
  BY <1>1, EventTypes DEF EventsDisjoint
<1> QED
  BY <1>3, <1>4

\* An event that covers exactly the bytes that leave the buffer keeps it too.
LEMMA EventStepKeepsEvents ==
    ASSUME TypeOK, FramesAreGenuine, EventsDisjoint,
           consumed <= Len(received), consumed' \in Nat,
           received' = received, UNCHANGED options,
           NEW e \in Event, events' = Append(events, e),
           e.at = consumed, consumed' = e.at + e.size,
           e.kind = "frame" => GenuineFrame(e, received, consumed', strict_binary_crc)
    PROVE  events' \in Seq(Event) /\ FramesAreGenuine' /\ EventsDisjoint'
<1>1. events \in Seq(Event)
  BY DEF TypeOK
<1>2. /\ events' \in Seq(Event) /\ Len(events') = Len(events) + 1
      /\ \A k \in 1..Len(events) : events'[k] = events[k]
      /\ events'[Len(events) + 1] = e
  BY <1>1, AppendProperties
<1>3. e.at \in Nat /\ e.size \in Nat /\ consumed \in Nat
  BY EventFields DEF TypeOK
<1>4. \A k \in 1..Len(events') : k \in 1..Len(events) \/ k = Len(events) + 1
  BY <1>2, EventTypes
<1>5. \A x \in Event : GenuineFrame(x, received, consumed, strict_binary_crc)
                         => GenuineFrame(x, received', consumed', strict_binary_crc')
  <2>1. strict_binary_crc' = strict_binary_crc /\ Len(received) \in Nat /\ consumed <= consumed'
    BY <1>3, LenProperties DEF TypeOK, options
  <2> QED
    BY ZenonT(30), <1>3, <2>1, GenuineFrameStable
<1>6. FramesAreGenuine'
  <2>1. strict_binary_crc' = strict_binary_crc
    BY DEF options
  <2> SUFFICES ASSUME NEW k \in 1..Len(events'), events'[k].kind = "frame"
               PROVE  GenuineFrame(events'[k], received', consumed', strict_binary_crc')
    BY DEF FramesAreGenuine
  <2>2. CASE k = Len(events) + 1
    BY <1>2, <2>1, <2>2
  <2>3. CASE k \in 1..Len(events)
    BY <1>2, <1>5, <2>3, EventTypes DEF FramesAreGenuine
  <2> QED
    BY <1>4, <2>2, <2>3
<1>7. ASSUME NEW k \in 1..Len(events')
      PROVE  events'[k].at + events'[k].size <= consumed'
  <2>1. CASE k = Len(events) + 1
    BY <1>2, <1>3, <2>1
  <2>2. CASE k \in 1..Len(events)
    <3>1. /\ events[k].at + events[k].size <= consumed
          /\ events[k].at \in Nat /\ events[k].size \in Nat
      BY <2>2, EventTypes DEF EventsDisjoint
    <3>2. consumed <= consumed'
      BY <1>3
    <3> QED
      BY SMTT(30), <1>2, <1>3, <2>2, <3>1, <3>2
  <2> QED
    BY <1>4, <2>1, <2>2
<1>8. ASSUME NEW k \in 1..Len(events'), NEW l \in 1..Len(events'), k < l
      PROVE  events'[k].at + events'[k].size <= events'[l].at
  <2>1. k \in 1..Len(events)
    BY <1>2, <1>8, EventTypes
  <2>2. CASE l = Len(events) + 1
    BY <1>2, <1>3, <2>1, <2>2 DEF EventsDisjoint
  <2>3. CASE l \in 1..Len(events)
    BY <1>2, <1>8, <2>1, <2>3 DEF EventsDisjoint
  <2> QED
    BY <1>4, <2>2, <2>3
<1>9. EventsDisjoint'
  BY <1>7, <1>8 DEF EventsDisjoint
<1> QED
  BY <1>2, <1>6, <1>9

-----------------------------------------------------------------------------
(* The steps of drain() *)

\* Bytes leave the buffer and nothing is emitted.
LEMMA SilentErase ==
    ASSUME IInv, NEW n \in 0..Len(buffer), EraseFront(n),
           events' = events, UNCHANGED <<options, history>>
    PROVE  /\ buffer' \in Seq(Byte) /\ consumed' \in Nat
           /\ BufferIsStreamSuffix' /\ FramesAreGenuine' /\ EventsDisjoint'
<1>1. received' = received /\ UNCHANGED options
  BY DEF history
<1>2. /\ buffer' \in Seq(Byte) /\ consumed' \in Nat /\ consumed' = consumed + n
      /\ BufferIsStreamSuffix'
  BY <1>1, EraseFrontKeepsSuffix DEF IInv
<1>3. consumed \in Nat /\ Len(buffer) \in Nat /\ consumed + Len(buffer) = Len(received)
  BY LenProperties DEF IInv, TypeOK, BufferIsStreamSuffix
<1>4. consumed <= Len(received) /\ consumed' >= consumed
  BY <1>2, <1>3
<1> QED
  BY <1>1, <1>2, <1>4, SilentStepKeepsEvents DEF IInv

\* Taking a line off the front keeps the invariant.
LEMMA ExtractLineStep ==
    ASSUME IInv, NEW n \in 1..Len(buffer), ExtractLine(n),
           ~ counted_sync_candidate, UNCHANGED options
    PROVE  IInv'
<1>1. /\ received' = received /\ UNCHANGED history /\ EraseFront(n)
      /\ UNCHANGED <<pc, counters>> /\ counted_sync_candidate' = FALSE
  BY DEF ExtractLine, history
<1>2. buffer \in Seq(Byte) /\ Len(buffer) \in Nat /\ consumed \in Nat
  BY LenProperties DEF IInv, TypeOK
<1>3. /\ buffer' \in Seq(Byte) /\ consumed' \in Nat /\ consumed' = consumed + n
      /\ BufferIsStreamSuffix'
  BY <1>1, <1>2, EraseFrontKeepsSuffix DEF IInv
<1>4. events' \in Seq(Event) /\ FramesAreGenuine' /\ EventsDisjoint'
  <2>1. CASE LineBefore(n) = <<>>
    BY <1>1, <1>2, <2>1, SilentErase DEF ExtractLine, IInv, TypeOK
  <2>2. CASE LineBefore(n) # <<>>
    <3>1. \A i \in 1..Len(buffer) : buffer[i] \in Byte
      BY <1>2, ElementOfSeq
    <3>2. SubSeq(buffer, 1, n - 1) \in Seq(Byte)
      BY <1>2, <3>1, SubSeqProperties
    <3>3. SubSeq(buffer, 1, n - 2) \in Seq(Byte)
      BY <1>2, <3>1, SubSeqProperties
    <3>4. LineEvent(n) \in Event
      BY <1>2, <3>2, <3>3 DEF LineEvent, LineBefore, Event, LineEvents
    <3>5. /\ events' = Append(events, LineEvent(n))
          /\ LineEvent(n).at = consumed /\ LineEvent(n).size = n
          /\ LineEvent(n).kind = "line"
      BY <2>2 DEF ExtractLine, LineEvent
    <3>6. consumed <= Len(received)
      BY <1>2 DEF IInv, BufferIsStreamSuffix
    <3>7. consumed' = LineEvent(n).at + LineEvent(n).size
      BY <1>3, <3>5
    <3>8. LineEvent(n).kind # "frame"
      BY <3>5
    <3> HIDE DEF LineEvent
    <3> QED
      BY <1>1, <1>3, <3>4, <3>5, <3>6, <3>7, <3>8, EventStepKeepsEvents DEF IInv
  <2> QED
    BY <2>1, <2>2
<1>5. CandidatesAccounted'
  BY <1>1 DEF IInv, CandidatesAccounted, counters, history, options
<1>6. TypeOK'
  BY <1>1, <1>3, <1>4 DEF IInv, TypeOK, counters, history, options
<1> QED
  BY <1>3, <1>4, <1>5, <1>6 DEF IInv

\* What a complete candidate is made of.
LEMMA CompleteCandidate ==
    ASSUME IInv, SyncAt(1), HeaderComplete, ~ FrameTooLarge, FrameComplete
    PROVE  /\ FrameSize \in 1..Len(buffer)
           /\ FrameEvent \in Event
           /\ FrameEvent.at = consumed /\ FrameEvent.size = FrameSize
           /\ FrameEvent.kind = "frame" /\ FrameEvent.crc_valid = CrcValid(Candidate)
           /\ FrameEvent.crc_valid \/ ~ strict_binary_crc =>
                 GenuineFrame(FrameEvent, received, consumed + FrameSize, strict_binary_crc)
<1>1. /\ buffer \in Seq(Byte) /\ Len(buffer) \in Nat /\ consumed \in Nat
      /\ \A i \in 1..Len(buffer) : buffer[i] \in Byte
  BY LenProperties, ElementOfSeq DEF IInv, TypeOK
<1>2. /\ MinFrame \in Nat \ {0} /\ Len(BinarySync) \in Nat /\ Len(BinarySync) < LengthAt
      /\ LengthAt \in 1..MinFrame /\ LengthAt \in Nat
  BY BytesAssumption, SizesAssumption, LenProperties DEF MinFrame
<1>3. LengthAt \in 1..Len(buffer)
  BY <1>1, <1>2 DEF HeaderComplete
<1>4. LengthOf(buffer[LengthAt]) \in Nat
  BY <1>1, <1>3, BytesAssumption
<1>5. FrameSize \in 1..Len(buffer) /\ MinFrame <= FrameSize /\ FrameSize \in Nat
  BY <1>1, <1>2, <1>4 DEF FrameSize, FrameComplete
<1>6. /\ Candidate \in Seq(Byte) /\ Len(Candidate) = FrameSize
      /\ \A i \in 1..FrameSize : Candidate[i] = buffer[i]
  <2>1. \A i \in 1..FrameSize : buffer[i] \in Byte
    BY <1>1, <1>5
  <2>2. /\ SubSeq(buffer, 1, FrameSize) \in Seq(Byte)
        /\ Len(SubSeq(buffer, 1, FrameSize))
              = IF 1 <= FrameSize THEN FrameSize - 1 + 1 ELSE 0
        /\ \A i \in 1..(FrameSize - 1 + 1) :
              SubSeq(buffer, 1, FrameSize)[i] = buffer[1 + i - 1]
    BY <1>5, <2>1, SubSeqProperties
  <2> HIDE DEF FrameSize
  <2> QED
    BY <1>5, <2>2 DEF Candidate
<1>7. FrameEvent \in Event
  <2>1. FrameSize \in MinFrame..binary_max_frame_size
    BY <1>2, <1>5, SizesAssumption DEF FrameTooLarge
  <2> HIDE DEF FrameSize
  <2> QED
    BY <1>1, <1>6, <2>1 DEF FrameEvent, Event, FrameEvents, CrcValid
<1>8. /\ FrameEvent.at = consumed /\ FrameEvent.size = FrameSize
      /\ FrameEvent.kind = "frame" /\ FrameEvent.crc_valid = CrcValid(Candidate)
      /\ FrameEvent.bytes = Candidate
  BY DEF FrameEvent
<1>9. ASSUME FrameEvent.crc_valid \/ ~ strict_binary_crc
      PROVE  GenuineFrame(FrameEvent, received, consumed + FrameSize, strict_binary_crc)
  <2>1. \A i \in 1..FrameSize : Candidate[i] = received[consumed + i]
    <3>1. \A i \in 1..Len(buffer) : buffer[i] = received[consumed + i]
      BY DEF IInv, BufferIsStreamSuffix
    <3>2. \A i \in 1..FrameSize : i \in 1..Len(buffer)
      BY <1>1, <1>5
    <3> QED
      BY <1>6, <3>1, <3>2
  <2>2. \A i \in 1..Len(BinarySync) : Candidate[i] = BinarySync[i]
    <3> SUFFICES ASSUME NEW i \in 1..Len(BinarySync)
                 PROVE  Candidate[i] = BinarySync[i]
      OBVIOUS
    <3>1. i \in 1..FrameSize /\ 1 + i - 1 = i
      BY <1>2, <1>5
    <3>2. buffer[1 + i - 1] = BinarySync[i]
      BY DEF SyncAt
    <3> QED
      BY <1>6, <3>1, <3>2
  <2>3. FrameSize = MinFrame + LengthOf(Candidate[LengthAt])
    <3>1. LengthAt \in 1..FrameSize
      BY <1>2, <1>5
    <3> QED
      BY <1>6, <3>1 DEF FrameSize
  <2>4. FrameSize <= binary_max_frame_size
    BY <1>5, SizesAssumption DEF FrameTooLarge
  <2>5. consumed + FrameSize <= consumed + FrameSize /\ FrameSize >= MinFrame
    BY <1>1, <1>2, <1>5
  <2> HIDE DEF FrameEvent, FrameSize, Candidate, CrcValid
  <2> QED
    BY <1>6, <1>8, <1>9, <2>1, <2>2, <2>3, <2>4, <2>5 DEF GenuineFrame
<1> QED
  BY <1>5, <1>7, <1>8, <1>9

\* One more decided candidate is one more in exactly one of the three counters.
LEMMA CandidateDecided ==
    ASSUME TypeOK, CandidatesAccounted,
           sync_candidates' = sync_candidates + (IF counted_sync_candidate THEN 0 ELSE 1),
           counted_sync_candidate' = FALSE, abandoned' = abandoned,
           strict_binary_crc' = strict_binary_crc,
           \/ /\ frames_total' = frames_total + 1 /\ frame_too_large' = frame_too_large
              /\ strict_binary_crc => crc_errors' = crc_errors
           \/ /\ frames_total' = frames_total /\ frame_too_large' = frame_too_large + 1
              /\ crc_errors' = crc_errors
           \/ /\ frames_total' = frames_total /\ frame_too_large' = frame_too_large
              /\ crc_errors' = crc_errors + 1 /\ strict_binary_crc
    PROVE  CandidatesAccounted'
<1> DEFINE Decided == frames_total + frame_too_large
                        + (IF strict_binary_crc THEN crc_errors ELSE 0)
<1>1. /\ frames_total \in Nat /\ frame_too_large \in Nat /\ crc_errors \in Nat
      /\ abandoned \in Nat /\ sync_candidates \in Nat /\ strict_binary_crc \in BOOLEAN
  BY DEF TypeOK
<1>2. Decided \in Nat
  BY <1>1
<1>3. Decided' = Decided + 1
  <2>1. CASE strict_binary_crc
    BY <1>1, <2>1
  <2>2. CASE ~ strict_binary_crc
    BY <1>1, <2>2
  <2> QED
    BY <2>1, <2>2
<1>4. sync_candidates = Decided + abandoned + (IF counted_sync_candidate THEN 1 ELSE 0)
  BY DEF CandidatesAccounted
<1>5. sync_candidates' = Decided + abandoned + 1
  <2> HIDE DEF Decided
  <2>1. CASE counted_sync_candidate
    BY <1>1, <1>2, <1>4, <2>1
  <2>2. CASE ~ counted_sync_candidate
    BY <1>1, <1>2, <1>4, <2>2
  <2> QED
    BY <2>1, <2>2
<1>6. sync_candidates' = Decided' + abandoned' + 0
  <2> HIDE DEF Decided
  <2> QED
    BY <1>1, <1>2, <1>3, <1>5
<1> QED
  BY <1>6 DEF CandidatesAccounted

\* Taking a whole frame off the front keeps the invariant.
LEMMA EmitFrameStep ==
    ASSUME IInv, EmitFrame, UNCHANGED options
    PROVE  IInv'
<1>1. /\ SyncAt(1) /\ HeaderComplete /\ ~ FrameTooLarge /\ FrameComplete
      /\ strict_binary_crc => CrcValid(Candidate)
      /\ sync_candidates' = sync_candidates + (IF counted_sync_candidate THEN 0 ELSE 1)
      /\ EraseFront(FrameSize)
      /\ events' = Append(events, FrameEvent)
      /\ frames_total' = frames_total + 1
      /\ crc_errors' = crc_errors + (IF CrcValid(Candidate) THEN 0 ELSE 1)
      /\ counted_sync_candidate' = FALSE
      /\ UNCHANGED <<pc, frame_too_large, resync_count, history>>
  BY DEF EmitFrame, AtCandidate
<1>2. /\ FrameSize \in 1..Len(buffer)
      /\ FrameEvent \in Event
      /\ FrameEvent.at = consumed /\ FrameEvent.size = FrameSize
      /\ FrameEvent.kind = "frame"
      /\ GenuineFrame(FrameEvent, received, consumed + FrameSize, strict_binary_crc)
  BY <1>1, CompleteCandidate DEF IInv, TypeOK
<1>3. received' = received
  BY <1>1 DEF history
<1>4. consumed \in Nat /\ Len(buffer) \in Nat /\ consumed <= Len(received)
  BY LenProperties DEF IInv, TypeOK, BufferIsStreamSuffix
<1>5. FrameSize \in 0..Len(buffer)
  BY <1>2, <1>4
<1>6. /\ buffer' \in Seq(Byte) /\ consumed' \in Nat /\ consumed' = consumed + FrameSize
      /\ BufferIsStreamSuffix'
  BY <1>1, <1>3, <1>5, EraseFrontKeepsSuffix DEF IInv
<1>7. events' \in Seq(Event) /\ FramesAreGenuine' /\ EventsDisjoint'
  BY <1>1, <1>2, <1>3, <1>4, <1>6, EventStepKeepsEvents DEF IInv
<1>8. TypeOK'
  <2>1. sync_candidates' \in Nat /\ crc_errors' \in Nat /\ frames_total' \in Nat
    BY <1>1 DEF IInv, TypeOK
  <2> QED
    BY <1>1, <1>6, <1>7, <2>1 DEF IInv, TypeOK, options, history
<1>9. CandidatesAccounted'
  <2>1. /\ frames_total' = frames_total + 1 /\ frame_too_large' = frame_too_large
        /\ abandoned' = abandoned /\ strict_binary_crc' = strict_binary_crc
        /\ counted_sync_candidate' = FALSE
        /\ strict_binary_crc => crc_errors' = crc_errors
    BY <1>1 DEF options, history, IInv, TypeOK
  <2> QED
    BY <1>1, <2>1, CandidateDecided DEF IInv
<1> QED
  BY <1>6, <1>7, <1>8, <1>9 DEF IInv

\* Giving up the candidate at the front keeps the invariant.
LEMMA RejectStep ==
    ASSUME IInv, RejectTooLarge \/ RejectBadCrc, UNCHANGED options
    PROVE  IInv'
<1>1. /\ AtCandidate /\ RejectCandidate
      /\ \/ frame_too_large' = frame_too_large + 1 /\ crc_errors' = crc_errors
         \/ /\ frame_too_large' = frame_too_large /\ crc_errors' = crc_errors + 1
            /\ strict_binary_crc
  BY DEF RejectTooLarge, RejectBadCrc
<1>2. /\ SyncAt(1) /\ EraseFront(1)
      /\ sync_candidates' = sync_candidates + (IF counted_sync_candidate THEN 0 ELSE 1)
      /\ counted_sync_candidate' = FALSE /\ resync_count' = resync_count + 1
      /\ UNCHANGED <<pc, frames_total, history, events>>
  BY <1>1 DEF AtCandidate, RejectCandidate
<1>3. 1 \in 0..Len(buffer)
  BY <1>2, BytesAssumption, LenProperties DEF IInv, TypeOK, SyncAt
<1>4. /\ buffer' \in Seq(Byte) /\ consumed' \in Nat
      /\ BufferIsStreamSuffix' /\ FramesAreGenuine' /\ EventsDisjoint'
  BY <1>2, <1>3, SilentErase
<1>5. /\ frame_too_large' \in Nat /\ crc_errors' \in Nat
      /\ sync_candidates' \in Nat /\ resync_count' \in Nat
  BY <1>1, <1>2 DEF IInv, TypeOK
<1>6. TypeOK'
  BY <1>2, <1>4, <1>5 DEF IInv, TypeOK, options, history
<1>7. CandidatesAccounted'
  <2>1. /\ frames_total' = frames_total /\ abandoned' = abandoned
        /\ strict_binary_crc' = strict_binary_crc
    BY <1>2 DEF options, history
  <2> QED
    BY <1>1, <1>2, <2>1, CandidateDecided DEF IInv
<1> QED
  BY <1>4, <1>6, <1>7 DEF IInv

\* Noise leaves the buffer: no candidate is at the front, so none is remembered.
LEMMA NoiseStep ==
    ASSUME IInv, SkipToSync \/ DropByte, UNCHANGED options
    PROVE  IInv'
<1>1. buffer \in Seq(Byte) /\ Len(buffer) \in Nat
  BY LenProperties DEF IInv, TypeOK
<1>2. ~ SyncAt(1) /\ \E n \in 0..Len(buffer) : EraseFront(n)
  <2>1. CASE SkipToSync
    <3>1. PICK i \in 2..Len(buffer) : FirstSyncAt(i) /\ EraseFront(i - 1)
      BY <2>1 DEF SkipToSync
    <3>2. 1 \in 1..(i - 1) /\ i - 1 \in 0..Len(buffer)
      BY <1>1, <3>1
    <3> QED
      BY <3>1, <3>2 DEF FirstSyncAt
  <2>2. CASE DropByte
    <3>1. 1 \in 1..Len(buffer)
      BY <1>1, <2>2, EmptySeq DEF DropByte, NothingFound
    <3>2. ~ SyncAt(1) /\ EraseFront(1)
      BY <2>2, <3>1 DEF DropByte, NothingFound, NoSync
    <3> QED
      BY <1>1, <3>1, <3>2
  <2> QED
    BY <2>1, <2>2
<1>3. /\ resync_count' = resync_count + 1 /\ counted_sync_candidate' = FALSE
      /\ UNCHANGED <<pc, frames_total, crc_errors, frame_too_large, sync_candidates,
                     history, events>>
  BY DEF SkipToSync, DropByte, NothingFound
<1>4. /\ buffer' \in Seq(Byte) /\ consumed' \in Nat
      /\ BufferIsStreamSuffix' /\ FramesAreGenuine' /\ EventsDisjoint'
  BY <1>2, <1>3, SilentErase
<1>5. TypeOK'
  <2>1. resync_count' \in Nat
    BY <1>3 DEF IInv, TypeOK
  <2> QED
    BY <1>3, <1>4, <2>1 DEF IInv, TypeOK, options, history
<1>6. ~ counted_sync_candidate
  BY <1>2 DEF IInv, CandidatesAccounted
<1>7. CandidatesAccounted'
  BY <1>3, <1>6 DEF IInv, CandidatesAccounted, options, history
<1> QED
  BY <1>4, <1>5, <1>7 DEF IInv

\* The turns that end drain() leave the buffer alone.
LEMMA LastTurnStep ==
    ASSUME IInv, DrainDone \/ CandidateWaits \/ HoldPartial, UNCHANGED options
    PROVE  IInv'
<1>1. /\ pc' = "idle"
      /\ UNCHANGED <<buffer, frames_total, crc_errors, frame_too_large, resync_count,
                     history, consumed, events>>
  BY DEF DrainDone, CandidateWaits, HoldPartial, counters
<1>2. \/ UNCHANGED <<counted_sync_candidate, sync_candidates>>
      \/ /\ AtCandidate /\ counted_sync_candidate' = TRUE
         /\ sync_candidates' = sync_candidates + (IF counted_sync_candidate THEN 0 ELSE 1)
  BY DEF DrainDone, CandidateWaits, HoldPartial, counters, AtCandidate
<1>3. BufferIsStreamSuffix' /\ FramesAreGenuine' /\ EventsDisjoint'
  BY <1>1 DEF IInv, BufferIsStreamSuffix, FramesAreGenuine, EventsDisjoint, options, history
<1>4. TypeOK'
  <2>1. sync_candidates' \in Nat
    <3>1. sync_candidates \in Nat
      BY DEF IInv, TypeOK
    <3>2. CASE sync_candidates' = sync_candidates
      BY <3>1, <3>2
    <3>3. CASE sync_candidates' = sync_candidates + (IF counted_sync_candidate THEN 0 ELSE 1)
      BY <3>1, <3>3
    <3> QED
      BY <1>2, <3>2, <3>3
  <2>2. counted_sync_candidate' \in BOOLEAN
    BY <1>2 DEF IInv, TypeOK
  <2> QED
    BY <1>1, <2>1, <2>2 DEF IInv, TypeOK, options, history
<1>5. CandidatesAccounted'
  <2>1. CASE UNCHANGED <<counted_sync_candidate, sync_candidates>>
    BY <1>1, <2>1 DEF IInv, CandidatesAccounted, SyncAt, options, history
  <2>2. CASE /\ AtCandidate /\ counted_sync_candidate' = TRUE
             /\ sync_candidates' = sync_candidates + (IF counted_sync_candidate THEN 0 ELSE 1)
    <3> DEFINE Decided == frames_total + frame_too_large
                            + (IF strict_binary_crc THEN crc_errors ELSE 0) + abandoned
    <3>1. Decided \in Nat /\ Decided' = Decided /\ sync_candidates \in Nat
      BY <1>1 DEF IInv, TypeOK, options, history
    <3>2. sync_candidates = Decided + (IF counted_sync_candidate THEN 1 ELSE 0)
      BY DEF IInv, CandidatesAccounted
    <3>3. sync_candidates' = Decided + 1
      <4> HIDE DEF Decided
      <4>1. CASE counted_sync_candidate
        BY <2>2, <3>1, <3>2, <4>1
      <4>2. CASE ~ counted_sync_candidate
        BY <2>2, <3>1, <3>2, <4>2
      <4> QED
        BY <4>1, <4>2
    <3>4. enable_binary' /\ SyncAt(1)'
      BY <1>1, <2>2 DEF AtCandidate, SyncAt, options
    <3>5. sync_candidates' = Decided' + 1
      BY <3>1, <3>3
    <3> QED
      BY <2>2, <3>4, <3>5 DEF CandidatesAccounted
  <2> QED
    BY <1>2, <2>1, <2>2
<1> QED
  BY <1>3, <1>4, <1>5 DEF IInv

-----------------------------------------------------------------------------
(* append(), clear() and the whole *)

\* append() keeps the invariant: the stream and the buffer grow by the same bytes.
LEMMA AppendStep ==
    ASSUME IInv, NEW chunk \in Seq(Byte), Append_(chunk)
    PROVE  IInv'
<1>1. /\ pc' = "draining" /\ buffer' = buffer \o chunk /\ received' = received \o chunk
      /\ UNCHANGED <<options, counted_sync_candidate, counters, consumed, origin,
                     abandoned, events>>
  BY DEF Append_
<1>2. /\ buffer \in Seq(Byte) /\ received \in Seq(Byte) /\ chunk \in Seq(Byte)
      /\ Len(buffer) \in Nat /\ Len(received) \in Nat /\ Len(chunk) \in Nat
      /\ consumed \in Nat
  BY LenProperties DEF IInv, TypeOK
<1>3. /\ buffer' \in Seq(Byte) /\ Len(buffer') = Len(buffer) + Len(chunk)
      /\ \A i \in 1..(Len(buffer) + Len(chunk)) :
            buffer'[i] = IF i <= Len(buffer) THEN buffer[i] ELSE chunk[i - Len(buffer)]
  BY <1>1, <1>2, ConcatProperties
<1>4. /\ received' \in Seq(Byte) /\ Len(received') = Len(received) + Len(chunk)
      /\ \A i \in 1..(Len(received) + Len(chunk)) :
            received'[i] = IF i <= Len(received) THEN received[i] ELSE chunk[i - Len(received)]
  BY <1>1, <1>2, ConcatProperties
<1>5. /\ consumed + Len(buffer) = Len(received)
      /\ \A i \in 1..Len(buffer) : buffer[i] = received[consumed + i]
  BY DEF IInv, BufferIsStreamSuffix
<1>6. BufferIsStreamSuffix'
  <2>1. consumed' + Len(buffer') = Len(received')
    BY <1>1, <1>2, <1>3, <1>4, <1>5
  <2>2. ASSUME NEW i \in 1..Len(buffer')
        PROVE  buffer'[i] = received'[consumed + i]
    <3>1. i \in 1..(Len(buffer) + Len(chunk)) /\ i \in Nat
      BY <1>2, <1>3
    <3>2. /\ consumed + i \in 1..(Len(received) + Len(chunk))
          /\ i > Len(buffer) => consumed + i > Len(received)
          /\ i <= Len(buffer) => consumed + i <= Len(received)
      <4>1. consumed + Len(buffer) = Len(received)
        BY <1>5
      <4> QED
        BY <1>2, <3>1, <4>1
    <3>3. CASE i <= Len(buffer)
      <4>1. buffer'[i] = buffer[i] /\ i \in 1..Len(buffer)
        BY <1>2, <1>3, <3>1, <3>3
      <4>2. received'[consumed + i] = received[consumed + i]
        BY <1>4, <3>2, <3>3
      <4> QED
        BY <1>5, <4>1, <4>2
    <3>4. CASE i > Len(buffer)
      <4>1. buffer'[i] = chunk[i - Len(buffer)]
        BY <1>2, <1>3, <3>1, <3>4
      <4>2. received'[consumed + i] = chunk[(consumed + i) - Len(received)]
        BY <1>2, <1>4, <3>2, <3>1, <3>4
      <4>3. (consumed + i) - Len(received) = i - Len(buffer)
        <5>1. consumed + Len(buffer) = Len(received)
          BY <1>5
        <5> QED
          BY SMTT(30), <1>2, <3>1, <5>1
      <4> QED
        BY <4>1, <4>2, <4>3
    <3> QED
      BY <1>2, <3>1, <3>3, <3>4
  <2> QED
    BY <1>1, <2>1, <2>2 DEF BufferIsStreamSuffix
<1>7. FramesAreGenuine' /\ EventsDisjoint'
  <2>1. consumed <= Len(received) /\ consumed' \in Nat /\ consumed' >= consumed
    BY <1>1, <1>2, <1>5
  <2>2. \A i \in 1..Len(received) : received'[i] = received[i]
    BY <1>2, <1>4
  <2>3. events' = events /\ UNCHANGED options
    BY <1>1
  <2> QED
    BY <2>1, <2>2, <2>3, SilentStepKeepsEvents DEF IInv
<1>8. TypeOK'
  BY <1>1, <1>3, <1>4 DEF IInv, TypeOK, options, counters
<1>9. CandidatesAccounted'
  <2>1. SyncAt(1) => SyncAt(1)'
    <3> SUFFICES ASSUME SyncAt(1) PROVE SyncAt(1)'
      OBVIOUS
    <3>1. Len(BinarySync) \in Nat
      BY BytesAssumption, LenProperties
    <3>2. 1 + Len(BinarySync) - 1 <= Len(buffer')
      BY <1>2, <1>3, <3>1 DEF SyncAt
    <3>3. \A k \in 1..Len(BinarySync) : buffer'[1 + k - 1] = BinarySync[k]
      BY <1>2, <1>3, <3>1 DEF SyncAt
    <3> QED
      BY <3>2, <3>3 DEF SyncAt
  <2>2. /\ counted_sync_candidate' => enable_binary' /\ SyncAt(1)'
        /\ UNCHANGED <<strict_binary_crc, abandoned, counted_sync_candidate, counters>>
    BY <1>1, <2>1 DEF IInv, CandidatesAccounted, options
  <2> QED
    BY <2>2 DEF IInv, CandidatesAccounted, counters
<1> QED
  BY <1>6, <1>7, <1>8, <1>9 DEF IInv

\* clear() keeps the invariant: what it throws away counts as taken.
LEMMA ClearStep ==
    ASSUME IInv, Clear
    PROVE  IInv'
<1>1. /\ buffer' = <<>> /\ counted_sync_candidate' = FALSE
      /\ consumed' = consumed + Len(buffer) /\ origin' = Len(received)
      /\ abandoned' = abandoned + (IF counted_sync_candidate THEN 1 ELSE 0)
      /\ UNCHANGED <<options, pc, counters, received, events>>
  BY DEF Clear
<1>2. /\ Len(buffer) \in Nat /\ Len(received) \in Nat /\ consumed \in Nat
      /\ consumed + Len(buffer) = Len(received)
  BY LenProperties DEF IInv, TypeOK, BufferIsStreamSuffix
<1>3. buffer' \in Seq(Byte) /\ Len(buffer') = 0
  BY <1>1, EmptySeq
<1>4. BufferIsStreamSuffix'
  BY <1>1, <1>2, <1>3 DEF BufferIsStreamSuffix
<1>5. FramesAreGenuine' /\ EventsDisjoint'
  <2>1. consumed <= Len(received) /\ consumed' \in Nat /\ consumed' >= consumed
    BY <1>1, <1>2
  <2>2. events' = events /\ UNCHANGED options /\ received' = received
    BY <1>1
  <2> QED
    BY <2>1, <2>2, SilentStepKeepsEvents DEF IInv
<1>6. abandoned \in Nat /\ abandoned' \in Nat
  BY <1>1 DEF IInv, TypeOK
<1>7. TypeOK'
  BY <1>1, <1>2, <1>3, <1>6 DEF IInv, TypeOK, options, counters
<1>8. CandidatesAccounted'
  <2> DEFINE Decided == frames_total + frame_too_large
                          + (IF strict_binary_crc THEN crc_errors ELSE 0)
  <2>1. Decided \in Nat /\ Decided' = Decided /\ sync_candidates' = sync_candidates
    BY <1>1 DEF IInv, TypeOK, options, counters
  <2>2. sync_candidates = Decided + abandoned + (IF counted_sync_candidate THEN 1 ELSE 0)
    BY DEF IInv, CandidatesAccounted
  <2>3. sync_candidates' = Decided + abandoned'
    <3> HIDE DEF Decided
    <3>1. CASE counted_sync_candidate
      BY <1>1, <1>6, <2>1, <2>2, <3>1
    <3>2. CASE ~ counted_sync_candidate
      BY <1>1, <1>6, <2>1, <2>2, <3>2
    <3> QED
      BY <3>1, <3>2
  <2>4. sync_candidates' = Decided' + abandoned' + 0
    <3> HIDE DEF Decided
    <3> QED
      BY <1>6, <2>1, <2>3
  <2> QED
    BY <1>1, <2>4 DEF CandidatesAccounted
<1> QED
  BY <1>4, <1>5, <1>7, <1>8 DEF IInv

\* Every turn of drain() keeps the invariant.
LEMMA DrainStepKeepsIInv ==
    ASSUME IInv, Drain
    PROVE  IInv'
<1>1. UNCHANGED options
  BY DEF Drain
<1>2. CASE AsciiOnlyLine
  <2>1. PICK n \in 1..Len(buffer) : ExtractLine(n)
    BY <1>2 DEF AsciiOnlyLine
  <2>2. ~ counted_sync_candidate
    BY <1>2 DEF IInv, CandidatesAccounted, AsciiOnlyLine
  <2> QED
    BY <1>1, <2>1, <2>2, ExtractLineStep
<1>3. CASE LineBeforeSync
  <2>1. PICK n \in 1..Len(buffer) : ExtractLine(n)
    BY <1>3 DEF LineBeforeSync
  <2>2. ~ counted_sync_candidate
    BY <1>3 DEF IInv, CandidatesAccounted, LineBeforeSync
  <2> QED
    BY <1>1, <2>1, <2>2, ExtractLineStep
<1>4. CASE EmitFrame
  BY <1>1, <1>4, EmitFrameStep
<1>5. CASE RejectTooLarge \/ RejectBadCrc
  BY <1>1, <1>5, RejectStep
<1>6. CASE SkipToSync \/ DropByte
  BY <1>1, <1>6, NoiseStep
<1>7. CASE DrainDone \/ CandidateWaits \/ HoldPartial
  BY <1>1, <1>7, LastTurnStep
<1> QED
  BY <1>2, <1>3, <1>4, <1>5, <1>6, <1>7 DEF Drain

\* A new transport satisfies the invariant.
LEMMA InitIInv == Init => IInv
<1> SUFFICES ASSUME Init PROVE IInv
  OBVIOUS
<1>1. buffer = <<>> /\ received = <<>> /\ events = <<>> /\ consumed = 0
  BY DEF Init
<1>2. /\ buffer \in Seq(Byte) /\ received \in Seq(Byte) /\ events \in Seq(Event)
      /\ Len(buffer) = 0 /\ Len(received) = 0 /\ Len(events) = 0
  BY <1>1, EmptySeq
<1>3. enable_binary \in BOOLEAN /\ strict_binary_crc \in BOOLEAN
  <2>1. PICK o \in Options : enable_binary = o[1] /\ strict_binary_crc = o[2]
    BY DEF Init
  <2> QED
    BY <2>1, SizesAssumption
<1>4. TypeOK
  BY <1>2, <1>3 DEF Init, TypeOK
<1>5. BufferIsStreamSuffix /\ FramesAreGenuine /\ EventsDisjoint
  BY <1>1, <1>2 DEF BufferIsStreamSuffix, FramesAreGenuine, EventsDisjoint
<1>6. CandidatesAccounted
  BY DEF Init, CandidatesAccounted
<1> QED
  BY <1>4, <1>5, <1>6 DEF IInv

\* The invariants hold for every alphabet, format, limit, mode and stream.
THEOREM TransportInvariant == Spec => []IInv
<1>1. ASSUME IInv, [Next]_vars
      PROVE  IInv'
  <2>1. CASE Receive
    BY <1>1, <2>1, AppendStep, ChunkAssumption DEF Receive
  <2>2. CASE Drain
    BY <1>1, <2>2, DrainStepKeepsIInv
  <2>3. CASE Clear
    BY <1>1, <2>3, ClearStep
  <2>4. CASE UNCHANGED vars
    BY <1>1, <2>4 DEF vars, options, counters, history, IInv, TypeOK, BufferIsStreamSuffix,
         CandidatesAccounted, SyncAt, FramesAreGenuine, EventsDisjoint
  <2> QED
    BY <1>1, <2>1, <2>2, <2>3, <2>4 DEF Next
<1> QED
  BY InitIInv, <1>1, PTL DEF Spec

\* Every variable keeps its type.
THEOREM TypeCorrect == Spec => []TypeOK
<1>1. IInv => TypeOK
  BY DEF IInv
<1> QED
  BY <1>1, TransportInvariant, PTL

\* drain() neither duplicates, reorders nor loses a byte it has not taken.
THEOREM BufferIsSuffix == Spec => []BufferIsStreamSuffix
<1>1. IInv => BufferIsStreamSuffix
  BY DEF IInv
<1> QED
  BY <1>1, TransportInvariant, PTL

\* Every sync candidate is counted once and decided once.
THEOREM CandidateAccounting == Spec => []CandidatesAccounted
<1>1. IInv => CandidatesAccounted
  BY DEF IInv
<1> QED
  BY <1>1, TransportInvariant, PTL

\* Every frame event carries an unaltered piece of the stream that is a frame
\* of the configured format, with a valid CRC in strict mode.
THEOREM GenuineFrames == Spec => []FramesAreGenuine
<1>1. IInv => FramesAreGenuine
  BY DEF IInv
<1> QED
  BY <1>1, TransportInvariant, PTL

\* Events come out in stream order and share no byte.
THEOREM DisjointEvents == Spec => []EventsDisjoint
<1>1. IInv => EventsDisjoint
  BY DEF IInv
<1> QED
  BY <1>1, TransportInvariant, PTL

-----------------------------------------------------------------------------
(* What drain() leaves behind *)

\* What is left holds no complete message: an empty buffer, a candidate that lacks
\* bytes, or a text without a newline.
LEMMA LastTurnLeavesPartial ==
    ASSUME IInv, DrainDone \/ CandidateWaits \/ HoldPartial, UNCHANGED options
    PROVE  ResidueIsPartial'
<1>1. buffer' = buffer /\ enable_binary' = enable_binary
  BY DEF DrainDone, CandidateWaits, HoldPartial, options
<1>2. buffer \in Seq(Byte) /\ Len(buffer) \in Nat /\ enable_binary \in BOOLEAN
  BY LenProperties DEF IInv, TypeOK
<1>3. CASE DrainDone
  <2>1. CASE buffer = <<>>
    <3>1. Len(buffer') = 0
      BY <1>1, <2>1
    <3>2. NoNewline' /\ NoSync'
      BY <3>1 DEF NoNewline, NoSync
    <3> QED
      BY <1>1, <1>2, <2>1, <3>2 DEF ResidueIsPartial
  <2>2. CASE ~ enable_binary /\ NoNewline
    BY <1>1, <2>2 DEF ResidueIsPartial, NoNewline
  <2> QED
    BY <1>3, <2>1, <2>2 DEF DrainDone
<1>4. CASE HoldPartial
  <2>1. enable_binary /\ NoSync /\ NoNewline /\ (buffer[1] \in LineStart \/ BeginsWithSyncPrefix)
    BY <1>4 DEF HoldPartial, NothingFound
  <2>2. BeginsWithSyncPrefix => buffer[1] = BinarySync[1]
    <3>1. buffer # <<>> => 1 <= Len(buffer)
      BY <1>2, EmptySeq
    <3>2. 1 \in 1..(Len(BinarySync) - 1)
      BY BytesAssumption, LenProperties
    <3> QED
      BY <3>1, <3>2 DEF BeginsWithSyncPrefix
  <2> QED
    BY <1>1, <2>1, <2>2 DEF ResidueIsPartial, NoSync, SyncAt, NoNewline
<1>5. CASE CandidateWaits
  <2>1. /\ enable_binary /\ SyncAt(1) /\ counted_sync_candidate' = TRUE
        /\ HeaderComplete => ~ FrameTooLarge /\ ~ FrameComplete
    BY <1>5 DEF CandidateWaits, AtCandidate
  <2>2. MinFrame \in Nat /\ LengthAt \in 1..MinFrame
    <3>1. Len(BinarySync) \in Nat
      BY BytesAssumption, LenProperties
    <3> QED
      BY <3>1, SizesAssumption DEF MinFrame
  <2>3. ASSUME HeaderComplete
        PROVE  Len(buffer) < FrameSize /\ Len(buffer) < binary_max_frame_size
    <3>1. LengthAt \in 1..Len(buffer)
      BY <1>2, <2>2, <2>3 DEF HeaderComplete
    <3>2. LengthOf(buffer[LengthAt]) \in Nat
      BY <1>2, <3>1, ElementOfSeq, BytesAssumption
    <3>3. FrameSize \in Nat
      BY <2>2, <3>2 DEF FrameSize
    <3>4. ~ (Len(buffer) >= FrameSize) /\ ~ (FrameSize > binary_max_frame_size)
      BY <2>1, <2>3 DEF FrameComplete, FrameTooLarge
    <3> QED
      BY <1>2, <3>3, <3>4, SizesAssumption
  <2>4. Len(buffer) < MinFrame \/ HeaderComplete
    BY <1>2, <2>2 DEF HeaderComplete
  <2>5. /\ Len(buffer) < MinFrame \/ Len(buffer) < binary_max_frame_size
        /\ HeaderComplete => Len(buffer) < FrameSize
    BY <2>3, <2>4
  <2>6. /\ SyncAt(1)' <=> SyncAt(1)
        /\ HeaderComplete' <=> HeaderComplete
        /\ FrameSize' = FrameSize
        /\ FrameTooLarge' <=> FrameTooLarge
    BY <1>1 DEF SyncAt, HeaderComplete, FrameSize, FrameTooLarge
  <2> QED
    BY <1>1, <2>1, <2>5, <2>6 DEF ResidueIsPartial
<1> QED
  BY <1>3, <1>4, <1>5

\* When drain() returns it has left no complete message behind, and a candidate
\* that waits is shorter than the largest frame: the caller's overflow check
\* cannot throw away a frame that is being received.
THEOREM ResiduePartial == Spec => []ResidueIsPartial
<1>1. ASSUME IInv, ResidueIsPartial, [Next]_vars
      PROVE  ResidueIsPartial'
  <2>1. CASE Receive
    BY <2>1 DEF Receive, Append_, ResidueIsPartial
  <2>2. CASE Drain
    <3>1. CASE DrainDone \/ CandidateWaits \/ HoldPartial
      BY <1>1, <2>2, <3>1, LastTurnLeavesPartial DEF Drain
    <3>2. CASE ~ (DrainDone \/ CandidateWaits \/ HoldPartial)
      <4>1. pc' = "draining"
        BY <2>2, <3>2 DEF Drain, AsciiOnlyLine, LineBeforeSync, ExtractLine, EmitFrame,
           RejectTooLarge, RejectBadCrc, RejectCandidate, AtCandidate, SkipToSync, DropByte,
           NothingFound
      <4> QED
        BY <4>1 DEF ResidueIsPartial
    <3> QED
      BY <3>1, <3>2
  <2>3. CASE Clear
    <3>1. buffer' = <<>> /\ enable_binary' = enable_binary /\ enable_binary \in BOOLEAN
      BY <1>1, <2>3 DEF Clear, options, IInv, TypeOK
    <3>2. Len(buffer') = 0
      BY <3>1
    <3>3. NoNewline' /\ NoSync'
      BY <3>2 DEF NoNewline, NoSync
    <3> QED
      BY <3>1, <3>3 DEF ResidueIsPartial
  <2>4. CASE UNCHANGED vars
    BY <1>1, <2>4 DEF vars, options, ResidueIsPartial, NoNewline, NoSync, SyncAt, HeaderComplete,
       FrameSize, FrameTooLarge
  <2> QED
    BY <1>1, <2>1, <2>2, <2>3, <2>4 DEF Next
<1>2. Init => ResidueIsPartial
  <2> SUFFICES ASSUME Init PROVE ResidueIsPartial
    OBVIOUS
  <2>1. buffer = <<>> /\ Len(buffer) = 0 /\ enable_binary \in BOOLEAN
    BY InitIInv DEF Init, IInv, TypeOK
  <2>2. NoNewline /\ NoSync
    BY <2>1 DEF NoNewline, NoSync
  <2> QED
    BY <2>1, <2>2 DEF ResidueIsPartial
<1> QED
  BY <1>1, <1>2, TransportInvariant, PTL DEF Spec

\* The bytes from position i to the end of the buffer are those a sync begins with.
SyncBegins(i) ==
    \A k \in 1..Len(BinarySync) :
        i + k - 1 <= Len(buffer) => buffer[i + k - 1] = BinarySync[k]

\* A buffer that drain() leaves above the limit of poll_serial is a text that
\* does not end: with a limit that is neither below the largest frame nor below
\* the smallest (the code takes the larger of 8192 and twice the largest), the
\* clear() that follows throws away no line that has ended, and of a frame at
\* most a part of the sync, at the very end, that is not yet complete.  (The
\* frame that begins there is lost with it: its other bytes are then noise.)
THEOREM OverflowIsText ==
    ASSUME NEW Limit \in Nat, Limit >= MinFrame, Limit >= binary_max_frame_size
    PROVE  Spec => [](pc = "idle" /\ Len(buffer) > Limit =>
                         /\ NoNewline
                         /\ enable_binary =>
                              \A i \in 1..Len(buffer) : SyncBegins(i) =>
                                  Len(buffer) - i + 1 < Len(BinarySync))
<1> DEFINE PartOfSync ==
        \A i \in 1..Len(buffer) : SyncBegins(i) => Len(buffer) - i + 1 < Len(BinarySync)
<1>1. ASSUME TypeOK, ResidueIsPartial, pc = "idle", Len(buffer) > Limit
      PROVE  NoNewline /\ (enable_binary => PartOfSync)
  <2>1. Len(buffer) \in Nat /\ binary_max_frame_size \in Nat /\ MinFrame \in Nat
    BY <1>1, LenProperties, SizesAssumption DEF TypeOK, MinFrame
  <2>2. ~ (Len(buffer) < MinFrame) /\ ~ (Len(buffer) < binary_max_frame_size)
    BY <1>1, <2>1
  <2>3. NoNewline /\ (enable_binary => NoSync)
    BY <1>1, <2>2, Zenon DEF ResidueIsPartial
  <2>4. ASSUME NoSync, NEW i \in 1..Len(buffer), SyncBegins(i)
        PROVE  Len(buffer) - i + 1 < Len(BinarySync)
    <3>1. Len(BinarySync) \in Nat
      BY BytesAssumption, LenProperties
    <3>2. SUFFICES ASSUME i + Len(BinarySync) - 1 <= Len(buffer) PROVE FALSE
      BY <2>1, <3>1
    <3>3. \A k \in 1..Len(BinarySync) : buffer[i + k - 1] = BinarySync[k]
      BY <2>1, <2>4, <3>1, <3>2 DEF SyncBegins
    <3> QED
      BY <2>4, <3>2, <3>3 DEF NoSync, SyncAt
  <2> QED
    BY <2>3, <2>4
<1>2. TypeOK /\ ResidueIsPartial =>
         (pc = "idle" /\ Len(buffer) > Limit => NoNewline /\ (enable_binary => PartOfSync))
  BY <1>1
<1> QED
  BY <1>2, TypeCorrect, ResiduePartial, PTL

-----------------------------------------------------------------------------
(* ASCII mode: the lines do not depend on the reads *)

\* All lines of the bytes taken so far have come out, and the next one begins
\* where they end.
AsciiInv ==
    ~ enable_binary =>
        /\ consumed = origin \/ (consumed > origin /\ received[consumed] = Newline)
        /\ \A k \in 1..Len(events) : events[k].at >= origin =>
              TextLine(events[k].at, events[k].at + events[k].size)
        /\ \A at, end \in origin..consumed : TextLine(at, end) =>
              \E k \in 1..Len(events) : events[k].at = at /\ events[k].size = end - at

\* Numbers that the arguments below count with.
LEMMA Counts ==
    ASSUME IInv
    PROVE  /\ consumed \in Nat /\ Len(buffer) \in Nat /\ Len(received) \in Nat
           /\ consumed + Len(buffer) = Len(received) /\ origin \in Nat
           /\ \A i \in 1..Len(buffer) : buffer[i] = received[consumed + i]
           /\ Len(events) \in Nat
           /\ \A k \in 1..Len(events) :
                 /\ events[k].at \in Nat /\ events[k].size \in Nat
                 /\ events[k].at + events[k].size <= consumed
  BY LenProperties, EventTypes DEF IInv, TypeOK, BufferIsStreamSuffix, EventsDisjoint

\* A turn of drain() only takes bytes from the front of the buffer.
LEMMA DrainTakes ==
    ASSUME IInv, Drain
    PROVE  /\ UNCHANGED <<options, received, origin>>
           /\ \/ UNCHANGED <<buffer, consumed>>
              \/ \E n \in 1..Len(buffer) : EraseFront(n)
           /\ consumed' \in Nat /\ consumed <= consumed'
<1>1. UNCHANGED <<options, received, origin>>
  BY DEF Drain, AsciiOnlyLine, DrainDone, CandidateWaits, RejectTooLarge, RejectBadCrc, EmitFrame,
     LineBeforeSync, SkipToSync, HoldPartial, DropByte, ExtractLine, RejectCandidate, history
<1>2. UNCHANGED <<buffer, consumed>> \/ \E n \in 1..Len(buffer) : EraseFront(n)
  <2>1. CASE AsciiOnlyLine
    BY <2>1 DEF AsciiOnlyLine, ExtractLine
  <2>2. CASE LineBeforeSync
    BY <2>2 DEF LineBeforeSync, ExtractLine
  <2>3. CASE DrainDone \/ CandidateWaits \/ HoldPartial
    BY <2>3 DEF DrainDone, CandidateWaits, HoldPartial
  <2>4. CASE SkipToSync
    <3>1. PICK i \in 2..Len(buffer) : EraseFront(i - 1)
      BY <2>4 DEF SkipToSync
    <3>2. i - 1 \in 1..Len(buffer)
      BY Counts
    <3> QED
      BY <3>1, <3>2
  <2>5. CASE DropByte \/ RejectTooLarge \/ RejectBadCrc
    <3>1. 1 \in 1..Len(buffer)
      <4>1. Len(buffer) # 0
        <5>1. buffer \in Seq(Byte)
          BY DEF IInv, TypeOK
        <5>2. CASE DropByte
          BY <5>1, <5>2, EmptySeq DEF DropByte, NothingFound
        <5>3. CASE RejectTooLarge \/ RejectBadCrc
          BY <5>3, BytesAssumption, LenProperties, Counts
             DEF RejectTooLarge, RejectBadCrc, AtCandidate, SyncAt
        <5> QED
          BY <2>5, <5>2, <5>3
      <4> QED
        BY <4>1, Counts
    <3> QED
      BY <2>5, <3>1 DEF DropByte, RejectTooLarge, RejectBadCrc, RejectCandidate
  <2>6. CASE EmitFrame
    BY <2>6, CompleteCandidate DEF EmitFrame, AtCandidate
  <2> QED
    BY <2>1, <2>2, <2>3, <2>4, <2>5, <2>6 DEF Drain
<1>3. consumed' \in Nat /\ consumed <= consumed'
  BY <1>2, Counts DEF EraseFront
<1> QED
  BY <1>1, <1>2, <1>3

\* What a line is does not change when the stream grows behind it.
LEMMA TextLineStable ==
    ASSUME origin \in Nat, origin' = origin, Len(received) \in Nat,
           \A i \in 1..Len(received) : received'[i] = received[i],
           NEW at \in Nat, NEW end \in Nat, origin <= at, end <= Len(received)
    PROVE  TextLine(at, end)' <=> TextLine(at, end)
<1>1. CASE ~ (at < end)
  BY <1>1 DEF TextLine
<1>2. CASE at < end
  <2>1. at > origin => received'[at] = received[at]
    BY <1>2
  <2>2. received'[end] = received[end] /\ received'[at + 1] = received[at + 1]
    BY <1>2
  <2>3. \A i \in (at + 1)..(end - 1) : received'[i] = received[i]
    BY <1>2
  <2> QED
    BY <2>1, <2>2, <2>3 DEF TextLine
<1> QED
  BY <1>1, <1>2

\* The text before a newline is empty, or a carriage return alone, or a line.
LEMMA BlankLine ==
    ASSUME buffer \in Seq(Byte), NEW n \in 1..Len(buffer)
    PROVE  LineBefore(n) = <<>> <=> n = 1 \/ (n = 2 /\ buffer[1] = CarriageReturn)
<1>1. Len(buffer) \in Nat /\ \A i \in 1..Len(buffer) : buffer[i] \in Byte
  BY LenProperties, ElementOfSeq
<1>2. ASSUME NEW m \in 0..Len(buffer)
      PROVE  SubSeq(buffer, 1, m) = <<>> <=> m = 0
  <2>1. /\ SubSeq(buffer, 1, m) \in Seq(Byte)
        /\ Len(SubSeq(buffer, 1, m)) = IF 1 <= m THEN m - 1 + 1 ELSE 0
    BY <1>1, SubSeqProperties
  <2>2. CASE m = 0
    BY <2>1, <2>2, EmptySeq
  <2>3. CASE m # 0
    <3>1. Len(SubSeq(buffer, 1, m)) = m
      BY <1>1, <2>1, <2>3
    <3> QED
      BY <2>3, <3>1, EmptySeq
  <2> QED
    BY <2>2, <2>3
<1>3. CASE n = 1
  BY <1>1, <1>2, <1>3 DEF LineBefore
<1>4. CASE n > 1 /\ buffer[n - 1] = CarriageReturn
  <2>1. n - 2 \in 0..Len(buffer) /\ (n - 2 = 0 <=> n = 2) /\ (n = 2 => n - 1 = 1)
    BY <1>1, <1>4
  <2>2. LineBefore(n) = SubSeq(buffer, 1, n - 2)
    BY <1>4 DEF LineBefore
  <2> QED
    BY <1>2, <1>4, <2>1, <2>2
<1>5. CASE n > 1 /\ buffer[n - 1] # CarriageReturn
  <2>1. n - 1 \in 0..Len(buffer) /\ n - 1 # 0 /\ (n = 2 => n - 1 = 1)
    BY <1>1, <1>5
  <2>2. LineBefore(n) = SubSeq(buffer, 1, n - 1)
    BY <1>5 DEF LineBefore
  <2> QED
    BY <1>2, <1>5, <2>1, <2>2
<1> QED
  BY <1>1, <1>3, <1>4, <1>5

\* Taking a line off the front takes the next line of the stream.
LEMMA AsciiLineStep ==
    ASSUME IInv, origin <= consumed, AsciiInv, AsciiOnlyLine, UNCHANGED options
    PROVE  AsciiInv'
<1>1. PICK n \in 1..Len(buffer) : ExtractLine(n)
  BY DEF AsciiOnlyLine
<1>2. /\ ~ enable_binary /\ enable_binary' = enable_binary
      /\ received' = received /\ origin' = origin /\ consumed' = consumed + n
      /\ buffer[n] = Newline /\ \A j \in 1..(n - 1) : buffer[j] # Newline
  BY <1>1 DEF AsciiOnlyLine, options, ExtractLine, EraseFront, FirstNewlineAt, history
<1>3. buffer \in Seq(Byte) /\ events \in Seq(Event)
  BY DEF IInv, TypeOK
<1>4. /\ received[consumed + n] = Newline /\ n \in Nat
      /\ \A i \in (consumed + 1)..(consumed + n - 1) : received[i] # Newline
  <2>1. received[consumed + n] = Newline
    BY <1>2, Counts
  <2>2. ASSUME NEW i \in (consumed + 1)..(consumed + n - 1)
        PROVE  received[i] # Newline
    <3>1. /\ i - consumed \in 1..(n - 1) /\ i - consumed \in 1..Len(buffer)
          /\ consumed + (i - consumed) = i
      BY Counts
    <3>2. buffer[i - consumed] = received[consumed + (i - consumed)]
      BY <3>1, Counts
    <3> QED
      BY <1>2, <3>1, <3>2
  <2> QED
    BY <2>1, <2>2, Counts
<1>5. \A at, end : TextLine(at, end)' <=> TextLine(at, end)
  BY <1>2 DEF TextLine
<1>6. /\ consumed = origin \/ (consumed > origin /\ received[consumed] = Newline)
      /\ consumed \in Nat /\ origin \in Nat
  BY <1>2, Counts DEF AsciiInv
<1>7. TextLine(consumed, consumed + n) <=> LineBefore(n) # <<>>
  <2>1. buffer[1] = received[consumed + 1]
    BY Counts
  <2>2. /\ consumed < consumed + n /\ (consumed + n = consumed + 1 <=> n = 1)
        /\ (consumed + n = consumed + 2 <=> n = 2)
    BY <1>4, <1>6
  <2>3. LineBefore(n) = <<>> <=> n = 1 \/ (n = 2 /\ buffer[1] = CarriageReturn)
    BY <1>3, BlankLine
  <2> QED
    BY <1>4, <1>6, <2>1, <2>2, <2>3 DEF TextLine
<1>8. \A at, end \in origin..(consumed + n) :
         TextLine(at, end) /\ end > consumed => at = consumed /\ end = consumed + n
  <2> SUFFICES ASSUME NEW at \in origin..(consumed + n), NEW end \in origin..(consumed + n),
                      TextLine(at, end), end > consumed
               PROVE  at = consumed /\ end = consumed + n
    OBVIOUS
  <2>1. /\ at = origin \/ (at > origin /\ received[at] = Newline)
        /\ at < end /\ received[end] = Newline
        /\ \A i \in (at + 1)..(end - 1) : received[i] # Newline
    BY DEF TextLine
  <2>2. end = consumed + n
    <3>1. ~ (end \in (consumed + 1)..(consumed + n - 1))
      BY <1>4, <2>1
    <3> QED
      BY <1>4, <1>6, <3>1
  <2>3. ~ (at < consumed)
    <3> SUFFICES ASSUME at < consumed PROVE FALSE
      OBVIOUS
    <3>1. consumed > origin /\ consumed \in (at + 1)..(end - 1)
      BY <1>4, <1>6, <2>2
    <3> QED
      BY <1>6, <2>1, <3>1
  <2>4. ~ (at > consumed)
    <3> SUFFICES ASSUME at > consumed PROVE FALSE
      OBVIOUS
    <3>1. at # origin /\ at \in (consumed + 1)..(consumed + n - 1)
      BY <1>4, <1>6, <2>1, <2>2
    <3> QED
      BY <1>4, <2>1, <3>1
  <2> QED
    BY <1>4, <1>6, <2>2, <2>3, <2>4
<1>9. /\ \A k \in 1..Len(events) : events[k].at >= origin =>
            TextLine(events[k].at, events[k].at + events[k].size)
      /\ \A at, end \in origin..consumed : TextLine(at, end) =>
            \E k \in 1..Len(events) : events[k].at = at /\ events[k].size = end - at
  BY <1>2 DEF AsciiInv
<1>10. consumed' > origin' /\ received'[consumed'] = Newline
  BY <1>2, <1>4, <1>6
<1>11. \A at, end \in origin..(consumed + n) : TextLine(at, end) =>
          \/ at = consumed /\ end = consumed + n
          \/ at \in origin..consumed /\ end \in origin..consumed
  <2> SUFFICES ASSUME NEW at \in origin..(consumed + n), NEW end \in origin..(consumed + n),
                      TextLine(at, end), ~ (end > consumed)
               PROVE  at \in origin..consumed /\ end \in origin..consumed
    BY <1>8
  <2>1. at < end
    BY DEF TextLine
  <2> QED
    BY <1>4, <1>6, <2>1
<1>12. CASE LineBefore(n) = <<>>
  <2>1. events' = events
    BY <1>1, <1>12 DEF ExtractLine
  <2>2. \A at, end \in origin..(consumed + n) : TextLine(at, end) =>
           at \in origin..consumed /\ end \in origin..consumed
    BY <1>7, <1>11, <1>12
  <2> QED
    BY <1>2, <1>5, <1>9, <1>10, <2>1, <2>2 DEF AsciiInv
<1>13. CASE LineBefore(n) # <<>>
  <2>1. events' = Append(events, LineEvent(n))
    BY <1>1, <1>13 DEF ExtractLine
  <2>2. LineEvent(n).at = consumed /\ LineEvent(n).size = n
    BY DEF LineEvent
  <2>3. /\ Len(events') = Len(events) + 1 /\ events'[Len(events) + 1] = LineEvent(n)
        /\ \A k \in 1..Len(events) : events'[k] = events[k]
    <3>1. /\ events \in Seq(Event \cup {LineEvent(n)})
          /\ LineEvent(n) \in Event \cup {LineEvent(n)}
      BY <1>3, SeqMonotonic
    <3> QED
      BY <2>1, <3>1, AppendProperties
  <2> HIDE DEF LineEvent
  <2>4. /\ Len(events) + 1 \in 1..Len(events')
        /\ \A k \in 1..Len(events) : k \in 1..Len(events')
        /\ \A k \in 1..Len(events') : k \in 1..Len(events) \/ k = Len(events) + 1
    <3>1. Len(events) \in Nat /\ Len(events') = Len(events) + 1
      BY <2>3, Counts
    <3> QED
      BY <3>1
  <2>6. ASSUME NEW k \in 1..Len(events'), events'[k].at >= origin
        PROVE  TextLine(events'[k].at, events'[k].at + events'[k].size)
    BY <1>7, <1>9, <1>13, <2>2, <2>3, <2>4, <2>6
  <2>7. ASSUME NEW at \in origin..(consumed + n), NEW end \in origin..(consumed + n),
               TextLine(at, end)
        PROVE  \E k \in 1..Len(events') : events'[k].at = at /\ events'[k].size = end - at
    <3>1. CASE at = consumed /\ end = consumed + n
      <4>1. end - at = n
        BY <1>4, <1>6, <3>1
      <4> QED
        BY <2>2, <2>3, <2>4, <3>1, <4>1
    <3>2. CASE at \in origin..consumed /\ end \in origin..consumed
      <4>1. PICK k \in 1..Len(events) : events[k].at = at /\ events[k].size = end - at
        BY <1>9, <2>7, <3>2
      <4> QED
        BY <2>3, <2>4, <4>1
    <3> QED
      BY <1>11, <2>7, <3>1, <3>2
  <2> QED
    BY <1>2, <1>5, <1>10, <2>6, <2>7 DEF AsciiInv
<1> QED
  BY <1>12, <1>13

\* More bytes change no line that has come out.
LEMMA AsciiReceiveStep ==
    ASSUME IInv, origin <= consumed, AsciiInv, Receive
    PROVE  AsciiInv'
<1>1. PICK chunk \in Chunk : Append_(chunk)
  BY DEF Receive
<1>2. /\ received' = received \o chunk /\ origin' = origin /\ consumed' = consumed
      /\ events' = events /\ enable_binary' = enable_binary
  BY <1>1 DEF Append_, options
<1>3. \A i \in 1..Len(received) : received'[i] = received[i]
  <2>1. received \in Seq(Byte) /\ chunk \in Seq(Byte)
    BY ChunkAssumption DEF IInv, TypeOK
  <2> QED
    BY <1>2, <2>1, ConcatProperties
<1>4. /\ consumed \in Nat /\ origin \in Nat /\ Len(received) \in Nat
      /\ consumed <= Len(received)
      /\ \A k \in 1..Len(events) :
            /\ events[k].at \in Nat /\ events[k].size \in Nat
            /\ events[k].at + events[k].size <= consumed
  BY Counts
<1>5. \A at, end \in Nat : origin <= at /\ end <= Len(received) =>
         (TextLine(at, end)' <=> TextLine(at, end))
  BY <1>2, <1>3, <1>4, TextLineStable
<1>6. CASE enable_binary
  BY <1>2, <1>6 DEF AsciiInv
<1>7. CASE ~ enable_binary
  <2>1. consumed' = origin' \/ (consumed' > origin' /\ received'[consumed'] = Newline)
    BY <1>2, <1>3, <1>4, <1>7 DEF AsciiInv
  <2>2. ASSUME NEW k \in 1..Len(events'), events'[k].at >= origin'
        PROVE  TextLine(events[k].at, events[k].at + events[k].size)'
    <3>1. /\ k \in 1..Len(events) /\ events[k].at >= origin
          /\ events[k].at \in Nat /\ events[k].at + events[k].size \in Nat
      BY <1>2, <1>4, <2>2
    <3>2. events[k].at + events[k].size <= Len(received)
      BY <1>4, <3>1
    <3>3. PICK at \in Nat, end \in Nat :
             at = events[k].at /\ end = events[k].at + events[k].size
      BY <3>1
    <3>4. TextLine(at, end)
      BY <1>7, <3>1, <3>3 DEF AsciiInv
    <3>5. TextLine(at, end)'
      BY <1>5, <3>1, <3>2, <3>3, <3>4
    <3> QED
      BY <1>2, <3>3, <3>5
  <2>3. ASSUME NEW at \in origin'..consumed', NEW end \in origin'..consumed', TextLine(at, end)'
        PROVE  \E k \in 1..Len(events') : events'[k].at = at /\ events'[k].size = end - at
    <3>1. /\ at \in origin..consumed /\ end \in origin..consumed
          /\ at \in Nat /\ end \in Nat /\ origin <= at /\ end <= Len(received)
      BY <1>2, <1>4
    <3>2. TextLine(at, end)
      BY <1>5, <2>3, <3>1
    <3> QED
      BY <1>2, <1>7, <3>1, <3>2 DEF AsciiInv
  <2> QED
    BY <2>1, <2>2, <2>3 DEF AsciiInv
<1> QED
  BY <1>6, <1>7

\* clear() starts a new stream: no line before it is counted any more.
LEMMA AsciiClearStep ==
    ASSUME IInv, origin <= consumed, AsciiInv, Clear
    PROVE  AsciiInv'
<1>1. /\ origin' = Len(received) /\ consumed' = consumed + Len(buffer)
      /\ events' = events /\ received' = received /\ enable_binary' = enable_binary
  BY DEF Clear, options
<1>2. /\ consumed \in Nat /\ origin \in Nat /\ Len(received) \in Nat
      /\ consumed + Len(buffer) = Len(received) /\ Len(buffer) \in Nat
      /\ \A k \in 1..Len(events) :
            /\ events[k].at \in Nat /\ events[k].size \in Nat
            /\ events[k].at + events[k].size <= consumed
  BY Counts
<1>3. \A at, end : TextLine(at, end) => at < end
  BY DEF TextLine
<1>4. ASSUME ~ enable_binary, NEW k \in 1..Len(events), events[k].at >= origin'
      PROVE  FALSE
  <2>1. events[k].at >= origin
    BY <1>1, <1>2, <1>4
  <2>2. events[k].at < events[k].at + events[k].size
    BY <1>3, <1>4, <2>1 DEF AsciiInv
  <2> QED
    BY <1>1, <1>2, <1>4, <2>2
<1>5. \A at, end \in origin'..consumed' : ~ TextLine(at, end)'
  <2>1. \A at, end : TextLine(at, end)' => at < end
    BY DEF TextLine
  <2>2. \A at, end \in origin'..consumed' : ~ (at < end)
    BY <1>1, <1>2
  <2> QED
    BY <2>1, <2>2
<1> QED
  BY <1>1, <1>2, <1>4, <1>5 DEF AsciiInv

\* A step that touches neither the stream nor the events keeps the lines right.
LEMMA SameLines ==
    ASSUME AsciiInv, UNCHANGED <<consumed, origin, received, events, enable_binary>>
    PROVE  AsciiInv'
<1>1. \A at, end : TextLine(at, end)' <=> TextLine(at, end)
  BY DEF TextLine
<1>2. ASSUME ~ enable_binary
      PROVE  AsciiInv'
  <2>1. /\ consumed = origin \/ (consumed > origin /\ received[consumed] = Newline)
        /\ \A k \in 1..Len(events) : events[k].at >= origin =>
              TextLine(events[k].at, events[k].at + events[k].size)
        /\ \A at, end \in origin..consumed : TextLine(at, end) =>
              \E k \in 1..Len(events) : events[k].at = at /\ events[k].size = end - at
    BY <1>2 DEF AsciiInv
  <2> QED
    BY <1>1, <2>1 DEF AsciiInv
<1>3. CASE enable_binary
  BY <1>3 DEF AsciiInv
<1> QED
  BY <1>2, <1>3

\* origin is never ahead of what has left the buffer, and the lines are right at
\* every turn.
LEMMA AsciiStep ==
    ASSUME IInv, IInv', origin <= consumed, AsciiInv, [Next]_vars
    PROVE  origin' <= consumed' /\ AsciiInv'
<1>1. consumed \in Nat /\ origin \in Nat /\ Len(buffer) \in Nat
  BY Counts
<1>2. CASE Receive
  BY <1>2, AsciiReceiveStep DEF Receive, Append_
<1>3. CASE Clear
  <2>1. origin' <= consumed'
    BY <1>3, Counts DEF Clear
  <2> QED
    BY <1>3, <2>1, AsciiClearStep
<1>4. CASE Drain
  <2>1. enable_binary' = enable_binary /\ UNCHANGED options
    BY <1>4 DEF Drain, options
  <2>2. /\ origin' = origin /\ consumed' \in Nat /\ consumed <= consumed'
    BY <1>4, DrainTakes
  <2>3. CASE AsciiOnlyLine
    BY <1>1, <2>1, <2>2, <2>3, AsciiLineStep
  <2>4. CASE enable_binary
    BY <1>1, <2>1, <2>2, <2>4 DEF AsciiInv
  <2>5. CASE DrainDone
    <3>1. UNCHANGED <<consumed, origin, received, events, enable_binary>>
      BY <2>1, <2>5 DEF DrainDone, history
    <3> QED
      BY <1>1, <3>1, SameLines
  <2> QED
    BY <1>4, <2>3, <2>4, <2>5 DEF Drain, CandidateWaits, RejectTooLarge, RejectBadCrc, EmitFrame,
       AtCandidate, LineBeforeSync, SkipToSync, HoldPartial, DropByte, NothingFound
<1>5. CASE UNCHANGED vars
  BY <1>1, <1>5, SameLines DEF vars, options, history
<1> QED
  BY <1>2, <1>3, <1>4, <1>5 DEF Next

\* In ASCII mode the lines that come out are those of the stream, however the
\* reads cut it.
THEOREM LinesOfTheStream == Spec => []LinesIndependentOfReads
<1>1. IInv /\ ResidueIsPartial /\ origin <= consumed /\ AsciiInv => LinesIndependentOfReads
  <2> SUFFICES ASSUME IInv, ResidueIsPartial, origin <= consumed, AsciiInv,
                      pc = "idle", ~ enable_binary
               PROVE  LinesIndependentOfReads
    BY DEF LinesIndependentOfReads
  <2>1. NoNewline
    BY DEF ResidueIsPartial
  <2>2. ASSUME NEW at \in origin..Len(received), NEW end \in origin..Len(received),
               TextLine(at, end)
        PROVE  at \in origin..consumed /\ end \in origin..consumed
    <3>1. at < end /\ received[end] = Newline
      BY <2>2 DEF TextLine
    <3>2. ~ (end > consumed)
      <4> SUFFICES ASSUME end > consumed PROVE FALSE
        OBVIOUS
      <4>1. end - consumed \in 1..Len(buffer) /\ consumed + (end - consumed) = end
        BY Counts
      <4>2. buffer[end - consumed] = received[consumed + (end - consumed)]
        BY <4>1, Counts
      <4> QED
        BY <2>1, <3>1, <4>1, <4>2 DEF NoNewline
    <3> QED
      BY <3>1, <3>2, Counts
  <2> QED
    BY <2>2 DEF AsciiInv, LinesIndependentOfReads
<1>2. Init => origin <= consumed /\ AsciiInv
  <2> SUFFICES ASSUME Init PROVE origin <= consumed /\ AsciiInv
    OBVIOUS
  <2>1. origin = 0 /\ consumed = 0 /\ events = <<>>
    BY DEF Init
  <2>2. Len(events) = 0 /\ \A at, end \in origin..consumed : ~ (at < end)
    BY <2>1
  <2> QED
    BY <2>1, <2>2 DEF AsciiInv, TextLine
<1>3. IInv /\ IInv' /\ (origin <= consumed /\ AsciiInv) /\ [Next]_vars
        => (origin <= consumed /\ AsciiInv)'
  BY AsciiStep
<1> QED
  BY <1>1, <1>2, <1>3, TransportInvariant, ResiduePartial, PTL DEF Spec

-----------------------------------------------------------------------------
(* Binary mode: the frames do not depend on the reads *)

\* The stream shows that no frame is behind its first `at` bytes, whatever is
\* received later: a byte that is not the sync's, a size above the limit, or a
\* wrong CRC in strict mode.
Refuted(at) ==
    \/ \E k \in 1..Len(BinarySync) : at + k <= Len(received) /\ received[at + k] # BinarySync[k]
    \/ SyncBehind(at) /\ HeaderBehind(at) /\ SizeBehind(at) > binary_max_frame_size
    \/ /\ SyncBehind(at) /\ HeaderBehind(at) /\ SizeBehind(at) <= binary_max_frame_size
       /\ at + SizeBehind(at) <= Len(received)
       /\ strict_binary_crc /\ ~ CrcValid(SubSeq(received, at + 1, at + SizeBehind(at)))

Decided(at) == at \in FramesEmitted \/ Inside(at, FramesEmitted) \/ Refuted(at)

\* Every position that has left the buffer is that of a frame, or is inside one,
\* or is refuted for good.
ScanInv == origin <= consumed /\ (enable_binary => \A at \in origin..(consumed - 1) : Decided(at))

\* The header that the stream shows, with its numbers.
LEMMA HeaderNumbers ==
    ASSUME received \in Seq(Byte), NEW at \in Nat, HeaderBehind(at)
    PROVE  /\ MinFrame \in Nat /\ LengthAt \in 1..MinFrame
           /\ at + LengthAt \in 1..Len(received) /\ at + LengthAt <= at + MinFrame
           /\ SizeBehind(at) \in Nat \ {0} /\ SizeBehind(at) >= MinFrame
<1>1. Len(received) \in Nat /\ \A i \in 1..Len(received) : received[i] \in Byte
  BY LenProperties, ElementOfSeq
<1>2. MinFrame \in Nat /\ LengthAt \in 1..MinFrame
  <2>1. Len(BinarySync) \in Nat
    BY BytesAssumption, LenProperties
  <2> QED
    BY <2>1, SizesAssumption DEF MinFrame
<1>3. at + LengthAt \in 1..Len(received) /\ at + LengthAt <= at + MinFrame
  BY <1>1, <1>2 DEF HeaderBehind
<1>4. LengthOf(received[at + LengthAt]) \in Nat
  BY <1>1, <1>3, BytesAssumption
<1> QED
  BY <1>2, <1>3, <1>4 DEF SizeBehind

\* What is refuted is not accepted, and does not wait.
LEMMA RefutedIsDecided ==
    ASSUME received \in Seq(Byte), NEW at \in Nat, Refuted(at)
    PROVE  ~ Accepted(at) /\ ~ Undecided(at)
<1>1. CASE \E k \in 1..Len(BinarySync) :
              at + k <= Len(received) /\ received[at + k] # BinarySync[k]
  BY <1>1 DEF Accepted, Undecided, SyncBehind
<1>2. CASE SyncBehind(at) /\ HeaderBehind(at) /\ SizeBehind(at) > binary_max_frame_size
  <2>1. SizeBehind(at) \in Nat
    BY <1>2, HeaderNumbers
  <2>2. ~ (SizeBehind(at) <= binary_max_frame_size)
    BY <1>2, <2>1, SizesAssumption
  <2> QED
    BY <1>2, <2>2 DEF Accepted, Undecided
<1>3. CASE /\ HeaderBehind(at) /\ at + SizeBehind(at) <= Len(received)
           /\ strict_binary_crc /\ ~ CrcValid(SubSeq(received, at + 1, at + SizeBehind(at)))
  <2>1. SizeBehind(at) \in Nat /\ Len(received) \in Nat
    BY <1>3, HeaderNumbers, LenProperties
  <2>2. ~ (at + SizeBehind(at) > Len(received))
    BY <1>3, <2>1
  <2> QED
    BY <1>3, <2>2 DEF Accepted, Undecided
<1> QED
  BY <1>1, <1>2, <1>3 DEF Refuted

\* A refutation stands when the stream grows.
LEMMA RefutedStays ==
    ASSUME received \in Seq(Byte), received' \in Seq(Byte), Len(received) <= Len(received'),
           \A i \in 1..Len(received) : received'[i] = received[i],
           strict_binary_crc' = strict_binary_crc,
           NEW at \in Nat, Refuted(at)
    PROVE  Refuted(at)'
<1>1. Len(received) \in Nat /\ Len(received') \in Nat /\ Len(BinarySync) \in Nat
  BY BytesAssumption, LenProperties
<1>2. CASE \E k \in 1..Len(BinarySync) :
              at + k <= Len(received) /\ received[at + k] # BinarySync[k]
  <2>1. PICK k \in 1..Len(BinarySync) :
           at + k <= Len(received) /\ received[at + k] # BinarySync[k]
    BY <1>2
  <2>2. at + k \in 1..Len(received) /\ at + k <= Len(received')
    BY <1>1, <2>1
  <2> QED
    BY <2>1, <2>2 DEF Refuted
<1>3. CASE SyncBehind(at) /\ HeaderBehind(at)
  <2>1. SyncBehind(at)'
    <3>1. /\ at + Len(BinarySync) <= Len(received)
          /\ \A k \in 1..Len(BinarySync) : received[at + k] = BinarySync[k]
      BY <1>3 DEF SyncBehind
    <3>2. \A k \in 1..Len(BinarySync) : at + k \in 1..Len(received)
      BY <1>1, <3>1
    <3>3. at + Len(BinarySync) <= Len(received')
      BY <1>1, <3>1
    <3> QED
      BY <3>1, <3>2, <3>3 DEF SyncBehind
  <2>2. /\ at + LengthAt \in 1..Len(received)
        /\ SizeBehind(at) \in Nat \ {0} /\ MinFrame \in Nat
    BY <1>3, HeaderNumbers
  <2>3. SizeBehind(at)' = SizeBehind(at)
    BY <2>2 DEF SizeBehind
  <2>4. HeaderBehind(at)'
    BY <1>1, <1>3, <2>2 DEF HeaderBehind
  <2>5. CASE SizeBehind(at) > binary_max_frame_size
    <3>1. SizeBehind(at)' > binary_max_frame_size
      BY <2>3, <2>5
    <3> QED
      BY <2>1, <2>4, <3>1 DEF Refuted
  <2>6. CASE /\ SizeBehind(at) <= binary_max_frame_size
             /\ at + SizeBehind(at) <= Len(received)
             /\ strict_binary_crc /\ ~ CrcValid(SubSeq(received, at + 1, at + SizeBehind(at)))
    <3>1. PICK n \in Nat \ {0} : n = SizeBehind(at)
      BY <2>2
    <3>2. at + n <= Len(received) /\ at + n <= Len(received')
      BY <1>1, <2>6, <3>1
    <3>3. \A i \in (at + 1)..(at + n) : received[i] \in Byte
      BY <1>1, <3>2, ElementOfSeq
    <3>4. /\ SubSeq(received, at + 1, at + n) \in Seq(Byte)
          /\ Len(SubSeq(received, at + 1, at + n))
                = IF at + 1 <= at + n THEN (at + n) - (at + 1) + 1 ELSE 0
          /\ \A i \in 1..((at + n) - (at + 1) + 1) :
                SubSeq(received, at + 1, at + n)[i] = received[(at + 1) + i - 1]
      BY <3>3, SubSeqProperties
    <3>5. /\ (at + n) - (at + 1) + 1 = n /\ at + 1 <= at + n
          /\ \A i \in 1..n : (at + 1) + i - 1 = at + i /\ at + i \in 1..Len(received)
      BY <1>1, <3>2
    <3>6. PICK piece \in Seq(Byte) : piece = SubSeq(received, at + 1, at + n)
      BY <3>4
    <3>7. Len(piece) = n /\ \A i \in 1..n : piece[i] = received'[at + i]
      BY <3>4, <3>5, <3>6
    <3>8. SubSeq(received', at + 1, at + n) = piece
      BY <3>2, <3>7, PieceIs
    <3>9. ~ CrcValid(SubSeq(received', at + 1, at + SizeBehind(at)'))
      BY <2>3, <2>6, <3>1, <3>6, <3>8
    <3>10. at + SizeBehind(at)' <= Len(received') /\ SizeBehind(at)' <= binary_max_frame_size
      BY <2>3, <2>6, <3>1, <3>2
    <3> QED
      BY <2>1, <2>4, <2>6, <3>9, <3>10 DEF Refuted
  <2> QED
    BY <1>2, <2>5, <2>6 DEF Refuted
<1> QED
  BY <1>2, <1>3 DEF Refuted

\* What has been emitted as a frame is one by what the stream shows, and no
\* frame lies inside another.
LEMMA EmittedFrames ==
    ASSUME IInv, NEW f \in FramesEmitted
    PROVE  /\ f \in Nat /\ origin <= f
           /\ Accepted(f) /\ SizeBehind(f) \in Nat \ {0} /\ f + SizeBehind(f) <= consumed
           /\ ~ Inside(f, FramesEmitted)
<1>1. \A k \in 1..Len(events) : events[k].kind = "frame" =>
         events[k].size \in Nat /\ SizeBehind(events[k].at) = events[k].size
         /\ Accepted(events[k].at)
  <2> SUFFICES ASSUME NEW k \in 1..Len(events), events[k].kind = "frame"
               PROVE  /\ events[k].size \in Nat /\ SizeBehind(events[k].at) = events[k].size
                      /\ Accepted(events[k].at)
    OBVIOUS
  <2>1. PICK e \in Event : e = events[k]
    BY EventTypes DEF IInv
  <2>2. GenuineFrame(e, received, consumed, strict_binary_crc)
    BY <2>1 DEF IInv, FramesAreGenuine
  <2>3. e.at \in Nat /\ e.size \in Nat /\ e.bytes \in Seq(Byte)
    BY EventFields
  <2>4. /\ consumed \in Nat /\ Len(received) \in Nat /\ consumed <= Len(received)
        /\ received \in Seq(Byte) /\ Len(BinarySync) \in Nat
        /\ MinFrame \in Nat /\ LengthAt \in 1..MinFrame /\ Len(BinarySync) < LengthAt
    <3>1. Len(BinarySync) \in Nat
      BY BytesAssumption, LenProperties
    <3>2. MinFrame \in Nat /\ LengthAt \in 1..MinFrame
      BY <3>1, SizesAssumption DEF MinFrame
    <3> QED
      BY <3>1, <3>2, Counts, SizesAssumption DEF IInv, TypeOK
  <2>5. /\ e.at + e.size <= consumed /\ Len(e.bytes) = e.size
        /\ \A i \in 1..e.size : e.bytes[i] = received[e.at + i]
        /\ \A i \in 1..Len(BinarySync) : e.bytes[i] = BinarySync[i]
        /\ e.size >= MinFrame /\ e.size = MinFrame + LengthOf(e.bytes[LengthAt])
        /\ e.size <= binary_max_frame_size
        /\ strict_binary_crc => CrcValid(e.bytes)
    BY <2>2 DEF GenuineFrame
  <2>6. LengthAt \in 1..e.size /\ \A i \in 1..Len(BinarySync) : i \in 1..e.size
    BY <2>3, <2>4, <2>5
  <2>7. SizeBehind(e.at) = e.size
    BY <2>5, <2>6 DEF SizeBehind
  <2>8. SyncBehind(e.at)
    BY SMTT(30), <2>3, <2>4, <2>5, <2>6 DEF SyncBehind
  <2>9. HeaderBehind(e.at) /\ e.at + e.size <= Len(received)
    BY <2>3, <2>4, <2>5 DEF HeaderBehind
  <2>10. SubSeq(received, e.at + 1, e.at + e.size) = e.bytes
    <3>1. e.size \in Nat \ {0}
      BY <2>3, <2>4, <2>5
    <3> QED
      BY <2>3, <2>4, <2>5, <2>9, <3>1, PieceIs
  <2>11. Accepted(e.at)
    BY <2>5, <2>7, <2>8, <2>9, <2>10 DEF Accepted
  <2> QED
    BY <2>1, <2>3, <2>7, <2>11
<1>2. ASSUME NEW g \in FramesEmitted
      PROVE  \E k \in 1..Len(events) : events[k].kind = "frame" /\ events[k].at = g /\ g >= origin
  BY DEF FramesEmitted
<1>3. PICK k \in 1..Len(events) : events[k].kind = "frame" /\ events[k].at = f /\ f >= origin
  BY <1>2
<1>4. f \in Nat /\ origin <= f
  BY <1>3, Counts
<1>5. Accepted(f) /\ SizeBehind(f) \in Nat \ {0}
  <2>1. Accepted(f)
    BY <1>1, <1>3
  <2>2. HeaderBehind(f) /\ received \in Seq(Byte)
    BY <2>1 DEF Accepted, IInv, TypeOK
  <2> QED
    BY <1>4, <2>1, <2>2, HeaderNumbers
<1>6. f + SizeBehind(f) <= consumed
  BY <1>1, <1>3, Counts
<1>7. ~ Inside(f, FramesEmitted)
  <2> SUFFICES ASSUME NEW g \in FramesEmitted, g < f, f < g + SizeBehind(g)
               PROVE  FALSE
    BY DEF Inside
  <2>1. PICK l \in 1..Len(events) : events[l].kind = "frame" /\ events[l].at = g /\ g >= origin
    BY <1>2
  <2>2. /\ SizeBehind(g) = events[l].size /\ SizeBehind(f) = events[k].size
        /\ g \in Nat /\ events[l].size \in Nat /\ events[k].size \in Nat
    BY <1>1, <1>3, <2>1, Counts
  <2>3. /\ l < k => g + SizeBehind(g) <= f
        /\ k < l => f + SizeBehind(f) <= g
    BY <1>3, <2>1, <2>2 DEF IInv, EventsDisjoint
  <2>4. k = l => f = g
    BY <1>3, <2>1
  <2>5. Len(events) \in Nat
    BY Counts
  <2>6. l < k \/ k < l \/ k = l
    BY <2>5
  <2> QED
    BY <1>4, <2>2, <2>3, <2>4, <2>6
<1> QED
  BY <1>4, <1>5, <1>6, <1>7

\* What is decided stays decided while the stream and the frames only grow.
LEMMA DecidedStays ==
    ASSUME IInv, received' \in Seq(Byte), Len(received) <= Len(received'),
           \A i \in 1..Len(received) : received'[i] = received[i],
           strict_binary_crc' = strict_binary_crc,
           FramesEmitted \subseteq FramesEmitted',
           NEW at \in Nat, Decided(at)
    PROVE  Decided(at)'
<1>1. received \in Seq(Byte)
  BY DEF IInv, TypeOK
<1>2. CASE Refuted(at)
  BY <1>1, <1>2, RefutedStays DEF Decided
<1>3. CASE Inside(at, FramesEmitted)
  <2>1. PICK f \in FramesEmitted : f < at /\ at < f + SizeBehind(f)
    BY <1>3 DEF Inside
  <2>2. f \in Nat /\ HeaderBehind(f)
    BY EmittedFrames DEF Accepted
  <2>3. f + LengthAt \in 1..Len(received)
    BY <1>1, <2>2, HeaderNumbers
  <2>4. SizeBehind(f)' = SizeBehind(f)
    BY <2>3 DEF SizeBehind
  <2>5. f \in FramesEmitted' /\ f < at /\ at < f + SizeBehind(f)'
    BY <2>1, <2>4
  <2> QED
    BY <2>5 DEF Decided, Inside
<1>4. CASE at \in FramesEmitted
  BY <1>4 DEF Decided
<1> QED
  BY <1>2, <1>3, <1>4 DEF Decided

\* A turn that takes n bytes keeps the scan right if it decides all n positions.
LEMMA ScanGoesOn ==
    ASSUME IInv, ScanInv, enable_binary, NEW n \in 0..Len(buffer), EraseFront(n),
           UNCHANGED <<options, received, origin>>,
           FramesEmitted \subseteq FramesEmitted',
           \A at \in consumed..(consumed + n - 1) : Decided(at)'
    PROVE  ScanInv'
<1>1. consumed \in Nat /\ origin \in Nat /\ origin <= consumed /\ n \in Nat
  BY Counts DEF ScanInv
<1>2. consumed' = consumed + n /\ origin' = origin
  BY DEF EraseFront
<1>3. \A at \in origin..(consumed - 1) : Decided(at)'
  <2> SUFFICES ASSUME NEW at \in origin..(consumed - 1)
               PROVE  Decided(at)'
    OBVIOUS
  <2>1. at \in Nat /\ Decided(at)
    BY <1>1 DEF ScanInv
  <2>2. /\ received' \in Seq(Byte) /\ Len(received) <= Len(received')
        /\ \A i \in 1..Len(received) : received'[i] = received[i]
        /\ strict_binary_crc' = strict_binary_crc
    BY Counts DEF IInv, TypeOK, options
  <2> QED
    BY <2>1, <2>2, DecidedStays
<1>4. \A at \in origin..(consumed + n - 1) :
         at \in origin..(consumed - 1) \/ at \in consumed..(consumed + n - 1)
  BY <1>1
<1>5. origin' <= consumed' /\ \A at \in origin'..(consumed' - 1) : Decided(at)'
  BY <1>1, <1>2, <1>3, <1>4
<1> QED
  BY <1>5 DEF ScanInv

\* A byte of the buffer that is not the sync's refutes the position it would
\* belong to.
LEMMA NotSyncHere ==
    ASSUME IInv, NEW j \in 1..Len(buffer), NEW k \in 1..Len(BinarySync),
           j + k - 1 <= Len(buffer), buffer[j + k - 1] # BinarySync[k]
    PROVE  Refuted(consumed + j - 1)
<1>1. Len(BinarySync) \in Nat
  BY BytesAssumption, LenProperties
<1>2. j + k - 1 \in 1..Len(buffer) /\ (consumed + j - 1) + k = consumed + (j + k - 1)
  BY <1>1, Counts
<1>3. received[(consumed + j - 1) + k] = buffer[j + k - 1]
  BY <1>2, Counts
<1>4. (consumed + j - 1) + k <= Len(received)
  BY SMTT(30), <1>1, <1>2, Counts
<1> QED
  BY <1>3, <1>4 DEF Refuted

\* The candidate at the front, as the stream shows it.
LEMMA CandidateBehind ==
    ASSUME IInv, SyncAt(1)
    PROVE  /\ SyncBehind(consumed)
           /\ HeaderBehind(consumed) <=> HeaderComplete
           /\ HeaderComplete =>
                /\ SizeBehind(consumed) = FrameSize /\ FrameSize \in Nat \ {0}
                /\ consumed + SizeBehind(consumed) <= Len(received) <=> FrameComplete
                /\ FrameComplete =>
                     SubSeq(received, consumed + 1, consumed + SizeBehind(consumed)) = Candidate
<1>1. /\ consumed \in Nat /\ Len(buffer) \in Nat /\ Len(received) \in Nat
      /\ consumed + Len(buffer) = Len(received)
      /\ \A i \in 1..Len(buffer) : buffer[i] = received[consumed + i]
      /\ Len(BinarySync) \in Nat /\ received \in Seq(Byte) /\ buffer \in Seq(Byte)
  BY Counts, BytesAssumption, LenProperties DEF IInv, TypeOK
<1>2. SyncBehind(consumed)
  <2>1. /\ 1 + Len(BinarySync) - 1 <= Len(buffer)
        /\ \A k \in 1..Len(BinarySync) : buffer[1 + k - 1] = BinarySync[k]
    BY DEF SyncAt
  <2>2. \A k \in 1..Len(BinarySync) : 1 + k - 1 = k /\ k \in 1..Len(buffer)
    BY <1>1, <2>1
  <2>3. \A k \in 1..Len(BinarySync) : received[consumed + k] = BinarySync[k]
    BY <1>1, <2>1, <2>2
  <2>4. consumed + Len(BinarySync) <= Len(received)
    BY <1>1, <2>1
  <2> QED
    BY <2>3, <2>4 DEF SyncBehind
<1>3. HeaderBehind(consumed) <=> HeaderComplete
  <2>1. MinFrame \in Nat
    BY SizesAssumption DEF MinFrame
  <2> QED
    BY <1>1, <2>1 DEF HeaderBehind, HeaderComplete
<1>4. ASSUME HeaderComplete
      PROVE  /\ SizeBehind(consumed) = FrameSize /\ FrameSize \in Nat \ {0}
             /\ consumed + SizeBehind(consumed) <= Len(received) <=> FrameComplete
             /\ FrameComplete =>
                  SubSeq(received, consumed + 1, consumed + SizeBehind(consumed)) = Candidate
  <2>1. SizeBehind(consumed) \in Nat \ {0} /\ LengthAt \in 1..MinFrame /\ MinFrame \in Nat
    BY <1>1, <1>3, <1>4, HeaderNumbers
  <2>2. LengthAt \in 1..Len(buffer)
    BY <1>1, <1>4, <2>1 DEF HeaderComplete
  <2>3. SizeBehind(consumed) = FrameSize
    BY <1>1, <2>2 DEF SizeBehind, FrameSize
  <2>4. PICK n \in Nat \ {0} : n = FrameSize
    BY <2>1, <2>3
  <2>5. consumed + n <= Len(received) <=> n <= Len(buffer)
    BY <1>1
  <2>6. ASSUME n <= Len(buffer)
        PROVE  SubSeq(received, consumed + 1, consumed + n) = SubSeq(buffer, 1, n)
    <3>1. \A i \in 1..n : buffer[i] \in Byte
      BY <1>1, <2>6, ElementOfSeq
    <3>2. /\ SubSeq(buffer, 1, n) \in Seq(Byte)
          /\ Len(SubSeq(buffer, 1, n)) = IF 1 <= n THEN n - 1 + 1 ELSE 0
          /\ \A i \in 1..(n - 1 + 1) : SubSeq(buffer, 1, n)[i] = buffer[1 + i - 1]
      BY <3>1, SubSeqProperties
    <3>3. /\ n - 1 + 1 = n /\ 1 <= n
          /\ \A i \in 1..n : 1 + i - 1 = i /\ i \in 1..Len(buffer)
      BY <1>1, <2>6
    <3>4. PICK piece \in Seq(Byte) : piece = SubSeq(buffer, 1, n)
      BY <3>2
    <3>5. Len(piece) = n /\ \A i \in 1..n : piece[i] = received[consumed + i]
      BY <1>1, <3>2, <3>3, <3>4
    <3>6. consumed + n <= Len(received)
      BY <2>5, <2>6
    <3> QED
      BY SMTT(30), <1>1, <3>4, <3>5, <3>6, PieceIs
  <2>7. FrameComplete <=> n <= Len(buffer)
    BY <1>1, <2>4 DEF FrameComplete
  <2> HIDE DEF FrameSize
  <2> QED
    BY <2>1, <2>3, <2>4, <2>5, <2>6, <2>7 DEF Candidate
<1> QED
  BY <1>2, <1>3, <1>4

\* A step without a new frame event keeps the set of frames.
LEMMA NoNewFrame ==
    ASSUME IInv, origin' = origin,
           \/ events' = events
           \/ \E e \in Event : e.kind # "frame" /\ events' = Append(events, e)
    PROVE  FramesEmitted' = FramesEmitted
<1>1. CASE events' = events
  BY <1>1 DEF FramesEmitted
<1>2. CASE \E e \in Event : e.kind # "frame" /\ events' = Append(events, e)
  <2>1. PICK e \in Event : e.kind # "frame" /\ events' = Append(events, e)
    BY <1>2
  <2>2. /\ Len(events') = Len(events) + 1 /\ events'[Len(events) + 1] = e
        /\ \A k \in 1..Len(events) : events'[k] = events[k]
    BY <2>1, AppendProperties DEF IInv, TypeOK
  <2>3. Len(events) \in Nat
    BY Counts
  <2>4. \A k : k \in 1..Len(events') <=> k \in 1..Len(events) \/ k = Len(events) + 1
    BY <2>2, <2>3
  <2>5. \A k : /\ k \in 1..Len(events') /\ events'[k].kind = "frame" /\ events'[k].at >= origin
               <=> k \in 1..Len(events) /\ events[k].kind = "frame" /\ events[k].at >= origin
    BY <2>1, <2>2, <2>3, <2>4
  <2>6. { l \in 1..Len(events') : events'[l].kind = "frame" /\ events'[l].at >= origin' }
           = { l \in 1..Len(events) : events[l].kind = "frame" /\ events[l].at >= origin }
    BY <2>5
  <2> QED
    BY <2>2, <2>6 DEF FramesEmitted
<1> QED
  BY <1>1, <1>2

\* A line never hides a frame: what it covers is not the start of a sync.
LEMMA LineScanned ==
    ASSUME IInv, ScanInv, LineBeforeSync, UNCHANGED options
    PROVE  ScanInv'
<1>1. PICK n \in 1..Len(buffer) : (\A i \in 1..n : ~ SyncAt(i)) /\ ExtractLine(n)
  BY DEF LineBeforeSync
<1>2. /\ EraseFront(n) /\ buffer[n] = Newline /\ enable_binary
      /\ UNCHANGED <<options, received, origin>> /\ strict_binary_crc' = strict_binary_crc
  BY <1>1 DEF ExtractLine, FirstNewlineAt, LineBeforeSync, history, options
<1>3. /\ Len(BinarySync) \in Nat /\ Len(BinarySync) >= 2
      /\ \A i \in 1..Len(BinarySync) : BinarySync[i] # Newline
  BY BytesAssumption, LenProperties
<1>4. ASSUME NEW at \in consumed..(consumed + n - 1)
      PROVE  Refuted(at)
  <2>1. PICK j \in 1..n : at = consumed + j - 1
    <3>1. at - consumed + 1 \in 1..n /\ at = consumed + (at - consumed + 1) - 1
      BY Counts
    <3> QED
      BY <3>1
  <2>2. ~ SyncAt(j) /\ j \in 1..Len(buffer) /\ n \in Nat /\ j \in Nat /\ j <= n
    BY <1>1, Counts
  <2>3. CASE j + Len(BinarySync) - 1 <= Len(buffer)
    <3>1. PICK k \in 1..Len(BinarySync) : buffer[j + k - 1] # BinarySync[k]
      BY <2>2, <2>3 DEF SyncAt
    <3>2. j + k - 1 <= Len(buffer)
      BY <1>3, <2>2, <2>3, Counts
    <3> QED
      BY <2>1, <2>2, <3>1, <3>2, NotSyncHere
  <2>4. CASE ~ (j + Len(BinarySync) - 1 <= Len(buffer))
    <3>1. PICK k \in 1..Len(BinarySync) : k = n - j + 1
      <4>1. n - j + 1 \in 1..Len(BinarySync)
        BY SMTT(30), <1>3, <2>2, <2>4, Counts
      <4> QED
        BY <4>1
    <3>2. j + k - 1 = n /\ n <= Len(buffer)
      BY <1>3, <2>2, <3>1, Counts
    <3>3. buffer[j + k - 1] # BinarySync[k]
      BY <1>2, <1>3, <3>2
    <3> QED
      BY <2>1, <2>2, <3>2, <3>3, NotSyncHere
  <2> QED
    BY <2>3, <2>4
<1>5. \A at : Refuted(at)' <=> Refuted(at)
  BY <1>2 DEF Refuted, SyncBehind, HeaderBehind, SizeBehind
<1>6. \A at \in consumed..(consumed + n - 1) : Decided(at)'
  BY <1>4, <1>5 DEF Decided
<1>7. FramesEmitted' = FramesEmitted
  <2>1. CASE LineBefore(n) = <<>>
    BY <1>1, <1>2, <2>1, NoNewFrame DEF ExtractLine
  <2>2. CASE LineBefore(n) # <<>>
    <3>1. buffer \in Seq(Byte) /\ consumed \in Nat /\ Len(buffer) \in Nat
      BY Counts DEF IInv, TypeOK
    <3>2. \A i \in 1..Len(buffer) : buffer[i] \in Byte
      BY <3>1, ElementOfSeq
    <3>3. SubSeq(buffer, 1, n - 1) \in Seq(Byte) /\ SubSeq(buffer, 1, n - 2) \in Seq(Byte)
      <4>1. SubSeq(buffer, 1, n - 1) \in Seq(Byte)
        BY <3>1, <3>2, SubSeqProperties
      <4>2. SubSeq(buffer, 1, n - 2) \in Seq(Byte)
        BY <3>1, <3>2, SubSeqProperties
      <4> QED
        BY <4>1, <4>2
    <3>4. LineEvent(n) \in Event
      BY <3>1, <3>3 DEF LineEvent, LineBefore, Event, LineEvents
    <3>5. LineEvent(n).kind # "frame"
      BY DEF LineEvent
    <3>6. events' = Append(events, LineEvent(n))
      BY <1>1, <2>2 DEF ExtractLine
    <3> HIDE DEF LineEvent
    <3> QED
      BY <1>2, <3>4, <3>5, <3>6, NoNewFrame
  <2> QED
    BY <2>1, <2>2
<1> QED
  BY <1>2, <1>6, <1>7, Counts, ScanGoesOn

\* Noise in front of a sync, or a byte that begins nothing, is refuted.
LEMMA NoiseScanned ==
    ASSUME IInv, ScanInv, SkipToSync \/ DropByte, UNCHANGED options
    PROVE  ScanInv'
<1>1. /\ enable_binary /\ UNCHANGED <<options, received, origin>>
      /\ events' = events /\ strict_binary_crc' = strict_binary_crc
  BY DEF SkipToSync, DropByte, NothingFound, history, options
<1>2. FramesEmitted' = FramesEmitted
  BY <1>1, NoNewFrame
<1>3. \A at : Refuted(at)' <=> Refuted(at)
  BY <1>1 DEF Refuted, SyncBehind, HeaderBehind, SizeBehind
<1>4. Len(BinarySync) \in Nat
  BY BytesAssumption, LenProperties
<1>5. CASE SkipToSync
  <2>1. PICK i \in 2..Len(buffer) : FirstSyncAt(i) /\ EraseFront(i - 1)
    BY <1>5 DEF SkipToSync
  <2>2. /\ i + Len(BinarySync) - 1 <= Len(buffer) /\ \A j \in 1..(i - 1) : ~ SyncAt(j)
    BY <2>1 DEF FirstSyncAt, SyncAt
  <2>3. ASSUME NEW at \in consumed..(consumed + (i - 1) - 1)
        PROVE  Refuted(at)
    <3>1. PICK j \in 1..(i - 1) : at = consumed + j - 1
      <4>1. at - consumed + 1 \in 1..(i - 1) /\ at = consumed + (at - consumed + 1) - 1
        BY Counts
      <4> QED
        BY <4>1
    <3>2. /\ ~ SyncAt(j) /\ j \in 1..Len(buffer)
          /\ j + Len(BinarySync) - 1 <= Len(buffer)
      BY SMTT(30), <1>4, <2>2, Counts
    <3>3. PICK k \in 1..Len(BinarySync) : buffer[j + k - 1] # BinarySync[k]
      BY <3>2 DEF SyncAt
    <3>4. j + k - 1 <= Len(buffer)
      BY SMTT(30), <1>4, <3>2, Counts
    <3> QED
      BY <3>1, <3>2, <3>3, <3>4, NotSyncHere
  <2>4. i - 1 \in 0..Len(buffer)
    BY Counts
  <2>5. \A at \in consumed..(consumed + (i - 1) - 1) : Decided(at)'
    BY <1>3, <2>3 DEF Decided
  <2> QED
    BY <1>1, <1>2, <2>1, <2>4, <2>5, ScanGoesOn
<1>6. CASE DropByte
  <2>1. EraseFront(1) /\ buffer # <<>> /\ ~ BeginsWithSyncPrefix
    BY <1>6 DEF DropByte, NothingFound
  <2>2. PICK k \in 1..(Len(BinarySync) - 1) : k <= Len(buffer) /\ buffer[k] # BinarySync[k]
    BY <2>1 DEF BeginsWithSyncPrefix
  <2>3. k \in 1..Len(BinarySync) /\ 1 + k - 1 = k /\ 1 \in 1..Len(buffer)
    BY <1>4, <2>2, Counts
  <2>4. Refuted(consumed + 1 - 1) /\ consumed + 1 - 1 = consumed
    BY <2>2, <2>3, NotSyncHere, Counts
  <2>5. \A at \in consumed..(consumed + 1 - 1) : Decided(at)'
    <3>1. \A at \in consumed..(consumed + 1 - 1) : at = consumed
      BY Counts
    <3> QED
      BY <1>3, <2>4, <3>1 DEF Decided
  <2> QED
    BY <1>1, <1>2, <2>1, <2>3, <2>5, Counts, ScanGoesOn
<1> QED
  BY <1>5, <1>6

\* A rejected candidate is refuted by its size or by its CRC.
LEMMA RejectScanned ==
    ASSUME IInv, ScanInv, RejectTooLarge \/ RejectBadCrc, UNCHANGED options
    PROVE  ScanInv'
<1>1. /\ enable_binary /\ UNCHANGED <<options, received, origin>> /\ SyncAt(1) /\ HeaderComplete
      /\ events' = events /\ strict_binary_crc' = strict_binary_crc /\ EraseFront(1)
  BY DEF RejectTooLarge, RejectBadCrc, RejectCandidate, AtCandidate, history, options
<1>2. FramesEmitted' = FramesEmitted
  BY <1>1, NoNewFrame
<1>3. \A at : Refuted(at)' <=> Refuted(at)
  BY <1>1 DEF Refuted, SyncBehind, HeaderBehind, SizeBehind
<1>4. /\ SyncBehind(consumed) /\ HeaderBehind(consumed)
      /\ SizeBehind(consumed) = FrameSize /\ FrameSize \in Nat
      /\ consumed + SizeBehind(consumed) <= Len(received) <=> FrameComplete
      /\ FrameComplete =>
           SubSeq(received, consumed + 1, consumed + SizeBehind(consumed)) = Candidate
  BY <1>1, CandidateBehind
<1>5. Refuted(consumed)
  <2>1. CASE RejectTooLarge
    <3>1. SizeBehind(consumed) > binary_max_frame_size
      BY <1>4, <2>1 DEF RejectTooLarge, FrameTooLarge
    <3> QED
      BY <1>4, <3>1 DEF Refuted
  <2>2. CASE RejectBadCrc
    <3>1. /\ FrameComplete /\ ~ FrameTooLarge
          /\ strict_binary_crc /\ ~ CrcValid(Candidate)
      BY <2>2 DEF RejectBadCrc
    <3>2. SizeBehind(consumed) <= binary_max_frame_size
      BY <1>4, <3>1, SizesAssumption DEF FrameTooLarge
    <3> QED
      BY <1>4, <3>1, <3>2 DEF Refuted
  <2> QED
    BY <2>1, <2>2
<1>6. \A at \in consumed..(consumed + 1 - 1) : Decided(at)'
  <2>1. \A at \in consumed..(consumed + 1 - 1) : at = consumed
    BY Counts
  <2> QED
    BY <1>3, <1>5, <2>1 DEF Decided
<1>7. 1 \in 0..Len(buffer)
  <2>1. 1 + Len(BinarySync) - 1 <= Len(buffer) /\ Len(BinarySync) \in Nat /\ Len(BinarySync) >= 2
    BY <1>1, BytesAssumption, LenProperties DEF SyncAt
  <2> QED
    BY <2>1, Counts
<1> QED
  BY <1>1, <1>2, <1>6, <1>7, ScanGoesOn

\* An emitted frame decides its own position and all those inside it.
LEMMA EmitScanned ==
    ASSUME IInv, IInv', ScanInv, EmitFrame, UNCHANGED options
    PROVE  ScanInv'
<1>1. /\ enable_binary /\ UNCHANGED <<options, received, origin>> /\ EraseFront(FrameSize)
      /\ SyncAt(1) /\ HeaderComplete /\ ~ FrameTooLarge /\ FrameComplete
      /\ events' = Append(events, FrameEvent)
  BY DEF EmitFrame, AtCandidate, history
<1>2. /\ FrameSize \in 1..Len(buffer) /\ FrameEvent \in Event
      /\ FrameEvent.at = consumed /\ FrameEvent.kind = "frame"
  BY <1>1, CompleteCandidate
<1> HIDE DEF FrameEvent, FrameSize
<1>3. /\ Len(events') = Len(events) + 1 /\ events'[Len(events) + 1] = FrameEvent
      /\ \A k \in 1..Len(events) : events'[k] = events[k]
  BY <1>1, <1>2, AppendProperties DEF IInv, TypeOK
<1>4. /\ \A k \in 1..Len(events) : k \in 1..Len(events')
      /\ Len(events) + 1 \in 1..Len(events')
  <2>1. Len(events) \in Nat
    BY Counts
  <2> QED
    BY <1>3, <2>1
<1>5. FramesEmitted \subseteq FramesEmitted'
  BY <1>1, <1>3, <1>4 DEF FramesEmitted
<1>6. consumed \in FramesEmitted'
  <2>1. consumed >= origin' /\ consumed \in Nat
    BY <1>1, Counts DEF ScanInv
  <2> QED
    BY <1>2, <1>3, <1>4, <2>1 DEF FramesEmitted
<1>7. PICK f \in Nat : f = consumed
  BY Counts
<1>8. SizeBehind(f)' = FrameSize
  <2>1. SizeBehind(f) = FrameSize
    BY <1>1, <1>7, CandidateBehind
  <2>2. received'[f + LengthAt] = received[f + LengthAt]
    BY <1>1
  <2> QED
    BY <2>1, <2>2 DEF SizeBehind
<1>9. \A at \in consumed..(consumed + FrameSize - 1) : Decided(at)'
  <2> SUFFICES ASSUME NEW at \in consumed..(consumed + FrameSize - 1)
               PROVE  Decided(at)'
    OBVIOUS
  <2>1. CASE at = consumed
    BY <1>6, <2>1 DEF Decided
  <2>2. CASE at # consumed
    <3>1. f < at /\ at < f + FrameSize
      BY <1>2, <1>7, <2>2, Counts
    <3> QED
      BY <1>6, <1>7, <1>8, <3>1 DEF Decided, Inside
  <2> QED
    BY <2>1, <2>2
<1> QED
  <2>1. FrameSize \in 0..Len(buffer)
    BY <1>2, Counts
  <2> QED
    BY <1>1, <1>5, <1>9, <2>1, ScanGoesOn

\* Each step keeps the scan right.
LEMMA ScanStep ==
    ASSUME IInv, IInv', ScanInv, [Next]_vars
    PROVE  ScanInv'
<1>1. CASE Receive
  <2>1. PICK chunk \in Chunk : Append_(chunk)
    BY <1>1 DEF Receive
  <2>2. /\ received' = received \o chunk /\ origin' = origin /\ consumed' = consumed
        /\ events' = events /\ enable_binary' = enable_binary
        /\ strict_binary_crc' = strict_binary_crc
    BY <2>1 DEF Append_, options
  <2>3. /\ Len(received) <= Len(received')
        /\ \A i \in 1..Len(received) : received'[i] = received[i]
    <3>1. received \in Seq(Byte) /\ chunk \in Seq(Byte)
      BY ChunkAssumption DEF IInv, TypeOK
    <3>2. Len(received) \in Nat /\ Len(chunk) \in Nat
      BY <3>1, LenProperties
    <3>3. /\ Len(received') = Len(received) + Len(chunk)
          /\ \A i \in 1..Len(received) : received'[i] = received[i]
      BY <2>2, <3>1, ConcatProperties
    <3> QED
      BY <3>2, <3>3
  <2>4. FramesEmitted' = FramesEmitted
    BY <2>2, NoNewFrame
  <2>5. ASSUME NEW at \in origin..(consumed - 1), Decided(at)
        PROVE  Decided(at)'
    <3>1. at \in Nat /\ received' \in Seq(Byte)
      BY Counts DEF IInv, TypeOK
    <3> QED
      BY <2>2, <2>3, <2>4, <2>5, <3>1, DecidedStays
  <2> QED
    <3>1. ASSUME enable_binary', NEW at \in origin'..(consumed' - 1)
          PROVE  Decided(at)'
      <4>1. at \in origin..(consumed - 1) /\ enable_binary
        BY <2>2, <3>1
      <4>2. Decided(at)
        BY <4>1 DEF ScanInv
      <4> QED
        BY <2>5, <4>1, <4>2
    <3>2. origin' <= consumed'
      BY <2>2 DEF ScanInv
    <3> QED
      BY <3>1, <3>2 DEF ScanInv
<1>2. CASE Clear
  <2>1. origin' = consumed' /\ consumed' \in Nat
    BY <1>2, Counts DEF Clear
  <2>2. PICK n \in Nat : origin' = n /\ consumed' = n
    BY <2>1
  <2>3. n <= n /\ n..(n - 1) = {}
    OBVIOUS
  <2> QED
    BY <2>2, <2>3 DEF ScanInv
<1>3. CASE Drain
  <2>1. UNCHANGED options
    BY <1>3 DEF Drain
  <2>2. CASE AsciiOnlyLine
    <3>1. ~ enable_binary' /\ origin' <= consumed'
      <4>1. origin' = origin /\ consumed' \in Nat /\ consumed <= consumed'
        BY <1>3, DrainTakes
      <4>2. origin <= consumed /\ ~ enable_binary'
        BY <2>1, <2>2 DEF AsciiOnlyLine, ScanInv, options
      <4> QED
        BY <4>1, <4>2, Counts
    <3> QED
      BY <3>1 DEF ScanInv
  <2>3. CASE DrainDone \/ CandidateWaits \/ HoldPartial
    <3>1. UNCHANGED <<received, consumed, origin, events, enable_binary, strict_binary_crc>>
      BY <2>1, <2>3 DEF DrainDone, CandidateWaits, HoldPartial, history, options
    <3> QED
      BY <3>1 DEF ScanInv, Decided, Refuted, Inside, FramesEmitted, SyncBehind, HeaderBehind,
         SizeBehind
  <2>4. CASE LineBeforeSync
    BY <2>1, <2>4, LineScanned
  <2>5. CASE SkipToSync \/ DropByte
    BY <2>1, <2>5, NoiseScanned
  <2>6. CASE RejectTooLarge \/ RejectBadCrc
    BY <2>1, <2>6, RejectScanned
  <2>7. CASE EmitFrame
    BY <2>1, <2>7, EmitScanned
  <2> QED
    BY <1>3, <2>2, <2>3, <2>4, <2>5, <2>6, <2>7 DEF Drain
<1>4. CASE UNCHANGED vars
  BY <1>4 DEF vars, options, history, ScanInv, Decided, Refuted, Inside, FramesEmitted, SyncBehind,
     HeaderBehind, SizeBehind
<1> QED
  BY <1>1, <1>2, <1>3, <1>4 DEF Next

\* When drain() has returned nothing that is left is a frame, and a candidate
\* that waits ends the scan.
LEMMA ScanEnds ==
    ASSUME IInv, ScanInv, ResidueIsPartial, pc = "idle", enable_binary,
           NEW at \in consumed..Len(received), Accepted(at)
    PROVE  /\ SyncAt(1) /\ Undecided(consumed) /\ consumed < at
           /\ ~ Inside(consumed, FramesEmitted)
<1>1. /\ consumed \in Nat /\ Len(buffer) \in Nat /\ Len(received) \in Nat
      /\ consumed + Len(buffer) = Len(received)
      /\ \A i \in 1..Len(buffer) : buffer[i] = received[consumed + i]
      /\ Len(BinarySync) \in Nat /\ Len(BinarySync) >= 2 /\ enable_binary \in BOOLEAN
      /\ received \in Seq(Byte)
  BY Counts, BytesAssumption, LenProperties DEF IInv, TypeOK
<1>2. at - consumed + 1 \in 1..Len(buffer) /\ SyncAt(at - consumed + 1)
  <2>1. PICK i \in Nat : i = at - consumed + 1
    BY <1>1
  <2>2. /\ at + Len(BinarySync) <= Len(received)
        /\ \A k \in 1..Len(BinarySync) : received[at + k] = BinarySync[k]
    BY DEF Accepted, SyncBehind
  <2>3. i + Len(BinarySync) - 1 <= Len(buffer) /\ i \in 1..Len(buffer)
    BY <1>1, <2>1, <2>2
  <2>4. \A k \in 1..Len(BinarySync) :
           i + k - 1 \in 1..Len(buffer) /\ consumed + (i + k - 1) = at + k
    BY <1>1, <2>1, <2>3
  <2>5. \A k \in 1..Len(BinarySync) : buffer[i + k - 1] = BinarySync[k]
    BY <1>1, <2>2, <2>4
  <2> QED
    BY <2>1, <2>3, <2>5 DEF SyncAt
<1>3. /\ SyncAt(1)
      /\ HeaderComplete => ~ FrameTooLarge /\ Len(buffer) < FrameSize
  BY <1>2 DEF ResidueIsPartial, NoSync
<1>4. /\ SyncBehind(consumed) /\ (HeaderBehind(consumed) <=> HeaderComplete)
      /\ HeaderComplete => /\ SizeBehind(consumed) = FrameSize /\ FrameSize \in Nat
                           /\ (consumed + SizeBehind(consumed) <= Len(received) <=> FrameComplete)
  BY <1>3, CandidateBehind
<1>5. ASSUME HeaderComplete
      PROVE  /\ SizeBehind(consumed) <= binary_max_frame_size
             /\ consumed + SizeBehind(consumed) > Len(received)
  <2>1. SizeBehind(consumed) = FrameSize /\ FrameSize \in Nat /\ Len(buffer) < FrameSize
    BY <1>3, <1>4, <1>5
  <2>2. ~ (FrameSize > binary_max_frame_size)
    BY <1>3, <1>5 DEF FrameTooLarge
  <2> QED
    BY <1>1, <2>1, <2>2, SizesAssumption
<1>6. Undecided(consumed)
  BY <1>4, <1>5 DEF Undecided
<1>7. consumed # at
  <2> SUFFICES ASSUME consumed = at PROVE FALSE
    OBVIOUS
  <2>1. HeaderComplete /\ consumed + SizeBehind(consumed) <= Len(received)
    BY <1>4 DEF Accepted
  <2>2. SizeBehind(consumed) \in Nat
    BY <1>4, <2>1
  <2> QED
    BY <1>1, <1>5, <2>1, <2>2
<1>8. ~ Inside(consumed, FramesEmitted)
  <2> SUFFICES ASSUME NEW f \in FramesEmitted, consumed < f + SizeBehind(f)
               PROVE  FALSE
    BY DEF Inside
  <2>1. f \in Nat /\ SizeBehind(f) \in Nat /\ f + SizeBehind(f) <= consumed
    BY EmittedFrames
  <2> QED
    BY <1>1, <2>1
<1> QED
  BY <1>1, <1>3, <1>6, <1>7, <1>8

\* In binary mode the frames that come out are those that a scan of the whole
\* stream finds, however the reads cut it.
THEOREM FramesOfTheStream == Spec => []FramesIndependentOfReads
<1>1. IInv /\ ResidueIsPartial /\ ScanInv => FramesIndependentOfReads
  <2> SUFFICES ASSUME IInv, ResidueIsPartial, ScanInv, pc = "idle", enable_binary
               PROVE  ScanFinds(FramesEmitted)
    BY DEF FramesIndependentOfReads
  <2>1. /\ consumed \in Nat /\ origin \in Nat /\ origin <= consumed /\ Len(received) \in Nat
        /\ consumed <= Len(received) /\ received \in Seq(Byte)
    BY Counts DEF ScanInv, IInv, TypeOK
  <2>2. \A at \in origin..(consumed - 1) : Decided(at)
    BY DEF ScanInv
  <2>3. ASSUME NEW f \in FramesEmitted
        PROVE  /\ f \in origin..Len(received) /\ Accepted(f) /\ ~ Inside(f, FramesEmitted)
               /\ \A w \in origin..(f - 1) : Undecided(w) => Inside(w, FramesEmitted)
    <3>1. /\ f \in Nat /\ origin <= f /\ Accepted(f) /\ SizeBehind(f) \in Nat \ {0}
          /\ f + SizeBehind(f) <= consumed /\ ~ Inside(f, FramesEmitted)
      BY EmittedFrames
    <3>2. ASSUME NEW w \in origin..(f - 1), Undecided(w)
          PROVE  Inside(w, FramesEmitted)
      <4>1. w \in Nat /\ Decided(w)
        BY <2>1, <2>2, <3>1
      <4>2. ~ Refuted(w)
        BY <2>1, <3>2, <4>1, RefutedIsDecided
      <4>3. w \notin FramesEmitted
        <5> SUFFICES ASSUME w \in FramesEmitted PROVE FALSE
          OBVIOUS
        <5>1. Accepted(w) /\ SizeBehind(w) \in Nat
          BY EmittedFrames
        <5>2. /\ w + SizeBehind(w) <= Len(received) /\ w + SizeBehind(w) > Len(received)
          BY <3>2, <5>1 DEF Accepted, Undecided
        <5> QED
          BY <2>1, <4>1, <5>1, <5>2
      <4> QED
        BY <4>1, <4>2, <4>3 DEF Decided
    <3>3. f \in origin..Len(received)
      BY <2>1, <3>1
    <3> QED
      BY <3>1, <3>2, <3>3
  <2>4. ASSUME NEW at \in origin..Len(received), Accepted(at), ~ Inside(at, FramesEmitted),
               \A w \in origin..(at - 1) : Undecided(w) => Inside(w, FramesEmitted)
        PROVE  at \in FramesEmitted
    <3>1. CASE at < consumed
      <4>1. at \in Nat /\ Decided(at)
        BY <2>1, <2>2, <3>1
      <4>2. ~ Refuted(at)
        BY <2>1, <2>4, <4>1, RefutedIsDecided
      <4> QED
        BY <2>4, <4>1, <4>2 DEF Decided
    <3>2. CASE ~ (at < consumed)
      <4>1. at \in consumed..Len(received)
        BY <2>1, <3>2
      <4>2. Undecided(consumed) /\ consumed < at /\ ~ Inside(consumed, FramesEmitted)
        BY <2>4, <4>1, ScanEnds
      <4>3. consumed \in origin..(at - 1)
        BY <2>1, <4>1, <4>2
      <4> QED
        BY <2>4, <4>2, <4>3
    <3> QED
      BY <3>1, <3>2
  <2> QED
    BY <2>3, <2>4 DEF ScanFinds
<1>2. Init => ScanInv
  BY DEF Init, ScanInv
<1>3. IInv /\ IInv' /\ ScanInv /\ [Next]_vars => ScanInv'
  BY ScanStep
<1> QED
  BY <1>1, <1>2, <1>3, TransportInvariant, ResiduePartial, PTL DEF Spec

\* A stream has one scan: what comes out is a function of the bytes received
\* since the last clear(), so that the reads cannot matter.
THEOREM OneScan ==
    ASSUME origin \in Nat, Len(received) \in Nat, NEW F, NEW G, ScanFinds(F), ScanFinds(G)
    PROVE  F = G
<1> DEFINE Differ == { at \in origin..Len(received) : ~ (at \in F <=> at \in G) }
<1>1. /\ \A at : at \in F <=>
           /\ at \in origin..Len(received) /\ Accepted(at) /\ ~ Inside(at, F)
           /\ \A w \in origin..(at - 1) : Undecided(w) => Inside(w, F)
      /\ \A at : at \in G <=>
           /\ at \in origin..Len(received) /\ Accepted(at) /\ ~ Inside(at, G)
           /\ \A w \in origin..(at - 1) : Undecided(w) => Inside(w, G)
  BY DEF ScanFinds
<1>2. SUFFICES ASSUME Differ # {} PROVE FALSE
  <2>1. \A at \in origin..Len(received) : at \in F <=> at \in G
    BY <1>2
  <2> QED
    BY <1>1, <2>1
<1>3. PICK at \in Differ : \A b \in Differ : at <= b
  <2>1. Differ \in SUBSET Nat
    OBVIOUS
  <2> HIDE DEF Differ
  <2> QED
    BY <1>2, <2>1, LeastNat
<1>4. at \in Nat /\ at \in origin..Len(received) /\ ~ (at \in F <=> at \in G)
  OBVIOUS
<1>5. \A f : f < at => (f \in F <=> f \in G)
  <2> SUFFICES ASSUME NEW f, f < at, ~ (f \in F <=> f \in G)
               PROVE  FALSE
    OBVIOUS
  <2>1. f \in origin..Len(received)
    BY <1>1
  <2>2. at <= f
    BY <1>3, <2>1
  <2> QED
    BY <1>4, <2>1, <2>2
<1>6. \A w \in origin..at : Inside(w, F) <=> Inside(w, G)
  <2> SUFFICES ASSUME NEW w \in origin..at
               PROVE  Inside(w, F) <=> Inside(w, G)
    OBVIOUS
  <2>1. \A f \in F \cup G : f < w => f < at
    <3>1. \A f \in F \cup G : f \in Nat
      BY <1>1
    <3> QED
      BY <1>4, <3>1
  <2> QED
    BY <1>5, <2>1 DEF Inside
<1>7. at \in origin..at /\ \A w \in origin..(at - 1) : w \in origin..at
  BY <1>4
<1> QED
  BY <1>1, <1>4, <1>6, <1>7
-----------------------------------------------------------------------------
(* drain() comes to an end *)

\* Taking bytes off the front leaves fewer.
LEMMA EraseShortens ==
    ASSUME IInv, NEW n \in 1..Len(buffer), EraseFront(n)
    PROVE  Len(buffer') < Len(buffer)
<1>1. buffer \in Seq(Byte) /\ Len(buffer) \in Nat
  BY Counts DEF IInv, TypeOK
<1>2. Len(SubSeq(buffer, n + 1, Len(buffer)))
         = IF n + 1 <= Len(buffer) THEN Len(buffer) - (n + 1) + 1 ELSE 0
  BY <1>1, SubSeqProperties
<1> QED
  BY <1>1, <1>2 DEF EraseFront

\* Every turn of drain() is its last or takes a byte from the buffer, and no
\* byte is added before it has returned: its loop has no more turns than the
\* buffer has bytes, and one.
THEOREM EachTurnTakesBytes ==
    Spec => [][pc = "draining" => pc' = "idle" \/ Len(buffer') < Len(buffer)]_vars
<1>1. ASSUME IInv, [Next]_vars
      PROVE  [pc = "draining" => pc' = "idle" \/ Len(buffer') < Len(buffer)]_vars
  <2> SUFFICES ASSUME Next, pc = "draining", pc' # "idle"
               PROVE  Len(buffer') < Len(buffer)
    BY <1>1
  <2>1. Drain
    BY DEF Next, Receive, Append_, Clear
  <2>2. CASE AsciiOnlyLine \/ LineBeforeSync
    <3>1. PICK n \in 1..Len(buffer) : EraseFront(n)
      BY <2>2 DEF AsciiOnlyLine, LineBeforeSync, ExtractLine
    <3> QED
      BY <1>1, <3>1, EraseShortens
  <2>3. CASE RejectTooLarge \/ RejectBadCrc \/ EmitFrame \/ SkipToSync \/ DropByte
    <3>1. \/ UNCHANGED <<buffer, consumed>>
          \/ \E n \in 1..Len(buffer) : EraseFront(n)
      BY <1>1, <2>1, DrainTakes
    <3>2. consumed' # consumed
      <4>1. CASE RejectTooLarge \/ RejectBadCrc \/ DropByte
        BY <1>1, <4>1, Counts DEF RejectTooLarge, RejectBadCrc, DropByte, RejectCandidate, EraseFront
      <4>2. CASE EmitFrame
        <5>1. FrameSize \in 1..Len(buffer)
          BY <1>1, <4>2, CompleteCandidate DEF EmitFrame, AtCandidate
        <5>2. consumed' = consumed + FrameSize
          BY <4>2 DEF EmitFrame, EraseFront
        <5> QED
          BY <1>1, <5>1, <5>2, Counts
      <4>3. CASE SkipToSync
        BY <1>1, <4>3, Counts DEF SkipToSync, EraseFront
      <4> QED
        BY <2>3, <4>1, <4>2, <4>3
    <3>3. PICK n \in 1..Len(buffer) : EraseFront(n)
      BY <3>1, <3>2
    <3> QED
      BY <1>1, <3>3, EraseShortens
  <2>4. ~ (DrainDone \/ CandidateWaits \/ HoldPartial)
    BY DEF DrainDone, CandidateWaits, HoldPartial
  <2> QED
    BY <2>1, <2>2, <2>3, <2>4 DEF Drain
<1> QED
  BY <1>1, TransportInvariant, PTL DEF Spec
=============================================================================
