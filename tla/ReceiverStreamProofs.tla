------------------------- MODULE ReceiverStreamProofs -------------------------
(***************************************************************************)
(* The transport at the end of a serial line, for every alphabet, format,  *)
(* set of messages and kind of damage, however the reads cut the stream:   *)
(* without noise it is a channel, and with noise no intact frame is lost.  *)
(***************************************************************************)
EXTENDS ReceiverStream, UnicoreTransportProofs

\* Every byte that was ever sent, whether it has been read or not.
OnLine == received \o wire

\* Where the message after the first k begins, or will begin.
Start(k) == IF k < Len(sent) THEN sent[k + 1].at ELSE Len(OnLine)

Size(i) == Len(BytesOf(sent[i].message))

\* The messages lie on the line one behind the other.
InOrder ==
    /\ Start(0) = 0
    /\ \A k \in 0..Len(sent) : Start(k) <= Len(OnLine)
    /\ \A i \in 1..Len(sent) : sent[i].at <= Start(i)
    /\ \A i, k \in 1..Len(sent) : i < k => Start(i) <= sent[k].at

\* An intact message lies there as it was sent, and nothing else until the next.
IntactAreThere ==
    \A i \in 1..Len(sent) : sent[i].intact =>
        /\ Start(i) = sent[i].at + Size(i)
        /\ \A j \in 1..Size(i) : OnLine[sent[i].at + j] = BytesOf(sent[i].message)[j]

SentType ==
    /\ wire \in Seq(Byte)
    /\ sent \in Seq([message : Message, at : Nat, intact : BOOLEAN])

LineOK == SentType /\ InOrder /\ IntactAreThere

-----------------------------------------------------------------------------
(* The messages *)

\* A message has a text; a line ends in CR LF.
LEMMA MessageBytes ==
    ASSUME NEW m \in Message
    PROVE  /\ m.kind \in {"line", "frame"}
           /\ m.text \in Seq(Byte) /\ Len(m.text) \in Nat
           /\ BytesOf(m) \in Seq(Byte) /\ Len(BytesOf(m)) \in Nat \ {0}
           /\ m.kind = "frame" => IsFrame(m) /\ BytesOf(m) = m.text
           /\ m.kind = "line" => IsLine(m)
<1>1. /\ m.text \in Seq(Byte) /\ Len(m.text) \in Nat
      /\ \/ m.kind = "line" /\ IsLine(m)
         \/ m.kind = "frame" /\ IsFrame(m)
  BY StreamAssumption, LenProperties
<1>2. CASE m.kind = "line" /\ IsLine(m)
  <2>1. <<CarriageReturn, Newline>> \in Seq(Byte) /\ Len(<<CarriageReturn, Newline>>) = 2
    BY BytesAssumption
  <2>2. /\ BytesOf(m) \in Seq(Byte)
        /\ Len(BytesOf(m)) = Len(m.text) + Len(<<CarriageReturn, Newline>>)
    BY <1>1, <1>2, <2>1, ConcatProperties DEF BytesOf
  <2>3. Len(BytesOf(m)) \in Nat \ {0}
    BY <1>1, <2>1, <2>2
  <2> QED
    BY <1>1, <1>2, <2>2, <2>3
<1>3. CASE m.kind = "frame" /\ IsFrame(m)
  <2>1. BytesOf(m) = m.text
    BY <1>3 DEF BytesOf
  <2>2. MinFrame \in Nat \ {0}
    BY SizesAssumption DEF MinFrame
  <2>3. Len(m.text) \in Nat \ {0}
    BY <1>1, <1>3, <2>2 DEF IsFrame
  <2> QED
    BY <1>1, <1>3, <2>1, <2>3
<1> QED
  BY <1>1, <1>2, <1>3

\* The bytes of a line: its text, a carriage return and a newline.
LEMMA LineBytes ==
    ASSUME NEW m \in Message, m.kind = "line"
    PROVE  /\ Len(m.text) \in Nat \ {0}
           /\ Len(BytesOf(m)) = Len(m.text) + 2
           /\ \A j \in 1..Len(m.text) : BytesOf(m)[j] = m.text[j]
           /\ BytesOf(m)[Len(m.text) + 1] = CarriageReturn
           /\ BytesOf(m)[Len(m.text) + 2] = Newline
           /\ \A j \in 1..(Len(m.text) + 1) : BytesOf(m)[j] # Newline
           /\ BytesOf(m)[1] \in LineStart
<1> DEFINE End == <<CarriageReturn, Newline>>
<1>1. /\ m.text \in Seq(Byte) /\ m.text # <<>> /\ m.text[1] \in LineStart
      /\ \A i \in 1..Len(m.text) : m.text[i] # Newline
      /\ Len(m.text) \in Nat \ {0}
  BY MessageBytes, EmptySeq DEF IsLine
<1>2. End \in Seq(Byte) /\ Len(End) = 2 /\ End[1] = CarriageReturn /\ End[2] = Newline
  BY BytesAssumption
<1>3. BytesOf(m) = m.text \o End
  BY DEF BytesOf
<1> HIDE DEF End
<1>4. /\ Len(BytesOf(m)) = Len(m.text) + 2
      /\ \A i \in 1..(Len(m.text) + 2) :
            BytesOf(m)[i] = IF i <= Len(m.text) THEN m.text[i] ELSE End[i - Len(m.text)]
  <2>1. /\ Len(m.text \o End) = Len(m.text) + Len(End)
        /\ \A i \in 1..Len(m.text) + Len(End) :
              (m.text \o End)[i] = IF i <= Len(m.text) THEN m.text[i] ELSE End[i - Len(m.text)]
    <3>1. m.text \in Seq(Byte) /\ End \in Seq(Byte)
      BY <1>1, <1>2
    <3> QED
      BY <3>1, ConcatProperties
  <2> QED
    BY <1>2, <1>3, <2>1
<1>5. \A j \in 1..Len(m.text) : BytesOf(m)[j] = m.text[j]
  BY <1>1, <1>4
<1>6. /\ BytesOf(m)[Len(m.text) + 1] = CarriageReturn
      /\ BytesOf(m)[Len(m.text) + 2] = Newline
  <2>1. /\ (Len(m.text) + 1) - Len(m.text) = 1 /\ (Len(m.text) + 2) - Len(m.text) = 2
        /\ Len(m.text) + 1 \in 1..(Len(m.text) + 2) /\ Len(m.text) + 2 \in 1..(Len(m.text) + 2)
        /\ ~ (Len(m.text) + 1 <= Len(m.text)) /\ ~ (Len(m.text) + 2 <= Len(m.text))
    BY <1>1
  <2> QED
    BY <1>2, <1>4, <2>1
<1>7. ASSUME NEW j \in 1..(Len(m.text) + 1)
      PROVE  BytesOf(m)[j] # Newline
  <2>1. CASE j = Len(m.text) + 1
    BY <1>6, <2>1, StreamAssumption
  <2>2. CASE j \in 1..Len(m.text)
    BY <1>1, <1>5, <2>2
  <2> QED
    BY <1>1, <2>1, <2>2
<1>8. BytesOf(m)[1] \in LineStart
  BY <1>1, <1>5
<1> QED
  BY <1>1, <1>4, <1>5, <1>6, <1>7, <1>8

-----------------------------------------------------------------------------
(* The line *)

\* What is known of each message that was sent.
LEMMA SentTypes ==
    ASSUME SentType
    PROVE  /\ Len(sent) \in Nat /\ Len(wire) \in Nat
           /\ \A i \in 1..Len(sent) :
                 /\ sent[i].message \in Message /\ sent[i].at \in Nat
                 /\ sent[i].intact \in BOOLEAN
                 /\ Size(i) \in Nat \ {0}
<1> DEFINE Rec == [message : Message, at : Nat, intact : BOOLEAN]
<1>1. sent \in Seq(Rec)
  BY DEF SentType
<1>2. \A i \in 1..Len(sent) : sent[i] \in Rec
  <2> HIDE DEF Rec
  <2> QED
    BY <1>1, ElementOfSeq
<1>3. \A i \in 1..Len(sent) : /\ sent[i].message \in Message /\ sent[i].at \in Nat
                              /\ sent[i].intact \in BOOLEAN
  BY <1>2
<1>4. \A i \in 1..Len(sent) : Size(i) \in Nat \ {0}
  BY <1>3, MessageBytes DEF Size
<1> QED
  BY <1>1, <1>3, <1>4, LenProperties DEF SentType

\* The line is the bytes read and those to be read.
LEMMA OnLineBytes ==
    ASSUME TypeOK, SentType
    PROVE  /\ OnLine \in Seq(Byte) /\ Len(OnLine) = Len(received) + Len(wire)
           /\ Len(OnLine) \in Nat /\ Len(received) \in Nat /\ Len(wire) \in Nat
           /\ \A i \in 1..Len(received) : OnLine[i] = received[i]
<1>1. received \in Seq(Byte) /\ wire \in Seq(Byte)
  BY DEF TypeOK, SentType
<1>2. /\ OnLine \in Seq(Byte) /\ Len(OnLine) = Len(received) + Len(wire)
      /\ \A i \in 1..(Len(received) + Len(wire)) :
            OnLine[i] = IF i <= Len(received) THEN received[i] ELSE wire[i - Len(received)]
  BY <1>1, ConcatProperties DEF OnLine
<1>3. Len(received) \in Nat /\ Len(wire) \in Nat
  BY <1>1, LenProperties
<1> QED
  BY <1>2, <1>3

\* The places between the messages are in order.
LEMMA StartTypes ==
    ASSUME TypeOK, LineOK
    PROVE  \A k \in 0..Len(sent) : Start(k) \in Nat
<1>1. ASSUME NEW k \in 0..Len(sent)
      PROVE  Start(k) \in Nat
  <2>1. Len(sent) \in Nat /\ Len(OnLine) \in Nat
    BY SentTypes, OnLineBytes DEF LineOK
  <2>2. CASE k < Len(sent)
    <3>1. k + 1 \in 1..Len(sent)
      BY <2>1, <2>2
    <3> QED
      BY <2>2, <3>1, SentTypes DEF Start, LineOK
  <2>3. CASE ~ (k < Len(sent))
    BY <2>1, <2>3 DEF Start
  <2> QED
    BY <2>2, <2>3
<1> QED
  BY <1>1

\* A message that is put on the line goes behind all others.
LEMMA PutStep ==
    ASSUME TypeOK, LineOK, NEW m \in Message, NEW bytes \in Seq(Byte), NEW intact \in BOOLEAN,
           intact => bytes = BytesOf(m), Put(m, bytes, intact)
    PROVE  LineOK'
<1> DEFINE new == [message |-> m, at |-> Len(received) + Len(wire), intact |-> intact]
           Rec == [message : Message, at : Nat, intact : BOOLEAN]
<1> PICK N \in Nat : N = Len(sent)
  BY SentTypes DEF LineOK
<1>1. /\ wire' = wire \o bytes /\ sent' = Append(sent, new) /\ received' = received
  BY DEF Put, vars, history
<1>2. /\ N = Len(sent) /\ sent \in Seq(Rec) /\ wire \in Seq(Byte) /\ received \in Seq(Byte)
      /\ OnLine \in Seq(Byte) /\ Len(OnLine) = Len(received) + Len(wire)
      /\ Len(OnLine) \in Nat /\ Len(bytes) \in Nat
  BY SentTypes, OnLineBytes, LenProperties DEF LineOK, SentType, TypeOK
<1>3. new \in Rec /\ new.at = Len(OnLine) /\ new.message = m /\ new.intact = intact
  BY <1>2
<1>4. /\ sent' \in Seq(Rec) /\ Len(sent') = N + 1
      /\ \A i \in 1..N : sent'[i] = sent[i]
      /\ sent'[N + 1] = new
  <2> HIDE DEF new, Rec
  <2> QED
    BY <1>1, <1>2, <1>3, AppendProperties
<1>5. OnLine' = OnLine \o bytes
  <2>1. OnLine' = received \o (wire \o bytes)
    BY <1>1 DEF OnLine
  <2>2. (received \o wire) \o bytes = received \o (wire \o bytes)
    <3>1. received \in Seq(Byte) /\ wire \in Seq(Byte) /\ bytes \in Seq(Byte)
      BY <1>2
    <3> QED
      BY SMTT(30), <3>1, ConcatAssociative
  <2> QED
    BY <2>1, <2>2 DEF OnLine
<1>6. /\ Len(OnLine') = Len(OnLine) + Len(bytes)
      /\ \A i \in 1..(Len(OnLine) + Len(bytes)) :
            OnLine'[i] = IF i <= Len(OnLine) THEN OnLine[i] ELSE bytes[i - Len(OnLine)]
  <2>1. OnLine \in Seq(Byte) /\ bytes \in Seq(Byte)
    BY <1>2
  <2> QED
    BY <1>5, <2>1, ConcatProperties
<1>7. \A k \in 0..N : Start(k)' = Start(k)
  <2> SUFFICES ASSUME NEW k \in 0..N PROVE Start(k)' = Start(k)
    OBVIOUS
  <2>1. Start(k)' = sent'[k + 1].at
    BY <1>2, <1>4 DEF Start
  <2>2. CASE k = N
    BY <1>2, <1>3, <1>4, <2>1, <2>2 DEF Start
  <2>3. CASE k < N
    <3>1. k + 1 \in 1..N /\ k < Len(sent)
      BY <1>2, <2>3
    <3>2. sent'[k + 1] = sent[k + 1] /\ Start(k) = sent[k + 1].at
      BY <1>4, <3>1 DEF Start
    <3> QED
      BY <2>1, <3>2
  <2> QED
    BY <1>2, <2>2, <2>3
<1>8. Start(N + 1)' = Len(OnLine) + Len(bytes)
  BY <1>2, <1>4, <1>6 DEF Start
<1>9. \A i \in 1..(N + 1) : i \in 1..N \/ i = N + 1
  BY <1>2
<1>10. \A k \in 0..N : Start(k) \in Nat /\ Start(k) <= Len(OnLine)
  BY StartTypes DEF LineOK, InOrder
<1> HIDE DEF new, Rec
<1>11. InOrder'
  <2>1. Start(0)' = 0
    BY <1>2, <1>7 DEF LineOK, InOrder
  <2>2. \A k \in 0..(N + 1) : Start(k)' <= Len(OnLine')
    <3> SUFFICES ASSUME NEW k \in 0..(N + 1) PROVE Start(k)' <= Len(OnLine')
      OBVIOUS
    <3>1. CASE k = N + 1
      BY <1>2, <1>6, <1>8, <3>1
    <3>2. CASE k # N + 1
      <4>1. k \in 0..N
        BY <3>2
      <4>2. Start(k)' = Start(k) /\ Start(k) \in Nat /\ Start(k) <= Len(OnLine)
        BY <1>7, <1>10, <4>1
      <4> QED
        BY <1>2, <1>6, <4>2
    <3> QED
      BY <3>1, <3>2
  <2>3. \A i \in 1..(N + 1) : sent'[i].at <= Start(i)'
    <3>1. \A i \in 1..N : sent'[i].at <= Start(i)'
      BY <1>2, <1>4, <1>7 DEF LineOK, InOrder
    <3>2. sent'[N + 1].at <= Start(N + 1)'
      BY <1>2, <1>3, <1>4, <1>8
    <3> QED
      BY <1>9, <3>1, <3>2
  <2>4. ASSUME NEW i \in 1..(N + 1), NEW k \in 1..(N + 1), i < k
        PROVE  Start(i)' <= sent'[k].at
    <3>1. i \in 1..N
      BY <1>2, <2>4
    <3>2. CASE k = N + 1
      BY <1>2, <1>3, <1>4, <1>7, <1>10, <3>1, <3>2
    <3>3. CASE k \in 1..N
      BY <1>2, <1>4, <1>7, <2>4, <3>1, <3>3 DEF LineOK, InOrder
    <3> QED
      BY <1>9, <3>2, <3>3
  <2> QED
    BY <1>4, <2>1, <2>2, <2>3, <2>4 DEF InOrder
<1>12. ASSUME NEW i \in 1..(N + 1), sent'[i].intact
       PROVE  /\ Start(i)' = sent'[i].at + Size(i)'
              /\ \A j \in 1..Size(i)' :
                    OnLine'[sent'[i].at + j] = BytesOf(sent'[i].message)[j]
  <2>1. CASE i \in 1..N
    <3>1. Size(i)' = Size(i) /\ sent'[i] = sent[i] /\ Start(i)' = Start(i)
      <4>1. i \in 0..N /\ sent'[i] = sent[i]
        BY <1>4, <2>1
      <4>2. Size(i)' = Size(i)
        BY <4>1 DEF Size
      <4> QED
        BY <1>7, <4>1, <4>2
    <3>2. /\ Start(i) = sent[i].at + Size(i)
          /\ \A j \in 1..Size(i) : OnLine[sent[i].at + j] = BytesOf(sent[i].message)[j]
      BY <1>12, <2>1, <3>1 DEF LineOK, IntactAreThere
    <3>3. sent[i].at \in Nat /\ Size(i) \in Nat /\ Start(i) <= Len(OnLine)
      BY <1>2, <1>10, <2>1, SentTypes DEF LineOK
    <3>4. \A j \in 1..Size(i) : OnLine'[sent[i].at + j] = OnLine[sent[i].at + j]
      <4> SUFFICES ASSUME NEW j \in 1..Size(i)
                   PROVE  OnLine'[sent[i].at + j] = OnLine[sent[i].at + j]
        OBVIOUS
      <4>1. PICK a \in Nat, n \in Nat, l \in Nat :
               a = sent[i].at /\ n = Size(i) /\ l = Len(OnLine)
        BY <1>2, <3>3
      <4>2. a + n <= l /\ j \in 1..n
        BY <3>2, <3>3, <4>1
      <4>3. a + j <= l /\ a + j \in 1..(l + Len(bytes))
        BY <1>2, <4>2
      <4> QED
        BY <1>6, <4>1, <4>3
    <3> QED
      BY <3>1, <3>2, <3>4
  <2>2. CASE i = N + 1
    <3>1. bytes = BytesOf(m) /\ Size(i)' = Len(bytes) /\ sent'[i].at = Len(OnLine)
      BY <1>3, <1>4, <1>12, <2>2 DEF Size
    <3>2. Start(i)' = sent'[i].at + Size(i)'
      BY <1>8, <2>2, <3>1
    <3>3. ASSUME NEW j \in 1..Len(bytes)
          PROVE  OnLine'[Len(OnLine) + j] = bytes[j]
      <4>1. /\ Len(OnLine) + j \in 1..(Len(OnLine) + Len(bytes))
            /\ ~ (Len(OnLine) + j <= Len(OnLine)) /\ (Len(OnLine) + j) - Len(OnLine) = j
        BY <1>2
      <4> QED
        BY <1>6, <4>1
    <3>4. sent'[i].message = m
      BY <1>3, <1>4, <2>2
    <3>5. \A j \in 1..Size(i)' : OnLine'[sent'[i].at + j] = BytesOf(sent'[i].message)[j]
      <4> HIDE DEF Size
      <4> QED
        BY <3>1, <3>3, <3>4
    <3> QED
      BY <3>2, <3>5
  <2> QED
    BY <1>9, <2>1, <2>2
<1>13. IntactAreThere'
  BY <1>4, <1>12 DEF IntactAreThere
<1>14. SentType'
  <2>1. wire' \in Seq(Byte)
    BY <1>1, <1>2, ConcatProperties
  <2> QED
    BY <1>4, <2>1 DEF SentType, Rec
<1> QED
  BY <1>11, <1>13, <1>14 DEF LineOK

\* A step that leaves the line and the messages alone.
LEMMA SameLine ==
    ASSUME LineOK, wire' \in Seq(Byte), sent' = sent, OnLine' = OnLine
    PROVE  LineOK'
<1>1. \A k : Start(k)' = Start(k) /\ Size(k)' = Size(k)
  BY DEF Start, Size
<1> QED
  BY <1>1 DEF LineOK, SentType, InOrder, IntactAreThere

\* A read moves bytes from the wire to the transport.
LEMMA ReadStep ==
    ASSUME IInv, LineOK, Read
    PROVE  IInv' /\ LineOK' /\ UNCHANGED <<options, sent, consumed, events, OnLine>>
<1>1. PICK n \in 1..Len(wire) :
        /\ Append_(SubSeq(wire, 1, n))
        /\ wire' = SubSeq(wire, n + 1, Len(wire))
        /\ UNCHANGED sent
  BY DEF Read
<1>2. /\ wire \in Seq(Byte) /\ received \in Seq(Byte) /\ Len(wire) \in Nat
      /\ \A i \in 1..Len(wire) : wire[i] \in Byte
  BY LenProperties, ElementOfSeq DEF LineOK, SentType, IInv, TypeOK
<1>3. SubSeq(wire, 1, n) \in Seq(Byte) /\ SubSeq(wire, n + 1, Len(wire)) \in Seq(Byte)
  BY <1>2, SubSeqProperties
<1>4. SubSeq(wire, 1, n) \o SubSeq(wire, n + 1, Len(wire)) = wire
  <2>1. SubSeq(wire, 1, n) \o SubSeq(wire, n + 1, Len(wire)) = SubSeq(wire, 1, Len(wire))
    <3>1. /\ 1 \in 1..Len(wire) + 1 /\ n \in (1 - 1)..Len(wire)
          /\ Len(wire) \in n..Len(wire)
      BY <1>2
    <3> QED
      BY <1>2, <3>1, ConcatAdjacentSubSeq
  <2> QED
    BY <1>2, <2>1, SubSeqFull
<1>5. OnLine' = OnLine
  <2>1. OnLine' = (received \o SubSeq(wire, 1, n)) \o SubSeq(wire, n + 1, Len(wire))
    BY <1>1 DEF OnLine, Append_
  <2>2. OnLine' = received \o (SubSeq(wire, 1, n) \o SubSeq(wire, n + 1, Len(wire)))
    <3>1. \A s, t, u \in Seq(Byte) : (s \o t) \o u = s \o (t \o u)
      BY SMTT(30), ConcatAssociative
    <3> QED
      BY <1>2, <1>3, <2>1, <3>1
  <2> QED
    BY <1>4, <2>2 DEF OnLine
<1>6. LineOK'
  BY <1>1, <1>3, <1>5, SameLine
<1>7. IInv'
  BY <1>1, <1>3, AppendStep
<1> QED
  BY <1>1, <1>5, <1>6, <1>7 DEF Append_

\* Draining moves nothing on the line.
LEMMA DrainKeepsLine ==
    ASSUME IInv, LineOK, DrainStep
    PROVE  IInv' /\ LineOK' /\ UNCHANGED <<options, sent, received, OnLine>>
<1>1. Drain /\ wire' = wire /\ sent' = sent /\ UNCHANGED options
  BY DEF DrainStep, link, Drain
<1>2. received' = received
  BY <1>1 DEF Drain, AsciiOnlyLine, LineBeforeSync, ExtractLine, EmitFrame, RejectTooLarge,
     RejectBadCrc, RejectCandidate, SkipToSync, DropByte, DrainDone, CandidateWaits, HoldPartial,
     history
<1>3. OnLine' = OnLine
  BY <1>1, <1>2 DEF OnLine
<1>4. LineOK'
  BY <1>1, <1>3, SameLine DEF LineOK, SentType
<1> QED
  BY <1>1, <1>2, <1>3, <1>4, DrainStepKeepsIInv

\* Sending leaves the transport alone.
LEMMA SendStep ==
    ASSUME IInv, LineOK, Send \/ SendDamaged
    PROVE  IInv' /\ LineOK' /\ UNCHANGED vars
<1>1. PICK m \in Message, bytes \in Seq(Byte), intact \in BOOLEAN :
        Put(m, bytes, intact) /\ (intact => bytes = BytesOf(m))
  <2>1. CASE Send
    <3>1. PICK m \in Message : Put(m, BytesOf(m), TRUE)
      BY <2>1 DEF Send
    <3> QED
      BY <3>1, MessageBytes
  <2>2. CASE SendDamaged
    <3>1. PICK m \in Message : \E bytes \in Damaged(BytesOf(m)) : Put(m, bytes, FALSE)
      BY <2>2 DEF SendDamaged
    <3>2. PICK bytes \in Damaged(BytesOf(m)) : Put(m, bytes, FALSE)
      BY <3>1
    <3>3. bytes \in Seq(Byte)
      BY StreamAssumption
    <3> QED
      BY <3>2, <3>3
  <2> QED
    BY <2>1, <2>2
<1>2. UNCHANGED vars
  BY <1>1 DEF Put
<1>3. LineOK'
  BY <1>1, PutStep DEF IInv
<1>4. IInv'
  BY <1>2 DEF vars, options, counters, history, IInv, TypeOK, BufferIsStreamSuffix,
     CandidatesAccounted, SyncAt, FramesAreGenuine, EventsDisjoint
<1> QED
  BY <1>2, <1>3, <1>4

-----------------------------------------------------------------------------
(* A message at the front of the buffer *)

\* The bytes of an intact message that have been read are in the buffer.
LEMMA InBuffer ==
    ASSUME IInv, LineOK, NEW i \in 1..Len(sent), sent[i].intact, NEW j \in 1..Size(i),
           NEW q \in 1..Len(buffer), q + consumed = sent[i].at + j
    PROVE  buffer[q] = BytesOf(sent[i].message)[j]
<1>1. /\ consumed \in Nat /\ Len(buffer) \in Nat /\ Len(received) \in Nat
      /\ consumed + Len(buffer) = Len(received)
  BY LenProperties DEF IInv, TypeOK, BufferIsStreamSuffix
<1>2. buffer[q] = received[consumed + q]
  BY DEF IInv, BufferIsStreamSuffix
<1>3. received[consumed + q] = OnLine[consumed + q]
  <2>1. consumed + q \in 1..Len(received)
    BY <1>1
  <2> QED
    BY <2>1, OnLineBytes DEF IInv, LineOK
<1>4. OnLine[sent[i].at + j] = BytesOf(sent[i].message)[j]
  BY DEF LineOK, IntactAreThere
<1>5. consumed + q = sent[i].at + j
  BY <1>1
<1> QED
  BY <1>2, <1>3, <1>4, <1>5

\* The sync of an intact frame that nothing has been taken of: as much of it as
\* has been read stands in the buffer, and there is no newline in it.
LEMMA FrameSyncInBuffer ==
    ASSUME IInv, LineOK, NEW i \in 1..Len(sent), sent[i].intact,
           sent[i].message.kind = "frame", NEW p \in Nat, p + consumed = sent[i].at
    PROVE  /\ Len(BinarySync) \in Nat /\ Len(BinarySync) >= 2 /\ Len(buffer) \in Nat
           /\ \A k \in 1..Len(BinarySync) : p + k <= Len(buffer) =>
                 buffer[p + k] = BinarySync[k] /\ buffer[p + k] # Newline
           /\ p + Len(BinarySync) <= Len(buffer) => SyncAt(p + 1)
<1>1. /\ Len(BinarySync) \in Nat /\ Len(BinarySync) >= 2 /\ Len(buffer) \in Nat
      /\ consumed \in Nat
  BY BytesAssumption, LenProperties DEF IInv, TypeOK
<1>2. sent[i].message \in Message /\ sent[i].at \in Nat
  BY SentTypes DEF LineOK
<1>3. /\ IsFrame(sent[i].message) /\ BytesOf(sent[i].message) = sent[i].message.text
      /\ Len(sent[i].message.text) \in Nat
  BY <1>2, MessageBytes
<1>4. Len(BinarySync) <= Size(i) /\ Size(i) \in Nat
  <2>1. Len(sent[i].message.text) >= MinFrame
    BY <1>3 DEF IsFrame
  <2> QED
    BY <1>1, <1>3, <2>1, SizesAssumption DEF Size, MinFrame
<1>5. ASSUME NEW k \in 1..Len(BinarySync), p + k <= Len(buffer)
      PROVE  buffer[p + k] = BinarySync[k] /\ buffer[p + k] # Newline
  <2>1. /\ k \in 1..Size(i) /\ p + k \in 1..Len(buffer)
        /\ (p + k) + consumed = sent[i].at + k
    BY SMTT(30), <1>1, <1>2, <1>4, <1>5
  <2>2. buffer[p + k] = BytesOf(sent[i].message)[k]
    BY <2>1, InBuffer
  <2>3. BytesOf(sent[i].message)[k] = BinarySync[k]
    BY <1>3 DEF IsFrame
  <2> QED
    BY <2>2, <2>3, BytesAssumption
<1>6. ASSUME p + Len(BinarySync) <= Len(buffer)
      PROVE  SyncAt(p + 1)
  <2>1. (p + 1) + Len(BinarySync) - 1 <= Len(buffer)
    BY <1>1, <1>6
  <2>2. ASSUME NEW k \in 1..Len(BinarySync)
        PROVE  buffer[(p + 1) + k - 1] = BinarySync[k]
    <3>1. p + k <= Len(buffer) /\ (p + 1) + k - 1 = p + k
      BY <1>1, <1>6
    <3> QED
      BY <1>5, <3>1
  <2> QED
    BY <2>1, <2>2 DEF SyncAt
<1> QED
  BY <1>1, <1>5, <1>6

\* A message comes out whole, and nothing else does.
ComesOut(i) ==
    /\ consumed' = sent[i].at + Size(i)
    /\ \E e : /\ events' = Append(events, e)
             /\ e.kind = sent[i].message.kind /\ e.at = sent[i].at
             /\ e.bytes = sent[i].message.text

\* What a candidate is when an intact frame is at the front.
LEMMA FrontCandidate ==
    ASSUME IInv, LineOK, NEW i \in 1..Len(sent), sent[i].intact,
           sent[i].message.kind = "frame", consumed = sent[i].at, HeaderComplete
    PROVE  /\ FrameSize = Size(i) /\ ~ FrameTooLarge
           /\ FrameComplete => Candidate = sent[i].message.text /\ CrcValid(Candidate)
<1> DEFINE text == sent[i].message.text
<1>1. /\ buffer \in Seq(Byte) /\ Len(buffer) \in Nat /\ consumed \in Nat
      /\ \A k \in 1..Len(buffer) : buffer[k] \in Byte
  BY LenProperties, ElementOfSeq DEF IInv, TypeOK
<1>2. /\ sent[i].message \in Message /\ text \in Seq(Byte) /\ Len(text) \in Nat
      /\ IsFrame(sent[i].message) /\ BytesOf(sent[i].message) = text /\ Size(i) = Len(text)
  BY SentTypes, MessageBytes DEF LineOK, Size
<1>3. MinFrame \in Nat /\ LengthAt \in 1..MinFrame
  <2>1. Len(BinarySync) \in Nat
    BY BytesAssumption, LenProperties
  <2> QED
    BY <2>1, SizesAssumption DEF MinFrame
<1>4. ASSUME NEW k \in 1..Size(i), k <= Len(buffer)
      PROVE  buffer[k] = text[k]
  <2>1. k \in 1..Len(buffer) /\ k + consumed = sent[i].at + k
    BY <1>1, <1>2, <1>4
  <2> QED
    BY <1>2, <2>1, InBuffer
<1> HIDE DEF text
<1>5. FrameSize = Size(i)
  <2>1. Len(text) >= MinFrame /\ Len(text) = MinFrame + LengthOf(text[LengthAt])
    BY <1>2 DEF IsFrame, text
  <2>2. LengthAt \in 1..Size(i) /\ LengthAt <= Len(buffer)
    BY <1>1, <1>2, <1>3, <2>1 DEF HeaderComplete
  <2> QED
    BY <1>2, <1>4, <2>1, <2>2 DEF FrameSize
<1>6. ~ FrameTooLarge
  <2>1. Len(text) <= binary_max_frame_size
    BY <1>2 DEF IsFrame, text
  <2> QED
    BY <1>2, <1>5, <2>1, SizesAssumption DEF FrameTooLarge
<1>7. ASSUME FrameComplete
      PROVE  Candidate = text /\ CrcValid(Candidate)
  <2>1. Size(i) <= Len(buffer)
    BY <1>1, <1>2, <1>5, <1>7 DEF FrameComplete
  <2>2. \A k \in 1..Size(i) : buffer[k] \in Byte
    BY <1>1, <1>2, <2>1
  <2>3. /\ Candidate \in Seq(Byte) /\ Len(Candidate) = Size(i)
        /\ \A k \in 1..Size(i) : Candidate[k] = buffer[k]
    <3>1. /\ SubSeq(buffer, 1, Size(i)) \in Seq(Byte)
          /\ Len(SubSeq(buffer, 1, Size(i))) = IF 1 <= Size(i) THEN Size(i) - 1 + 1 ELSE 0
          /\ \A k \in 1..(Size(i) - 1 + 1) : SubSeq(buffer, 1, Size(i))[k] = buffer[1 + k - 1]
      BY <1>2, <2>2, SubSeqProperties
    <3> QED
      BY <1>2, <1>5, <3>1 DEF Candidate
  <2>4. \A k \in 1..Len(Candidate) : Candidate[k] = text[k]
    BY <1>1, <1>2, <1>4, <2>1, <2>3
  <2>5. Candidate = text
    BY <1>2, <2>3, <2>4, SeqEqual
  <2> QED
    BY <1>2, <2>5 DEF IsFrame, text
<1> QED
  BY <1>5, <1>6, <1>7 DEF text

\* An intact frame at the front waits for its bytes, then comes out.
LEMMA FrontFrame ==
    ASSUME IInv, LineOK, enable_binary, Drain, NEW i \in 1..Len(sent), sent[i].intact,
           sent[i].message.kind = "frame", consumed = sent[i].at
    PROVE  UNCHANGED <<consumed, events>> \/ ComesOut(i)
<1>1. consumed \in Nat /\ buffer \in Seq(Byte) /\ 0 + consumed = sent[i].at
  BY DEF IInv, TypeOK
<1>2. /\ Len(BinarySync) \in Nat /\ Len(BinarySync) >= 2 /\ Len(buffer) \in Nat
      /\ \A k \in 1..Len(BinarySync) : 0 + k <= Len(buffer) =>
            buffer[0 + k] = BinarySync[k] /\ buffer[0 + k] # Newline
      /\ 0 + Len(BinarySync) <= Len(buffer) => SyncAt(0 + 1)
  BY <1>1, FrameSyncInBuffer
<1>3. /\ \A k \in 1..Len(BinarySync) : k <= Len(buffer) =>
            buffer[k] = BinarySync[k] /\ buffer[k] # Newline
      /\ Len(BinarySync) <= Len(buffer) => SyncAt(1)
  BY <1>2
<1>4. CASE DrainDone \/ CandidateWaits \/ HoldPartial
  BY <1>4 DEF DrainDone, CandidateWaits, HoldPartial
<1>5. ~ AsciiOnlyLine
  BY DEF AsciiOnlyLine
<1>6. ~ RejectTooLarge
  BY FrontCandidate DEF RejectTooLarge
<1>7. ~ RejectBadCrc
  BY FrontCandidate DEF RejectBadCrc
<1>8. CASE EmitFrame
  <2>1. /\ HeaderComplete /\ FrameComplete /\ consumed' = consumed + FrameSize
        /\ events' = Append(events, FrameEvent)
    BY <1>8 DEF EmitFrame, EraseFront
  <2>2. /\ FrameEvent.kind = "frame" /\ FrameEvent.at = consumed
        /\ FrameEvent.bytes = Candidate
    BY DEF FrameEvent
  <2>3. FrameSize = Size(i) /\ Candidate = sent[i].message.text
    BY <2>1, FrontCandidate
  <2> QED
    BY <2>1, <2>2, <2>3 DEF ComesOut
<1>9. ~ LineBeforeSync
  <2> SUFFICES ASSUME LineBeforeSync PROVE FALSE
    OBVIOUS
  <2>1. PICK n \in 1..Len(buffer) : buffer[n] = Newline
    BY DEF LineBeforeSync, ExtractLine, FirstNewlineAt
  <2>2. ~ (Len(BinarySync) <= Len(buffer))
    BY <1>3 DEF LineBeforeSync
  <2>3. n \in 1..Len(BinarySync) /\ n <= Len(buffer)
    BY <1>2, <2>2
  <2> QED
    BY <1>3, <2>1, <2>3
<1>10. ~ SkipToSync
  <2> SUFFICES ASSUME SkipToSync PROVE FALSE
    OBVIOUS
  <2>1. PICK k \in 2..Len(buffer) : SyncAt(k) /\ ~ SyncAt(1)
    BY DEF SkipToSync, FirstSyncAt
  <2>2. k + Len(BinarySync) - 1 <= Len(buffer)
    BY <2>1 DEF SyncAt
  <2> QED
    BY <1>2, <1>3, <2>1, <2>2
<1>11. ~ DropByte
  <2> SUFFICES ASSUME DropByte PROVE FALSE
    OBVIOUS
  <2>1. buffer # <<>> /\ NoSync /\ ~ BeginsWithSyncPrefix
    BY DEF DropByte, NothingFound
  <2>2. 1 \in 1..Len(buffer)
    BY <1>1, <1>2, <2>1, EmptySeq
  <2>3. \A k \in 1..(Len(BinarySync) - 1) : k <= Len(buffer) => buffer[k] = BinarySync[k]
    BY <1>2, <1>3
  <2> QED
    BY <2>1, <2>3 DEF BeginsWithSyncPrefix
<1> QED
  BY <1>4, <1>5, <1>6, <1>7, <1>8, <1>9, <1>10, <1>11 DEF Drain

\* An intact line that nothing has been taken of: its bytes, no sync in them.
LEMMA LineInBuffer ==
    ASSUME IInv, LineOK, NEW i \in 1..Len(sent), sent[i].intact,
           sent[i].message.kind = "line", consumed = sent[i].at
    PROVE  /\ \A q \in 1..Size(i) : q <= Len(buffer) =>
                 buffer[q] = BytesOf(sent[i].message)[q]
           /\ \A q \in 1..Size(i) : ~ SyncAt(q)
<1> DEFINE bytes == BytesOf(sent[i].message)
           S == Len(BinarySync)
<1>1. /\ Len(buffer) \in Nat /\ consumed \in Nat /\ S \in Nat
      /\ sent[i].message \in Message /\ sent[i].at \in Nat /\ Size(i) \in Nat \ {0}
      /\ Size(i) = Len(bytes)
  BY BytesAssumption, LenProperties, SentTypes DEF IInv, TypeOK, LineOK, Size
<1>2. /\ Size(i) = Len(sent[i].message.text) + 2 /\ bytes[Size(i)] = Newline
      /\ IsLine(sent[i].message)
  BY <1>1, LineBytes, MessageBytes
<1>3. ASSUME NEW q \in 1..Size(i), q <= Len(buffer)
      PROVE  buffer[q] = bytes[q]
  <2>1. q \in 1..Len(buffer) /\ q + consumed = sent[i].at + q
    BY <1>1, <1>3
  <2> QED
    BY <2>1, InBuffer
<1>4. ASSUME NEW q \in 1..Size(i), SyncAt(q)
      PROVE  FALSE
  <2>1. /\ q + S - 1 <= Len(buffer)
        /\ \A k \in 1..S : buffer[q + k - 1] = BinarySync[k]
    BY <1>4 DEF SyncAt
  <2>2. CASE q + S - 1 <= Size(i)
    <3>1. q \in 1..(Len(bytes) - S + 1)
      BY <1>1, <2>2
    <3>2. PICK k \in 1..S : bytes[q + k - 1] # BinarySync[k]
      BY <1>2, <3>1 DEF IsLine
    <3>3. q + k - 1 \in 1..Size(i) /\ q + k - 1 <= Len(buffer)
      BY <1>1, <2>1, <2>2
    <3> QED
      BY <1>3, <2>1, <3>2, <3>3
  <2>3. CASE ~ (q + S - 1 <= Size(i))
    <3> DEFINE k == Size(i) - q + 1
    <3>1. k \in 1..S /\ q + k - 1 = Size(i) /\ Size(i) <= Len(buffer)
      BY <1>1, <2>1, <2>3
    <3> HIDE DEF k
    <3>2. buffer[Size(i)] = Newline
      <4>1. Size(i) \in 1..Size(i)
        BY <1>1
      <4> QED
        BY <1>2, <1>3, <3>1, <4>1
    <3> QED
      BY <2>1, <3>1, <3>2, BytesAssumption
  <2> QED
    BY <2>2, <2>3
<1> QED
  BY <1>3, <1>4

\* An intact line at the front waits for its bytes, then comes out.
LEMMA FrontLine ==
    ASSUME IInv, LineOK, enable_binary, Drain, NEW i \in 1..Len(sent), sent[i].intact,
           sent[i].message.kind = "line", consumed = sent[i].at
    PROVE  UNCHANGED <<consumed, events>> \/ ComesOut(i)
<1> DEFINE text == sent[i].message.text
           bytes == BytesOf(sent[i].message)
           N == Size(i)
<1>1. /\ Len(buffer) \in Nat /\ buffer \in Seq(Byte) /\ consumed \in Nat
      /\ sent[i].message \in Message /\ N \in Nat \ {0} /\ text \in Seq(Byte)
      /\ \A k \in 1..Len(buffer) : buffer[k] \in Byte
  BY LenProperties, ElementOfSeq, SentTypes, MessageBytes DEF IInv, TypeOK, LineOK
<1>2. /\ Len(text) \in Nat \ {0} /\ N = Len(text) + 2
      /\ \A j \in 1..Len(text) : bytes[j] = text[j]
      /\ bytes[Len(text) + 1] = CarriageReturn /\ bytes[Len(text) + 2] = Newline
      /\ \A j \in 1..(Len(text) + 1) : bytes[j] # Newline
      /\ bytes[1] \in LineStart
  BY <1>1, LineBytes DEF Size
<1>3. /\ \A q \in 1..N : q <= Len(buffer) => buffer[q] = bytes[q]
      /\ \A q \in 1..N : ~ SyncAt(q)
  BY LineInBuffer
<1> HIDE DEF text, bytes, N
<1>4. ~ SyncAt(1)
  BY <1>1, <1>3
<1>5. CASE DrainDone \/ CandidateWaits \/ HoldPartial
  BY <1>5 DEF DrainDone, CandidateWaits, HoldPartial
<1>6. ~ AsciiOnlyLine
  BY DEF AsciiOnlyLine
<1>7. ~ RejectTooLarge /\ ~ RejectBadCrc /\ ~ EmitFrame
  BY <1>4 DEF RejectTooLarge, RejectBadCrc, EmitFrame, AtCandidate
<1>8. CASE LineBeforeSync
  <2>1. PICK n \in 1..Len(buffer) : ExtractLine(n)
    BY <1>8 DEF LineBeforeSync
  <2>2. buffer[n] = Newline /\ \A j \in 1..(n - 1) : buffer[j] # Newline
    BY <2>1 DEF ExtractLine, FirstNewlineAt
  <2>3. n = N
    <3>1. CASE n < N
      <4>1. n \in 1..N /\ n \in 1..(Len(text) + 1) /\ n <= Len(buffer)
        BY <1>1, <1>2, <3>1
      <4> QED
        BY <1>2, <1>3, <2>2, <4>1
    <3>2. CASE n > N
      <4>1. N \in 1..(n - 1) /\ N \in 1..N /\ N <= Len(buffer)
        BY <1>1, <1>2, <3>2
      <4> QED
        BY <1>2, <1>3, <2>2, <4>1
    <3> QED
      BY <1>1, <3>1, <3>2
  <2>4. LineBefore(n) = text
    <3>1. n > 1 /\ n - 1 = Len(text) + 1 /\ n - 2 = Len(text) /\ n - 1 \in 1..N
      BY <1>2, <2>3
    <3>2. buffer[n - 1] = CarriageReturn
      <4>1. n - 1 <= Len(buffer)
        BY <1>1, <2>3
      <4> QED
        BY <1>2, <1>3, <3>1, <4>1
    <3>3. LineBefore(n) = SubSeq(buffer, 1, Len(text))
      BY <3>1, <3>2 DEF LineBefore
    <3>4. \A k \in 1..Len(text) : k \in 1..N /\ k <= Len(buffer) /\ k \in 1..Len(buffer)
      BY <1>1, <1>2, <2>3
    <3>5. \A k \in 1..Len(text) : buffer[k] \in Byte /\ buffer[k] = text[k]
      BY <1>1, <1>2, <1>3, <3>4
    <3>6. /\ SubSeq(buffer, 1, Len(text)) \in Seq(Byte)
          /\ Len(SubSeq(buffer, 1, Len(text)))
                = IF 1 <= Len(text) THEN Len(text) - 1 + 1 ELSE 0
          /\ \A k \in 1..(Len(text) - 1 + 1) :
                SubSeq(buffer, 1, Len(text))[k] = buffer[1 + k - 1]
      BY <1>2, <3>5, SubSeqProperties
    <3>7. /\ Len(SubSeq(buffer, 1, Len(text))) = Len(text)
          /\ \A k \in 1..Len(SubSeq(buffer, 1, Len(text))) :
                SubSeq(buffer, 1, Len(text))[k] = text[k]
      BY <1>2, <3>5, <3>6
    <3> QED
      BY <1>1, <3>3, <3>6, <3>7, SeqEqual
  <2>5. LineBefore(n) # <<>>
    BY <1>2, <2>4, EmptySeq
  <2>6. consumed' = consumed + N /\ events' = Append(events, LineEvent(n))
    BY <2>1, <2>3, <2>5 DEF ExtractLine, EraseFront
  <2>7. LineEvent(n).kind = "line" /\ LineEvent(n).at = consumed /\ LineEvent(n).bytes = text
    BY <2>4 DEF LineEvent
  <2> QED
    BY <2>6, <2>7 DEF ComesOut, text, N
<1>9. ~ SkipToSync
  <2> SUFFICES ASSUME SkipToSync PROVE FALSE
    OBVIOUS
  <2>1. PICK k \in 2..Len(buffer) : SyncAt(k) /\ \A j \in 1..k : buffer[j] # Newline
    BY DEF SkipToSync, FirstSyncAt
  <2>2. ~ (k \in 1..N)
    BY <1>3, <2>1
  <2>3. N \in 1..k /\ N \in 1..N /\ N <= Len(buffer)
    BY <1>1, <2>2
  <2> QED
    BY <1>2, <1>3, <2>1, <2>3
<1>10. ~ DropByte
  <2> SUFFICES ASSUME DropByte PROVE FALSE
    OBVIOUS
  <2>1. buffer # <<>> /\ buffer[1] \notin LineStart
    BY DEF DropByte, NothingFound
  <2>2. 1 <= Len(buffer) /\ 1 \in 1..N
    BY <1>1, <2>1, EmptySeq
  <2> QED
    BY <1>2, <1>3, <2>1, <2>2
<1> QED
  BY <1>5, <1>6, <1>7, <1>8, <1>9, <1>10 DEF Drain

\* The message at the front of the buffer waits for its bytes, then comes out.
LEMMA FrontMessage ==
    ASSUME IInv, LineOK, enable_binary, Drain, NEW i \in 1..Len(sent), sent[i].intact,
           consumed = sent[i].at
    PROVE  UNCHANGED <<consumed, events>> \/ ComesOut(i)
<1>1. sent[i].message.kind \in {"line", "frame"}
  BY SentTypes, MessageBytes DEF LineOK
<1> QED
  BY <1>1, FrontFrame, FrontLine

\* On an empty buffer drain() takes nothing.
LEMMA NothingLeft ==
    ASSUME IInv, LineOK, enable_binary, Drain, consumed = Len(OnLine)
    PROVE  UNCHANGED <<consumed, events>>
<1>1. buffer = <<>> /\ Len(buffer) = 0
  <2>1. /\ buffer \in Seq(Byte) /\ Len(buffer) \in Nat /\ consumed \in Nat
        /\ consumed + Len(buffer) = Len(received)
    BY LenProperties DEF IInv, TypeOK, BufferIsStreamSuffix
  <2>2. /\ Len(OnLine) = Len(received) + Len(wire)
        /\ Len(received) \in Nat /\ Len(wire) \in Nat
    BY OnLineBytes DEF IInv, LineOK
  <2>3. Len(buffer) = 0
    BY <2>1, <2>2
  <2> QED
    BY <2>1, <2>3, EmptySeq
<1>2. ~ SyncAt(1)
  <2>1. Len(BinarySync) \in Nat /\ Len(BinarySync) >= 2
    BY BytesAssumption, LenProperties
  <2> QED
    BY <1>1, <2>1 DEF SyncAt
<1>3. ~ AsciiOnlyLine /\ ~ LineBeforeSync /\ ~ SkipToSync /\ ~ DropByte
  BY <1>1 DEF AsciiOnlyLine, LineBeforeSync, SkipToSync, DropByte, NothingFound
<1>4. ~ RejectTooLarge /\ ~ RejectBadCrc /\ ~ EmitFrame
  BY <1>2 DEF RejectTooLarge, RejectBadCrc, EmitFrame, AtCandidate
<1> QED
  BY <1>3, <1>4 DEF Drain, DrainDone, CandidateWaits, HoldPartial

-----------------------------------------------------------------------------
(* A line without noise *)

\* What the theorem is about: a line that damages nothing, binary mode.
NoNoise == \A m \in Message : Damaged(BytesOf(m)) = {}
BinaryMode == \A o \in Options : o[1]

\* The events are the first messages, and all that is taken are their bytes.
CleanInv ==
    /\ enable_binary
    /\ \A i \in 1..Len(sent) : sent[i].intact
    /\ Len(events) <= Len(sent)
    /\ consumed = Start(Len(events))
    /\ \A k \in 1..Len(events) : /\ events[k].kind = sent[k].message.kind
                                 /\ events[k].bytes = sent[k].message.text

\* Events as messages, and messages as the channel sees them.
LEMMA ChannelTypes ==
    ASSUME IInv, LineOK
    PROVE  /\ Sent \in Seq(Message) /\ Len(Sent) = Len(sent)
           /\ \A i \in 1..Len(sent) : Sent[i] = sent[i].message
           /\ Len(Delivered) = Len(events) /\ Len(events) \in Nat /\ Len(sent) \in Nat
           /\ Delivered \in Seq([kind : {"line", "frame"}, text : Seq(Byte)])
           /\ \A k \in 1..Len(events) :
                 Delivered[k] = [kind |-> events[k].kind, text |-> events[k].bytes]
<1> DEFINE Msg == [kind : {"line", "frame"}, text : Seq(Byte)]
<1>1. Len(sent) \in Nat /\ \A i \in 1..Len(sent) : sent[i].message \in Message
  BY SentTypes DEF LineOK
<1>2. Sent \in Seq(Message) /\ Len(Sent) = Len(sent)
  BY <1>1 DEF Sent
<1>3. Len(events) \in Nat /\ \A k \in 1..Len(events) : events[k] \in Event
  BY EventTypes DEF IInv
<1>4. \A k \in 1..Len(events) : [kind |-> events[k].kind, text |-> events[k].bytes] \in Msg
  BY <1>3, EventFields
<1>5. Delivered \in Seq(Msg) /\ Len(Delivered) = Len(events)
  <2> HIDE DEF Msg
  <2> QED
    BY <1>3, <1>4 DEF Delivered
<1> QED
  BY <1>2, <1>3, <1>1, <1>5 DEF Sent, Delivered

\* Without noise a sent message is one more message for the channel.
LEMMA CleanSend ==
    ASSUME IInv, LineOK, CleanInv, NoNoise, Send \/ SendDamaged
    PROVE  CleanInv' /\ Channel!Next
<1>1. PICK m \in Message : Put(m, BytesOf(m), TRUE)
  <2>1. ~ SendDamaged
    BY DEF SendDamaged, NoNoise
  <2> QED
    BY <2>1 DEF Send
<1> DEFINE new == [message |-> m, at |-> Len(received) + Len(wire), intact |-> TRUE]
           Rec == [message : Message, at : Nat, intact : BOOLEAN]
<1>2. sent' = Append(sent, new) /\ UNCHANGED vars
  BY <1>1 DEF Put
<1>3. IInv' /\ LineOK'
  BY SendStep
<1>4. /\ sent \in Seq(Rec) /\ Len(sent) \in Nat /\ Len(events) \in Nat
      /\ Len(received) \in Nat /\ Len(wire) \in Nat /\ Len(OnLine) = Len(received) + Len(wire)
  BY SentTypes, OnLineBytes, ChannelTypes DEF LineOK, SentType, IInv
<1>5. new \in Rec /\ new.message = m /\ new.at = Len(OnLine) /\ new.intact
  BY <1>4
<1>6. /\ Len(sent') = Len(sent) + 1 /\ sent'[Len(sent) + 1] = new
      /\ \A i \in 1..Len(sent) : sent'[i] = sent[i]
  <2> HIDE DEF new, Rec
  <2> QED
    BY <1>2, <1>4, <1>5, AppendProperties
<1> HIDE DEF new, Rec
<1>7. events' = events /\ consumed' = consumed /\ enable_binary' = enable_binary
  BY <1>2 DEF vars, options
<1>8. \A i \in 1..Len(sent') : i \in 1..Len(sent) \/ i = Len(sent) + 1
  BY <1>4, <1>6
<1>9. \A i \in 1..Len(sent') : sent'[i].intact
  BY <1>5, <1>6, <1>8 DEF CleanInv
<1>10. Start(Len(events))' = Start(Len(events))
  <2>1. Len(events) <= Len(sent)
    BY DEF CleanInv
  <2>2. Start(Len(events))' = sent'[Len(events) + 1].at
    BY <1>4, <1>6, <1>7, <2>1 DEF Start
  <2>3. CASE Len(events) = Len(sent)
    BY <1>4, <1>5, <1>6, <2>2, <2>3 DEF Start
  <2>4. CASE Len(events) < Len(sent)
    BY <1>4, <1>6, <2>2, <2>4 DEF Start
  <2> QED
    BY <1>4, <2>1, <2>3, <2>4
<1>11. CleanInv'
  <2>1. Len(events') <= Len(sent')
    BY <1>4, <1>6, <1>7 DEF CleanInv
  <2>2. \A k \in 1..Len(events') : /\ events'[k].kind = sent'[k].message.kind
                                   /\ events'[k].bytes = sent'[k].message.text
    BY SMTT(30), <1>4, <1>6, <1>7 DEF CleanInv
  <2>3. consumed' = Start(Len(events))'
    BY <1>7, <1>10 DEF CleanInv
  <2> QED
    BY <1>7, <1>9, <2>1, <2>2, <2>3 DEF CleanInv
<1>12. Sent' = Append(Sent, m)
  <2>1. /\ Sent \in Seq(Message) /\ Len(Sent) = Len(sent)
        /\ \A i \in 1..Len(sent) : Sent[i] = sent[i].message
    BY ChannelTypes
  <2>2. /\ Sent' \in Seq(Message) /\ Len(Sent') = Len(sent')
        /\ \A i \in 1..Len(sent') : Sent'[i] = sent'[i].message
    <3>1. Len(sent') \in Nat /\ \A i \in 1..Len(sent') : sent'[i].message \in Message
      BY SMTT(30), <1>4, <1>5, <1>6, <1>8, SentTypes DEF LineOK
    <3> QED
      BY <3>1 DEF Sent
  <2>3. /\ Append(Sent, m) \in Seq(Message) /\ Len(Append(Sent, m)) = Len(Sent) + 1
        /\ \A i \in 1..Len(Sent) : Append(Sent, m)[i] = Sent[i]
        /\ Append(Sent, m)[Len(Sent) + 1] = m
    BY <2>1, AppendProperties
  <2>4. ASSUME NEW i \in 1..Len(Sent')
        PROVE  Sent'[i] = Append(Sent, m)[i]
    <3>1. CASE i = Len(sent) + 1
      BY <1>5, <1>6, <2>1, <2>2, <2>3, <3>1
    <3>2. CASE i \in 1..Len(sent)
      BY <1>6, <2>1, <2>2, <2>3, <3>2
    <3> QED
      BY <1>8, <2>2, <3>1, <3>2
  <2> QED
    BY <1>6, <2>1, <2>2, <2>3, <2>4, SeqEqual
<1>13. Delivered' = Delivered
  BY <1>7 DEF Delivered
<1> QED
  BY <1>11, <1>12, <1>13 DEF Channel!Next, Channel!Send

\* Without noise a turn of drain() delivers the next message or nothing.
LEMMA CleanDrain ==
    ASSUME IInv, LineOK, CleanInv, DrainStep
    PROVE  CleanInv' /\ (Channel!Next \/ UNCHANGED <<Sent, Delivered>>)
<1> PICK N \in Nat : N = Len(events)
  BY ChannelTypes
<1>1. Drain /\ UNCHANGED <<options, sent, received, OnLine>>
  BY DrainKeepsLine DEF DrainStep
<1>2. /\ enable_binary' = enable_binary /\ enable_binary /\ sent' = sent /\ Sent' = Sent
      /\ Len(sent) \in Nat /\ N <= Len(sent) /\ consumed = Start(N)
  BY <1>1, ChannelTypes DEF options, CleanInv, Sent
<1>3. \A k \in Nat : Start(k)' = Start(k)
  BY <1>1 DEF Start
<1>4. CASE UNCHANGED <<consumed, events>>
  <2>1. consumed' = Start(Len(events))'
    BY <1>2, <1>3, <1>4
  <2> QED
    BY <1>2, <1>4, <2>1 DEF CleanInv, Delivered
<1>5. CASE N < Len(sent) /\ ComesOut(N + 1)
  <2> DEFINE m == sent[N + 1].message
             Msg == [kind : {"line", "frame"}, text : Seq(Byte)]
  <2>1. /\ N + 1 \in 1..Len(sent) /\ m \in Message /\ m \in Msg
        /\ m = [kind |-> m.kind, text |-> m.text]
    <3>1. N + 1 \in 1..Len(sent)
      BY <1>2, <1>5
    <3>2. m \in Message
      BY <3>1, SentTypes DEF LineOK
    <3>3. m \in Msg
      BY <3>2, StreamAssumption
    <3> QED
      BY <3>1, <3>2, <3>3
  <2>2. PICK e : /\ events' = Append(events, e)
                 /\ e.kind = m.kind /\ e.bytes = m.text
    BY <1>5 DEF ComesOut
  <2>3. /\ Len(events') = N + 1 /\ events'[N + 1] = e
        /\ \A k \in 1..N : events'[k] = events[k]
    <3>1. events \in Seq(Event)
      BY DEF IInv, TypeOK
    <3>2. events \in Seq(Event \cup {e}) /\ e \in Event \cup {e}
      BY <3>1, SeqMonotonic
    <3> QED
      BY <2>2, <3>2, AppendProperties
  <2> HIDE DEF m, Msg
  <2>4. \A k \in 1..(N + 1) : k \in 1..N \/ k = N + 1
    OBVIOUS
  <2>5. consumed' = Start(Len(events))'
    <3>1. Start(N + 1) = sent[N + 1].at + Size(N + 1)
      BY <2>1 DEF CleanInv, LineOK, IntactAreThere
    <3>2. consumed' = Start(N + 1)
      BY <1>5, <3>1 DEF ComesOut
    <3>3. Start(Len(events))' = Start(N + 1)'
      BY <2>3 DEF Start
    <3> QED
      BY <1>3, <3>2, <3>3
  <2>6. CleanInv'
    <3>1. \A k \in 1..(N + 1) : /\ events'[k].kind = sent[k].message.kind
                                /\ events'[k].bytes = sent[k].message.text
      <4>1. /\ \A k \in 1..N : /\ events'[k].kind = sent[k].message.kind
                                /\ events'[k].bytes = sent[k].message.text
        BY <2>3 DEF CleanInv
      <4>2. /\ events'[N + 1].kind = sent[N + 1].message.kind
            /\ events'[N + 1].bytes = sent[N + 1].message.text
        BY <2>2, <2>3 DEF m
      <4> QED
        BY <2>4, <4>1, <4>2
    <3>2. N + 1 <= Len(sent)
      BY <1>2, <1>5
    <3> QED
      BY <1>2, <2>3, <2>5, <3>1, <3>2 DEF CleanInv
  <2>7. Delivered' = Append(Delivered, m)
    <3>1. /\ Delivered \in Seq(Msg) /\ Len(Delivered) = N
          /\ \A k \in 1..N : Delivered[k] = [kind |-> events[k].kind, text |-> events[k].bytes]
      BY ChannelTypes DEF Msg
    <3>2. /\ Append(Delivered, m) \in Seq(Msg) /\ Len(Append(Delivered, m)) = N + 1
          /\ \A k \in 1..N : Append(Delivered, m)[k] = Delivered[k]
          /\ Append(Delivered, m)[N + 1] = m
      BY <2>1, <3>1, AppendProperties
    <3>3. Delivered' = [k \in 1..(N + 1) |->
                          [kind |-> events'[k].kind, text |-> events'[k].bytes]]
      BY <2>3 DEF Delivered
    <3>4. ASSUME NEW k \in 1..(N + 1)
          PROVE  [kind |-> events'[k].kind, text |-> events'[k].bytes]
                    = Append(Delivered, m)[k]
      <4>1. CASE k = N + 1
        BY <2>1, <2>2, <2>3, <3>2, <4>1
      <4>2. CASE k \in 1..N
        BY <2>3, <3>1, <3>2, <4>2
      <4> QED
        BY <2>4, <4>1, <4>2
    <3>5. Append(Delivered, m) = [k \in 1..(N + 1) |-> Append(Delivered, m)[k]]
      BY <3>2, LenProperties
    <3> QED
      BY <3>3, <3>4, <3>5
  <2>8. /\ Len(Delivered) < Len(Sent) /\ Sent[Len(Delivered) + 1] = m
    <3>1. /\ Len(Sent) = Len(sent) /\ Len(Delivered) = N
          /\ \A i \in 1..Len(sent) : Sent[i] = sent[i].message
      BY ChannelTypes
    <3> QED
      BY <1>5, <2>1, <3>1 DEF m
  <2> QED
    BY <1>2, <2>6, <2>7, <2>8 DEF Channel!Next, Channel!Deliver
<1>6. CASE N < Len(sent)
  <2>1. /\ N + 1 \in 1..Len(sent) /\ sent[N + 1].intact
        /\ consumed = sent[N + 1].at
    BY <1>2, <1>6 DEF Start, CleanInv
  <2> QED
    BY <1>1, <1>2, <1>4, <1>5, <1>6, <2>1, FrontMessage
<1>7. CASE N = Len(sent)
  <2>1. consumed = Len(OnLine)
    BY <1>2, <1>7 DEF Start
  <2> QED
    BY <1>1, <1>2, <1>4, <2>1, NothingLeft
<1> QED
  BY <1>2, <1>6, <1>7

\* A read changes neither what was sent nor what was delivered.
LEMMA CleanRead ==
    ASSUME IInv, LineOK, CleanInv, Read
    PROVE  CleanInv' /\ UNCHANGED <<Sent, Delivered>>
<1>1. UNCHANGED <<options, sent, consumed, events, OnLine>>
  BY ReadStep
<1>2. Start(Len(events))' = Start(Len(events))
  BY <1>1 DEF Start
<1> QED
  BY <1>1, <1>2 DEF CleanInv, options, Sent, Delivered

\* Before the first byte nothing is on the line.
LEMMA StreamStart == StreamInit => IInv /\ LineOK
<1> SUFFICES ASSUME StreamInit PROVE IInv /\ LineOK
  OBVIOUS
<1>1. IInv /\ wire = <<>> /\ sent = <<>> /\ received = <<>>
  BY InitIInv DEF StreamInit, Init
<1>2. SentType /\ Len(sent) = 0
  BY <1>1, EmptySeq DEF SentType
<1>3. Len(OnLine) = 0
  <2>1. Len(wire) = 0 /\ Len(received) = 0
    BY <1>1, EmptySeq
  <2> QED
    BY <1>1, <1>2, <2>1, OnLineBytes DEF IInv
<1>4. InOrder /\ IntactAreThere
  BY <1>2, <1>3 DEF InOrder, IntactAreThere, Start
<1> QED
  BY <1>1, <1>2, <1>4 DEF LineOK

\* Nothing happens.
LEMMA StreamStutter ==
    ASSUME IInv, LineOK, UNCHANGED streamVars
    PROVE  /\ IInv' /\ LineOK'
           /\ UNCHANGED <<enable_binary, strict_binary_crc, sent, consumed, events, OnLine>>
<1>1. UNCHANGED vars /\ UNCHANGED <<wire, sent>>
  BY DEF streamVars, link
<1>2. IInv'
  BY <1>1 DEF vars, options, counters, history, IInv, TypeOK, BufferIsStreamSuffix,
     CandidatesAccounted, SyncAt, FramesAreGenuine, EventsDisjoint
<1>3. OnLine' = OnLine
  BY <1>1 DEF OnLine, vars, history
<1>4. LineOK'
  BY <1>1, <1>3, SameLine DEF LineOK, SentType
<1> QED
  BY <1>1, <1>2, <1>3, <1>4 DEF vars, options

\* The invariants of the transport hold at the end of the line, however the
\* reads cut it, and an intact message lies on the line as it was sent.
THEOREM LineInvariant == StreamSpec => [](IInv /\ LineOK)
<1>1. ASSUME IInv, LineOK, [StreamNext]_streamVars
      PROVE  IInv' /\ LineOK'
  BY <1>1, SendStep, ReadStep, DrainKeepsLine, StreamStutter DEF StreamNext
<1> QED
  BY StreamStart, <1>1, PTL DEF StreamSpec

\* On a line without noise the transport is a channel: what comes out are the
\* messages that were sent, whole, in order, none lost and none made up,
\* however the reads cut the stream, in strict mode and in lax mode.
THEOREM ChannelSafety ==
    ASSUME NoNoise, BinaryMode
    PROVE  StreamSpec => Channel!Safety
<1>1. StreamInit => CleanInv /\ Channel!Init
  <2> SUFFICES ASSUME StreamInit PROVE CleanInv /\ Channel!Init
    OBVIOUS
  <2>1. events = <<>> /\ sent = <<>> /\ consumed = 0 /\ enable_binary
    BY DEF StreamInit, Init, BinaryMode
  <2>2. Len(events) = 0 /\ Len(sent) = 0
    BY <2>1, EmptySeq
  <2>3. consumed = Start(Len(events))
    BY <2>1, <2>2, StreamStart DEF LineOK, InOrder
  <2>4. Sent = <<>> /\ Delivered = <<>>
    BY <2>2 DEF Sent, Delivered
  <2> QED
    BY <2>1, <2>2, <2>3, <2>4 DEF CleanInv, Channel!Init
<1>2. ASSUME IInv, LineOK, CleanInv, [StreamNext]_streamVars
      PROVE  CleanInv' /\ [Channel!Next]_<<Sent, Delivered>>
  <2>1. CASE Send \/ SendDamaged
    BY <1>2, <2>1, CleanSend
  <2>2. CASE Read
    BY <1>2, <2>2, CleanRead
  <2>3. CASE DrainStep
    BY <1>2, <2>3, CleanDrain
  <2>4. CASE UNCHANGED streamVars
    <3>1. UNCHANGED <<enable_binary, sent, consumed, events, OnLine>>
      BY <1>2, <2>4, StreamStutter
    <3>2. Start(Len(events))' = Start(Len(events))
      BY <3>1 DEF Start
    <3> QED
      BY <1>2, <3>1, <3>2 DEF CleanInv, Sent, Delivered
  <2> QED
    BY <1>2, <2>1, <2>2, <2>3, <2>4 DEF StreamNext
<1> QED
  BY <1>1, <1>2, LineInvariant, PTL DEF StreamSpec, Channel!Safety

-----------------------------------------------------------------------------
(* A line with noise *)

\* Numbers that the arguments below count with.
LEMMA Places ==
    ASSUME IInv, LineOK
    PROVE  /\ consumed \in Nat /\ Len(buffer) \in Nat /\ Len(received) \in Nat
           /\ consumed + Len(buffer) = Len(received)
           /\ Len(OnLine) \in Nat /\ Len(received) <= Len(OnLine)
           /\ \A i \in 1..Len(received) : OnLine[i] = received[i]
           /\ Len(sent) \in Nat /\ Len(events) \in Nat
<1>1. /\ consumed \in Nat /\ Len(buffer) \in Nat
      /\ consumed + Len(buffer) = Len(received)
  BY LenProperties DEF IInv, TypeOK, BufferIsStreamSuffix
<1>2. /\ Len(OnLine) = Len(received) + Len(wire) /\ Len(OnLine) \in Nat
      /\ Len(received) \in Nat /\ Len(wire) \in Nat
      /\ \A i \in 1..Len(received) : OnLine[i] = received[i]
  BY OnLineBytes DEF IInv, LineOK
<1> QED
  BY <1>1, <1>2, EventTypes, SentTypes DEF IInv, LineOK

\* Events are only added.
LEMMA EventsGrow ==
    ASSUME IInv, Drain
    PROVE  /\ Len(events') \in Nat /\ Len(events) <= Len(events')
           /\ \A k \in 1..Len(events) : events'[k] = events[k]
<1>1. events \in Seq(Event) /\ Len(events) \in Nat
  BY EventTypes DEF IInv, TypeOK
<1>2. events' = events \/ \E e : events' = Append(events, e)
  BY DEF Drain, AsciiOnlyLine, LineBeforeSync, ExtractLine, EmitFrame, RejectTooLarge,
     RejectBadCrc, RejectCandidate, SkipToSync, DropByte, DrainDone, CandidateWaits, HoldPartial
<1>3. ASSUME NEW e, events' = Append(events, e)
      PROVE  /\ Len(events') = Len(events) + 1
             /\ \A k \in 1..Len(events) : events'[k] = events[k]
  <2>1. events \in Seq(Event \cup {e}) /\ e \in Event \cup {e}
    BY <1>1, SeqMonotonic
  <2> QED
    BY <1>3, <2>1, AppendProperties
<1> QED
  BY <1>1, <1>2, <1>3

\* What came out stays.
LEMMA RecoveredStays ==
    ASSUME IInv, Drain, sent' = sent, NEW i, Recovered(i)
    PROVE  Recovered(i)'
<1>1. PICK k \in 1..Len(events) : /\ events[k].at = sent[i].at
                                 /\ events[k].kind = sent[i].message.kind
                                 /\ events[k].bytes = sent[i].message.text
  BY DEF Recovered
<1>2. k \in 1..Len(events') /\ events'[k] = events[k]
  BY EventsGrow, EventTypes DEF IInv
<1> QED
  BY <1>1, <1>2 DEF Recovered

\* A message that comes out is recovered.
LEMMA ComesOutRecovers ==
    ASSUME IInv, sent' = sent, NEW i, ComesOut(i)
    PROVE  Recovered(i)'
<1>1. events \in Seq(Event) /\ Len(events) \in Nat
  BY EventTypes DEF IInv, TypeOK
<1>2. PICK e : /\ events' = Append(events, e)
               /\ e.kind = sent[i].message.kind /\ e.at = sent[i].at
               /\ e.bytes = sent[i].message.text
  BY DEF ComesOut
<1>3. events \in Seq(Event \cup {e}) /\ e \in Event \cup {e}
  BY <1>1, SeqMonotonic
<1>4. Len(events') = Len(events) + 1 /\ events'[Len(events) + 1] = e
  BY <1>2, <1>3, AppendProperties
<1>5. Len(events) + 1 \in 1..Len(events')
  BY <1>1, <1>4
<1> QED
  BY <1>2, <1>4, <1>5 DEF Recovered

\* A frame that came out is behind everything taken.
LEMMA RecoveredIsTaken ==
    ASSUME IInv, LineOK, NEW i \in 1..Len(sent), sent[i].intact,
           sent[i].message.kind = "frame", Recovered(i)
    PROVE  Start(i) <= consumed
<1>1. PICK k \in 1..Len(events) : /\ events[k].at = sent[i].at
                                 /\ events[k].kind = sent[i].message.kind
                                 /\ events[k].bytes = sent[i].message.text
  BY DEF Recovered
<1>2. Len(events[k].bytes) = events[k].size
  BY <1>1 DEF IInv, FramesAreGenuine, GenuineFrame
<1>3. Size(i) = events[k].size
  BY <1>1, <1>2, SentTypes, MessageBytes DEF LineOK, Size
<1>4. events[k].at + events[k].size <= consumed
  BY DEF IInv, EventsDisjoint
<1>5. Start(i) = sent[i].at + Size(i)
  BY DEF LineOK, IntactAreThere
<1> QED
  BY <1>1, <1>3, <1>4, <1>5

\* A frame that comes out was sent, so it ends before the next message.
LEMMA EmittedIsSent ==
    ASSUME IInv, LineOK, IInv', strict_binary_crc', NoFabricatedFrame', EmitFrame, sent' = sent,
           NEW i \in 1..Len(sent), consumed < sent[i].at
    PROVE  consumed' <= sent[i].at
<1>1. events \in Seq(Event) /\ Len(events) \in Nat /\ consumed \in Nat
  BY EventTypes DEF IInv, TypeOK
<1>2. events' = Append(events, FrameEvent) /\ consumed' = consumed + FrameSize
  BY DEF EmitFrame, EraseFront
<1>3. /\ FrameEvent.kind = "frame" /\ FrameEvent.at = consumed
      /\ FrameEvent.size = FrameSize /\ FrameEvent.bytes = Candidate
  BY DEF FrameEvent
<1> DEFINE N == Len(events) + 1
<1> HIDE DEF FrameEvent, FrameSize, Candidate
<1>4. N \in 1..Len(events') /\ events'[N] = FrameEvent
  <2>1. events \in Seq(Event \cup {FrameEvent}) /\ FrameEvent \in Event \cup {FrameEvent}
    BY <1>1, SeqMonotonic
  <2>2. Len(events') = Len(events) + 1 /\ events'[Len(events) + 1] = FrameEvent
    BY <1>2, <2>1, AppendProperties
  <2> QED
    BY <1>1, <2>2
<1> HIDE DEF N
<1>5. PICK j \in 1..Len(sent) :
        /\ sent[j].intact /\ sent[j].at = consumed
        /\ sent[j].message = [kind |-> "frame", text |-> Candidate]
  BY <1>3, <1>4 DEF NoFabricatedFrame
<1>6. Len(Candidate) = FrameSize
  BY <1>3, <1>4 DEF IInv, FramesAreGenuine, GenuineFrame
<1>7. Size(j) = FrameSize
  BY <1>5, <1>6 DEF Size, BytesOf
<1>8. Start(j) = consumed'
  BY <1>2, <1>5, <1>7 DEF LineOK, IntactAreThere
<1>9. /\ sent[i].at \in Nat /\ sent[j].at \in Nat /\ Start(i) \in Nat
      /\ i \in 0..Len(sent) /\ Len(sent) \in Nat
  <2>1. Len(sent) \in Nat
    BY Places
  <2>2. i \in 0..Len(sent)
    BY <2>1
  <2> QED
    BY <2>1, <2>2, SentTypes, StartTypes DEF IInv, LineOK
<1>10. j < i
  <2>1. i < j => Start(i) <= sent[j].at
    BY DEF LineOK, InOrder
  <2>2. sent[i].at <= Start(i)
    BY DEF LineOK, InOrder
  <2>3. i # j
    BY <1>5, <1>9
  <2>4. ~ (i < j)
    BY <1>5, <1>9, <2>1, <2>2
  <2> QED
    BY <1>9, <2>3, <2>4
<1>11. Start(j) <= sent[i].at
  BY <1>10 DEF LineOK, InOrder
<1> QED
  BY <1>8, <1>11

\* Resynchronisation stops in front of an intact frame.
LEMMA BeforeFrame ==
    ASSUME IInv, LineOK, enable_binary, Drain, ~ EmitFrame,
           NEW i \in 1..Len(sent), sent[i].intact, sent[i].message.kind = "frame",
           consumed < sent[i].at
    PROVE  consumed' <= sent[i].at
<1> DEFINE p == sent[i].at - consumed
           S == Len(BinarySync)
<1>1. /\ sent[i].at \in Nat /\ consumed \in Nat /\ Len(buffer) \in Nat
      /\ p \in Nat \ {0} /\ p + consumed = sent[i].at
  BY SMTT(30), Places, SentTypes DEF LineOK
<1> HIDE DEF p
<1>2. /\ S \in Nat /\ S >= 2
      /\ \A k \in 1..S : p + k <= Len(buffer) => buffer[p + k] # Newline
      /\ p + S <= Len(buffer) => SyncAt(p + 1)
  BY <1>1, FrameSyncInBuffer
<1> HIDE DEF S
<1>3. CASE RejectTooLarge \/ RejectBadCrc \/ DropByte
  BY <1>1, <1>3 DEF RejectTooLarge, RejectBadCrc, RejectCandidate, DropByte, EraseFront
<1>4. CASE DrainDone \/ CandidateWaits \/ HoldPartial
  BY <1>1, <1>4 DEF DrainDone, CandidateWaits, HoldPartial
<1>5. CASE LineBeforeSync
  <2>1. PICK n \in 1..Len(buffer) : /\ \A q \in 1..n : ~ SyncAt(q)
                                   /\ buffer[n] = Newline /\ consumed' = consumed + n
    BY <1>5 DEF LineBeforeSync, ExtractLine, FirstNewlineAt, EraseFront
  <2>2. n <= p
    <3> SUFFICES ASSUME n > p PROVE FALSE
      BY <1>1
    <3>1. CASE n <= p + S
      <4>1. PICK k \in 1..S : n = p + k
        <5>1. n - p \in 1..S /\ n = p + (n - p)
          BY <1>1, <1>2, <3>1
        <5> QED
          BY <5>1
      <4> QED
        BY <1>1, <1>2, <2>1, <4>1
    <3>2. CASE n > p + S
      <4>1. p + 1 \in 1..n /\ p + S <= Len(buffer)
        BY <1>1, <1>2, <3>2
      <4> QED
        BY <1>2, <2>1, <4>1
    <3> QED
      BY <1>1, <1>2, <3>1, <3>2
  <2> QED
    BY <1>1, <2>1, <2>2
<1>6. CASE SkipToSync
  <2>1. PICK n \in 2..Len(buffer) : /\ SyncAt(n) /\ \A q \in 1..(n - 1) : ~ SyncAt(q)
                                   /\ consumed' = consumed + (n - 1)
    BY <1>6 DEF SkipToSync, FirstSyncAt, EraseFront
  <2>2. n + S - 1 <= Len(buffer)
    BY <2>1 DEF SyncAt, S
  <2>3. n - 1 <= p
    <3> SUFFICES ASSUME n - 1 > p PROVE FALSE
      BY <1>1
    <3>1. p + 1 \in 1..(n - 1) /\ p + S <= Len(buffer)
      BY <1>1, <1>2, <2>2
    <3> QED
      BY <1>2, <2>1, <3>1
  <2> QED
    BY <1>1, <2>1, <2>3
<1>7. ~ AsciiOnlyLine
  BY DEF AsciiOnlyLine
<1> QED
  BY <1>3, <1>4, <1>5, <1>6, <1>7 DEF Drain

\* Resynchronisation stops behind a newline.
LEMMA BeforeNewline ==
    ASSUME IInv, LineOK, enable_binary, Drain, ~ EmitFrame,
           NEW q \in Nat, consumed < q, q <= Len(OnLine), OnLine[q] = Newline
    PROVE  consumed' <= q
<1> DEFINE d == q - consumed
<1>1. /\ consumed \in Nat /\ Len(buffer) \in Nat /\ d \in Nat \ {0} /\ consumed + d = q
      /\ consumed + Len(buffer) = Len(received)
  BY Places
<1> HIDE DEF d
<1>2. ASSUME d <= Len(buffer)
      PROVE  buffer[d] = Newline
  <2>1. d \in 1..Len(buffer) /\ q \in 1..Len(received)
    BY <1>1, <1>2
  <2>2. buffer[d] = received[consumed + d]
    BY <2>1 DEF IInv, BufferIsStreamSuffix
  <2> QED
    BY <1>1, <2>1, <2>2, Places
<1>3. CASE RejectTooLarge \/ RejectBadCrc \/ DropByte
  BY <1>1, <1>3 DEF RejectTooLarge, RejectBadCrc, RejectCandidate, DropByte, EraseFront
<1>4. CASE DrainDone \/ CandidateWaits \/ HoldPartial
  BY <1>1, <1>4 DEF DrainDone, CandidateWaits, HoldPartial
<1>5. CASE LineBeforeSync
  <2>1. PICK n \in 1..Len(buffer) : /\ \A k \in 1..(n - 1) : buffer[k] # Newline
                                   /\ consumed' = consumed + n
    BY <1>5 DEF LineBeforeSync, ExtractLine, FirstNewlineAt, EraseFront
  <2>2. n <= d
    <3> SUFFICES ASSUME n > d PROVE FALSE
      BY <1>1
    <3>1. d \in 1..(n - 1) /\ d <= Len(buffer)
      BY <1>1
    <3> QED
      BY <1>2, <2>1, <3>1
  <2> QED
    BY <1>1, <2>1, <2>2
<1>6. CASE SkipToSync
  <2>1. PICK n \in 2..Len(buffer) : /\ \A k \in 1..n : buffer[k] # Newline
                                   /\ consumed' = consumed + (n - 1)
    BY <1>6 DEF SkipToSync, EraseFront
  <2>2. n - 1 <= d
    <3> SUFFICES ASSUME n - 1 > d PROVE FALSE
      BY <1>1
    <3>1. d \in 1..n /\ d <= Len(buffer)
      BY <1>1
    <3> QED
      BY <1>2, <2>1, <3>1
  <2> QED
    BY <1>1, <2>1, <2>2
<1>7. ~ AsciiOnlyLine
  BY DEF AsciiOnlyLine
<1> QED
  BY <1>3, <1>4, <1>5, <1>6, <1>7 DEF Drain

\* Both modes of the recovery: frames, and lines behind intact messages.
Recovery == enable_binary /\ strict_binary_crc

\* The messages the recovery speaks of.
Intact(i, kind) == sent[i].intact /\ sent[i].message.kind = kind

\* A turn of drain() does not go past an intact frame.
LEMMA FrameIsNotPassed ==
    ASSUME IInv, LineOK, IInv', Recovery, UNCHANGED options, NoFabricatedFrame', Drain,
           sent' = sent, NEW i \in 1..Len(sent), Intact(i, "frame"), consumed <= sent[i].at
    PROVE  consumed' <= sent[i].at \/ ComesOut(i)
<1>1. sent[i].at \in Nat /\ consumed \in Nat
  BY Places, SentTypes DEF LineOK
<1>2. enable_binary /\ strict_binary_crc'
  BY DEF Recovery, options
<1>3. CASE consumed = sent[i].at
  BY <1>1, <1>2, <1>3, FrontMessage DEF Intact
<1>4. CASE consumed < sent[i].at /\ EmitFrame
  BY <1>2, <1>4, EmittedIsSent
<1>5. CASE consumed < sent[i].at /\ ~ EmitFrame
  BY <1>2, <1>5, BeforeFrame DEF Intact
<1> QED
  BY <1>1, <1>3, <1>4, <1>5

\* Nor past an intact line behind an intact message.
LEMMA LineIsNotPassed ==
    ASSUME IInv, LineOK, IInv', Recovery, UNCHANGED options, NoFabricatedFrame', Drain,
           sent' = sent, IntactFramesRecovered,
           NEW i \in 1..Len(sent), Intact(i, "line"), i = 1 \/ sent[i - 1].intact,
           consumed <= sent[i].at
    PROVE  consumed' <= sent[i].at \/ ComesOut(i)
<1>1. sent[i].at \in Nat /\ consumed \in Nat /\ Len(sent) \in Nat
  BY Places, SentTypes DEF LineOK
<1>2. enable_binary /\ strict_binary_crc'
  BY DEF Recovery, options
<1>3. CASE consumed = sent[i].at
  BY <1>1, <1>2, <1>3, FrontMessage DEF Intact
<1>4. CASE consumed < sent[i].at /\ EmitFrame
  BY <1>2, <1>4, EmittedIsSent
<1>5. CASE consumed < sent[i].at /\ ~ EmitFrame
  <2> DEFINE h == i - 1
  <2>1. h + 1 \in 1..Len(sent) /\ h < Len(sent) /\ h + 1 = i /\ Start(h) = sent[i].at
    BY <1>1 DEF Start
  <2>2. i # 1
    <3>1. i = 1 => Start(0) = sent[i].at
      BY <1>1 DEF Start
    <3>2. Start(0) = 0
      BY DEF LineOK, InOrder
    <3> QED
      BY <1>1, <1>5, <3>1, <3>2
  <2>3. h \in 1..Len(sent) /\ sent[h].intact
    BY <1>1, <2>2
  <2> HIDE DEF h
  <2>4. /\ sent[h].message \in Message /\ sent[h].at \in Nat /\ Size(h) \in Nat \ {0}
        /\ Start(h) = sent[h].at + Size(h)
    BY <2>3, SentTypes DEF LineOK, IntactAreThere
  <2>5. CASE sent[h].message.kind = "frame"
    <3>1. consumed <= sent[h].at
      <4>1. Recovered(h) => Start(h) <= consumed
        BY <2>3, <2>5, RecoveredIsTaken
      <4>2. consumed > sent[h].at => Recovered(h)
        BY <2>3, <2>5 DEF IntactFramesRecovered, Recovery
      <4> QED
        BY <1>1, <1>5, <2>1, <2>4, <4>1, <4>2
    <3>2. consumed' <= sent[h].at \/ ComesOut(h)
      BY <2>3, <2>5, <3>1, FrameIsNotPassed DEF Intact
    <3>3. CASE consumed' <= sent[h].at
      <4>1. consumed' \in Nat
        BY DEF IInv, TypeOK
      <4> QED
        BY <1>1, <2>1, <2>4, <3>3, <4>1
    <3>4. CASE ComesOut(h)
      BY <1>1, <2>1, <2>4, <3>4 DEF ComesOut
    <3> QED
      BY <3>2, <3>3, <3>4
  <2>6. CASE sent[h].message.kind = "line"
    <3>1. /\ Size(h) = Len(sent[h].message.text) + 2
          /\ BytesOf(sent[h].message)[Size(h)] = Newline
      BY SMTT(30), <2>4, <2>6, LineBytes DEF Size
    <3>2. OnLine[sent[h].at + Size(h)] = BytesOf(sent[h].message)[Size(h)]
      <4>1. Size(h) \in 1..Size(h)
        BY <2>4
      <4> QED
        BY <2>3, <4>1 DEF LineOK, IntactAreThere
    <3>3. OnLine[sent[i].at] = Newline
      BY <2>1, <2>4, <3>1, <3>2
    <3>4. sent[i].at <= Len(OnLine)
      <4>1. h \in 0..Len(sent)
        BY <1>1, <2>3
      <4> QED
        BY <2>1, <4>1 DEF LineOK, InOrder
    <3> QED
      BY <1>1, <1>2, <1>5, <3>3, <3>4, BeforeNewline
  <2>7. sent[h].message.kind \in {"line", "frame"}
    BY <2>4, MessageBytes
  <2> QED
    BY <2>5, <2>6, <2>7
<1> QED
  BY <1>1, <1>3, <1>4, <1>5

\* A turn of drain() keeps what was to be recovered.
LEMMA DrainRecovers ==
    ASSUME IInv, LineOK, NoFabricatedFrame', IntactFramesRecovered, IntactLinesRecovered,
           DrainStep
    PROVE  IntactFramesRecovered' /\ IntactLinesRecovered'
<1>1. /\ Drain /\ IInv' /\ sent' = sent /\ UNCHANGED options
      /\ enable_binary' = enable_binary /\ strict_binary_crc' = strict_binary_crc
  BY DrainKeepsLine DEF DrainStep, options
<1>2. /\ consumed' \in Nat /\ consumed \in Nat
      /\ \A i \in 1..Len(sent) : sent[i].at \in Nat
  BY <1>1, Places, SentTypes DEF LineOK, IInv, TypeOK
<1>3. ASSUME Recovery, NEW i \in 1..Len(sent), Intact(i, "frame"), consumed' > sent[i].at
      PROVE  Recovered(i)'
  <2>1. CASE consumed > sent[i].at
    BY <1>1, <1>3, <2>1, RecoveredStays DEF IntactFramesRecovered, Recovery, Intact
  <2>2. CASE consumed <= sent[i].at
    BY <1>1, <1>2, <1>3, <2>2, FrameIsNotPassed, ComesOutRecovers
  <2> QED
    BY <1>2, <2>1, <2>2
<1>4. ASSUME Recovery, NEW i \in 1..Len(sent), Intact(i, "line"), i = 1 \/ sent[i - 1].intact,
             consumed' > sent[i].at
      PROVE  Recovered(i)'
  <2>1. CASE consumed > sent[i].at
    BY <1>1, <1>4, <2>1, RecoveredStays DEF IntactLinesRecovered, Recovery, Intact
  <2>2. CASE consumed <= sent[i].at
    BY <1>1, <1>2, <1>4, <2>2, LineIsNotPassed, ComesOutRecovers
  <2> QED
    BY <1>2, <2>1, <2>2
<1>5. IntactFramesRecovered'
  BY <1>1, <1>3 DEF IntactFramesRecovered, Recovery, Intact
<1>6. IntactLinesRecovered'
  BY <1>1, <1>4 DEF IntactLinesRecovered, Recovery, Intact
<1> QED
  BY <1>5, <1>6

\* A message on its way has not been passed.
LEMMA SendRecovers ==
    ASSUME IInv, LineOK, IntactFramesRecovered, IntactLinesRecovered, Send \/ SendDamaged
    PROVE  IntactFramesRecovered' /\ IntactLinesRecovered'
<1>1. PICK new : /\ sent' = Append(sent, new) /\ new.at = Len(received) + Len(wire)
                 /\ new \in [message : Message, at : Nat, intact : BOOLEAN]
  <2>1. PICK m \in Message, intact \in BOOLEAN : \E bytes : Put(m, bytes, intact)
    BY DEF Send, SendDamaged
  <2>2. Len(received) \in Nat /\ Len(wire) \in Nat
    BY OnLineBytes DEF IInv, LineOK
  <2> DEFINE new == [message |-> m, at |-> Len(received) + Len(wire), intact |-> intact]
  <2>3. sent' = Append(sent, new)
    BY <2>1 DEF Put
  <2>4. /\ new.at = Len(received) + Len(wire)
        /\ new \in [message : Message, at : Nat, intact : BOOLEAN]
    BY <2>2
  <2> QED
    BY <2>3, <2>4
<1>2. /\ enable_binary' = enable_binary /\ strict_binary_crc' = strict_binary_crc
      /\ consumed' = consumed /\ events' = events
  BY SendStep DEF vars, options
<1>3. /\ Len(sent) \in Nat /\ Len(sent') = Len(sent) + 1 /\ sent'[Len(sent) + 1] = new
      /\ \A i \in 1..Len(sent) : sent'[i] = sent[i]
  <2>1. sent \in Seq([message : Message, at : Nat, intact : BOOLEAN]) /\ Len(sent) \in Nat
    BY SentTypes DEF LineOK, SentType
  <2> QED
    BY <1>1, <2>1, AppendProperties
<1>4. consumed <= new.at /\ consumed \in Nat /\ new.at \in Nat
  <2>1. Len(OnLine) = Len(received) + Len(wire)
    BY OnLineBytes DEF IInv, LineOK
  <2> QED
    BY <1>1, <2>1, Places
<1>5. ASSUME NEW i \in 1..Len(sent'), consumed' > sent'[i].at
      PROVE  i \in 1..Len(sent) /\ sent'[i] = sent[i] /\ (Recovered(i) => Recovered(i)')
  <2>1. i # Len(sent) + 1
    BY <1>2, <1>3, <1>4, <1>5
  <2>2. i \in 1..Len(sent) /\ sent'[i] = sent[i]
    BY <1>3, <2>1
  <2> QED
    BY <1>2, <2>2 DEF Recovered
<1>6. IntactFramesRecovered'
  BY <1>2, <1>5 DEF IntactFramesRecovered
<1>7. IntactLinesRecovered'
  <2>1. \A i \in 1..Len(sent) : i = 1 \/ i - 1 \in 1..Len(sent)
    BY <1>3
  <2>2. \A i \in 1..Len(sent) : i # 1 => sent'[i - 1] = sent[i - 1]
    BY <1>3, <2>1
  <2> QED
    BY <1>2, <1>5, <2>2 DEF IntactLinesRecovered
<1> QED
  BY <1>6, <1>7

\* As long as no frame is made up, noise costs no intact message but a line
\* behind a damaged one, whatever is damaged and however.
THEOREM NoiseRecovery ==
    StreamSpec /\ []NoFabricatedFrame => [](IntactFramesRecovered /\ IntactLinesRecovered)
<1>1. StreamInit => IntactFramesRecovered /\ IntactLinesRecovered
  BY EmptySeq DEF StreamInit, IntactFramesRecovered, IntactLinesRecovered
<1>2. ASSUME IInv, LineOK, NoFabricatedFrame', IntactFramesRecovered, IntactLinesRecovered,
             [StreamNext]_streamVars
      PROVE  IntactFramesRecovered' /\ IntactLinesRecovered'
  <2>1. CASE Send \/ SendDamaged
    BY <1>2, <2>1, SendRecovers
  <2>2. CASE Read
    <3>1. /\ enable_binary' = enable_binary /\ strict_binary_crc' = strict_binary_crc
          /\ UNCHANGED <<sent, consumed, events>>
      BY <1>2, <2>2, ReadStep DEF options
    <3> QED
      BY <1>2, <3>1 DEF IntactFramesRecovered, IntactLinesRecovered, Recovered
  <2>3. CASE DrainStep
    BY <1>2, <2>3, DrainRecovers
  <2>4. CASE UNCHANGED streamVars
    <3>1. UNCHANGED <<enable_binary, strict_binary_crc, sent, consumed, events>>
      BY <1>2, <2>4, StreamStutter
    <3> QED
      BY <1>2, <3>1 DEF IntactFramesRecovered, IntactLinesRecovered, Recovered
  <2> QED
    BY <1>2, <2>1, <2>2, <2>3, <2>4 DEF StreamNext
<1> QED
  BY <1>1, <1>2, LineInvariant, PTL DEF StreamSpec

\* No intact frame is lost, whatever damaged lengths and false syncs come
\* before it, if the CRC lets no false frame through.
THEOREM FramesRecovered ==
    StreamSpec /\ []NoFabricatedFrame => []IntactFramesRecovered
<1> QED
  BY NoiseRecovery, PTL

\* No line behind an intact message is lost, under the same condition.
THEOREM LinesRecovered ==
    StreamSpec /\ []NoFabricatedFrame => []IntactLinesRecovered
<1> QED
  BY NoiseRecovery, PTL

-----------------------------------------------------------------------------
(* What the CRC has to do with it *)

\* The transport adds no false frame to those that the CRC cannot tell.
THEOREM NoneFabricated == StreamSpec /\ []CrcTells => []NoFabricatedFrame
<1>1. ASSUME IInv, LineOK, CrcTells
      PROVE  NoFabricatedFrame
  <2> SUFFICES ASSUME strict_binary_crc, NEW k \in 1..Len(events), events[k].kind = "frame"
               PROVE  \E i \in 1..Len(sent) :
                        /\ sent[i].intact /\ sent[i].at = events[k].at
                        /\ sent[i].message = [kind |-> "frame", text |-> events[k].bytes]
    BY DEF NoFabricatedFrame
  <2> DEFINE e == events[k]
  <2>1. /\ e \in Event /\ e.at \in Nat /\ e.size \in Nat /\ e.bytes \in Seq(Byte)
        /\ GenuineFrame(e, received, consumed, strict_binary_crc)
    BY <1>1, EventTypes, EventFields DEF IInv, FramesAreGenuine
  <2> HIDE DEF e
  <2>2. /\ e.at + e.size <= consumed /\ Len(e.bytes) = e.size
        /\ \A i \in 1..e.size : e.bytes[i] = received[e.at + i]
        /\ e.size >= MinFrame
    BY <2>1 DEF GenuineFrame
  <2>3. /\ consumed <= Len(received) /\ consumed \in Nat /\ Len(received) \in Nat
        /\ MinFrame \in Nat \ {0}
    BY <1>1, Places, SizesAssumption DEF MinFrame
  <2>4. e.at \in 0..Len(received) /\ e.size \in 1..Len(received) /\ e.at + e.size <= Len(received)
    BY SMTT(30), <2>1, <2>2, <2>3
  <2>5. SubSeq(received, e.at + 1, e.at + e.size) = e.bytes
    <3>1. received \in Seq(Byte) /\ e.size \in Nat \ {0}
      BY <1>1, <2>1, <2>4 DEF IInv, TypeOK
    <3> QED
      BY <2>1, <2>2, <2>4, <3>1, PieceIs
  <2>6. Piece(e.at, e.size) = [kind |-> "frame", text |-> e.bytes]
    BY <2>5 DEF Piece
  <2>7. IsFrame(Piece(e.at, e.size))
    <3>1. Piece(e.at, e.size).text = e.bytes
      BY <2>6
    <3>2. /\ \A i \in 1..Len(BinarySync) : e.bytes[i] = BinarySync[i]
          /\ e.size = MinFrame + LengthOf(e.bytes[LengthAt])
          /\ e.size <= binary_max_frame_size /\ CrcValid(e.bytes)
      BY <2>1 DEF GenuineFrame
    <3> QED
      BY <2>2, <3>1, <3>2 DEF IsFrame
  <2>8. PICK i \in 1..Len(sent) :
          sent[i].intact /\ sent[i].at = e.at /\ sent[i].message = Piece(e.at, e.size)
    <3>1. PICK at \in 0..Len(received), n \in 1..Len(received) : at = e.at /\ n = e.size
      BY <2>4
    <3>2. at + n <= Len(received) /\ IsFrame(Piece(at, n))
      BY <2>4, <2>7, <3>1
    <3>3. \E i \in 1..Len(sent) :
             sent[i].intact /\ sent[i].at = at /\ sent[i].message = Piece(at, n)
      BY <1>1, <3>2 DEF CrcTells
    <3> QED
      BY <3>1, <3>3
  <2> QED
    BY <2>6, <2>8 DEF e
<1> QED
  BY <1>1, LineInvariant, PTL

\* So with a CRC that tells what was sent from everything else, whatever the
\* damage: every intact frame comes out, and every line behind an intact message.
THEOREM RecoveryFromNoise ==
    StreamSpec /\ []CrcTells => [](IntactFramesRecovered /\ IntactLinesRecovered)
<1> QED
  BY NoneFabricated, NoiseRecovery, PTL
=============================================================================
