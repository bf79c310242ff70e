--------------------------- MODULE SerialLinkProofs ---------------------------
(***************************************************************************)
(* Safety of the serial link for every queue, read, message and history    *)
(* size, any number of devices plugged in one after another, and every way *)
(* opening, reading and writing can fail.                                  *)
(***************************************************************************)
EXTENDS SerialLink, SequenceTheorems, FiniteSetTheorems, TLAPS

\* System calls are made on an open port, and handle_rtcm enters write with a
\* whole message that is not empty.
Writing == pc \in {"write", "wait"}

ControlOK ==
    /\ pc \in {"configure", "read"} \/ Writing => fd # 0
    /\ pc \in {"idle", "ensure", "configure"} => todo = size
    /\ Writing => todo # 0

\* Messages are in the order of the opens they were written under.
LineInOrder ==
    /\ \A i \in 1..Len(line) : line[i].open <= opens
    /\ \A i, j \in 1..Len(line) : i < j => line[i].open <= line[j].open

\* The message being written has been taken in part.
InProgress == Writing /\ todo < size

\* Behind a port that is open and configured there are whole messages, but for
\* the last one while it is being written.
OpenPortHasWhole ==
    /\ fd # 0 /\ pc # "configure" =>
          \A i \in 1..Len(line) :
              line[i].open = opens /\ ~ Whole(line[i]) => InProgress /\ i = Len(line)
    /\ InProgress =>
          /\ line # <<>>
          /\ line[Len(line)] = [open |-> opens, size |-> size, taken |-> size - todo]

\* The inductive invariant.
IInv ==
    /\ TypeOK
    /\ ControlOK
    /\ OneDescriptor
    /\ BufferFromOneOpen
    /\ LineInOrder
    /\ OpenPortHasWhole
    /\ CutMessageEndsSession

USE DEF tty, port, counts, locals

-----------------------------------------------------------------------------
(* The type invariant in parts *)

FlagTypes == plugged \in BOOLEAN /\ baud_ok \in BOOLEAN /\ throttled \in BOOLEAN
TtyTypes == device \in Nat \ {0} /\ rx \in 0..RxCap /\ tx \in 0..TxCap /\ arrived \in Nat
PortTypes == fd \in Nat /\ descriptors \in Nat
ControlTypes == pc \in Pcs /\ caller \in {"none", "poll", "rtcm"}
LocalTypes ==
    /\ asked \in Nat /\ size \in Nat /\ todo \in Nat /\ todo <= size
BufferTypes == buffer \in Seq(Nat) /\ opens \in Nat
CountTypes ==
    /\ rtcm_message_count \in Nat /\ rtcm_byte_count \in Nat
    /\ rtcm_history \in 0..HistorySize

\* All of them.
Types ==
    /\ FlagTypes /\ TtyTypes /\ PortTypes /\ ControlTypes /\ LocalTypes
    /\ BufferTypes /\ CountTypes /\ line \in Seq(Message)

\* The parts together are the type invariant, before a step and after it.
LEMMA TypeParts == TypeOK <=> Types
<1> QED
  BY Zenon DEF TypeOK, Types, FlagTypes, TtyTypes, PortTypes, ControlTypes, LocalTypes,
     BufferTypes, CountTypes

\* The same of the state after a step.
LEMMA TypePartsNext == Types' => TypeOK'
<1> QED
  BY Zenon DEF TypeOK, Types, FlagTypes, TtyTypes, PortTypes, ControlTypes, LocalTypes,
     BufferTypes, CountTypes

-----------------------------------------------------------------------------
(* The buffer and the line *)

\* The elements of a suffix are elements of the sequence.
LEMMA SuffixElements ==
    ASSUME NEW s \in Seq(Nat), NEW k \in 0..Len(s)
    PROVE  LET t == SubSeq(s, k + 1, Len(s))
           IN  /\ t \in Seq(Nat) /\ Len(t) \in Nat
               /\ \A i \in 1..Len(t) : k + i \in 1..Len(s) /\ t[i] = s[k + i]
<1> DEFINE t == SubSeq(s, k + 1, Len(s))
<1>1. Len(s) \in Nat /\ k \in Nat /\ k <= Len(s)
  BY LenProperties
<1>2. \A i \in (k + 1)..Len(s) : s[i] \in Nat
  BY <1>1, ElementOfSeq
<1>3. /\ t \in Seq(Nat)
      /\ Len(t) = IF k + 1 <= Len(s) THEN Len(s) - (k + 1) + 1 ELSE 0
      /\ \A i \in 1..(Len(s) - (k + 1) + 1) : t[i] = s[(k + 1) + i - 1]
  BY <1>1, <1>2, SubSeqProperties
<1> HIDE DEF t
<1>4. Len(t) = Len(s) - k
  BY <1>1, <1>3
<1>5. ASSUME NEW i \in 1..Len(t)
      PROVE  k + i \in 1..Len(s) /\ t[i] = s[k + i]
  <2>1. i \in Nat /\ 1 <= i /\ i <= Len(s) - k
    BY <1>1, <1>4
  <2>2. i \in 1..(Len(s) - (k + 1) + 1) /\ (k + 1) + i - 1 = k + i
    BY <1>1, <2>1
  <2>3. k + i \in 1..Len(s)
    BY <1>1, <2>1
  <2> QED
    BY <1>3, <2>2, <2>3
<1> QED
  BY <1>1, <1>3, <1>4, <1>5 DEF t

\* Bytes of the open port appended to bytes of the open port.
LEMMA AppendedElements ==
    ASSUME NEW b \in Seq(Nat), NEW n \in Nat, NEW o \in Nat,
           \A i \in 1..Len(b) : b[i] = o
    PROVE  LET s == b \o [i \in 1..n |-> o]
           IN  s \in Seq(Nat) /\ \A i \in 1..Len(s) : s[i] = o
<1> DEFINE g == [i \in 1..n |-> o]
<1>1. g \in Seq(Nat) /\ Len(g) = n /\ \A i \in 1..n : g[i] = o
  OBVIOUS
<1> HIDE DEF g
<1>2. /\ b \o g \in Seq(Nat) /\ Len(b \o g) = Len(b) + Len(g)
      /\ \A i \in 1..(Len(b) + Len(g)) :
            (b \o g)[i] = IF i <= Len(b) THEN b[i] ELSE g[i - Len(b)]
  BY <1>1, ConcatProperties
<1>3. Len(b) \in Nat
  BY LenProperties
<1>4. ASSUME NEW i \in 1..Len(b \o g)
      PROVE  (b \o g)[i] = o
  <2>1. i \in 1..(Len(b) + n)
    BY <1>1, <1>2
  <2>2. CASE i <= Len(b)
    BY <1>1, <1>2, <1>3, <2>1, <2>2
  <2>3. CASE ~ (i <= Len(b))
    <3>1. i - Len(b) \in 1..n
      BY <1>3, <2>1, <2>3
    <3> QED
      BY <1>1, <1>2, <2>1, <2>3, <3>1
  <2> QED
    BY <2>2, <2>3
<1> QED
  BY <1>2, <1>4 DEF g

\* What a read appends came by the port that is open, and a drain leaves a
\* suffix of it.
LEMMA ReadKeepsBuffer ==
    ASSUME TypeOK, BufferFromOneOpen, Read
    PROVE  buffer' \in Seq(Nat) /\ BufferFromOneOpen'
<1> DEFINE n == IF rx < ReadSize THEN rx ELSE ReadSize
<1> DEFINE appended == buffer \o [i \in 1..n |-> opens]
<1>1. n \in Nat /\ opens \in Nat /\ buffer \in Seq(Nat)
  BY SizeAssumption DEF TypeOK
<1>2. PICK k \in 0..Len(appended) : buffer' = SubSeq(appended, k + 1, Len(appended))
  BY DEF Read
<1>3. opens' = opens
  BY DEF Read
<1> HIDE DEF n
<1>4. appended \in Seq(Nat) /\ \A i \in 1..Len(appended) : appended[i] = opens
  BY <1>1, AppendedElements DEF BufferFromOneOpen
<1> HIDE DEF appended
<1>5. /\ buffer' \in Seq(Nat)
      /\ \A i \in 1..Len(buffer') : k + i \in 1..Len(appended) /\ buffer'[i] = appended[k + i]
  BY <1>2, <1>4, SuffixElements
<1> QED
  BY <1>3, <1>4, <1>5 DEF BufferFromOneOpen

\* Writing k bytes adds a message to the line, or adds to its last message; the
\* messages before it stay as they are.
LEMMA ExtendedLine ==
    ASSUME TypeOK, OpenPortHasWhole, Writing, NEW k \in 1..todo
    PROVE  LET L == Extended(k)
               n == IF todo = size THEN Len(line) + 1 ELSE Len(line)
           IN  /\ L \in Seq(Message) /\ Len(L) = n /\ n \in Nat \ {0}
               /\ \A i \in 1..(n - 1) : i \in 1..Len(line) /\ L[i] = line[i]
               /\ L[n] = [open |-> opens, size |-> size, taken |-> size - (todo - k)]
<1>1. /\ Len(line) \in Nat /\ line \in Seq(Message)
      /\ todo \in Nat /\ size \in Nat /\ opens \in Nat /\ todo <= size
  BY LenProperties DEF TypeOK
<1>2. CASE todo = size
  <2> DEFINE m == [open |-> opens, size |-> size, taken |-> k]
  <2>1. m \in Message
    BY <1>1 DEF Message
  <2>2. Extended(k) = Append(line, m)
    BY <1>2 DEF Extended
  <2>3. m = [open |-> opens, size |-> size, taken |-> size - (todo - k)]
    <3>1. k = size - (todo - k)
      BY <1>1, <1>2
    <3> QED
      BY <3>1, Zenon
  <2> HIDE DEF m
  <2>4. /\ Append(line, m) \in Seq(Message) /\ Len(Append(line, m)) = Len(line) + 1
        /\ \A i \in 1..Len(line) : Append(line, m)[i] = line[i]
        /\ Append(line, m)[Len(line) + 1] = m
    BY <1>1, <2>1, AppendProperties
  <2> QED
    BY <1>1, <1>2, <2>2, <2>3, <2>4
<1>3. CASE todo < size
  <2> DEFINE n == Len(line)
  <2>1. line # <<>> /\ line[n] = [open |-> opens, size |-> size, taken |-> size - todo]
    BY <1>3 DEF OpenPortHasWhole, InProgress
  <2>2. n \in 1..Len(line)
    BY <1>1, <2>1, EmptySeq
  <2> DEFINE m == [open |-> opens, size |-> size, taken |-> size - (todo - k)]
  <2>3. m \in Message
    BY <1>1, <1>3 DEF Message
  <2>4. [line[n] EXCEPT !.taken = @ + k] = m
    <3>1. (size - todo) + k = size - (todo - k)
      BY <1>1
    <3>2. [[open |-> opens, size |-> size, taken |-> size - todo] EXCEPT !.taken = @ + k]
            = [open |-> opens, size |-> size, taken |-> (size - todo) + k]
      OBVIOUS
    <3> QED
      BY <2>1, <3>1, <3>2, Zenon
  <2>5. Extended(k) = [line EXCEPT ![n] = m]
    <3>1. todo # size
      BY <1>1, <1>3
    <3>2. Extended(k) = [line EXCEPT ![n] = [line[n] EXCEPT !.taken = @ + k]]
      BY <3>1, Zenon DEF Extended
    <3> QED
      BY <2>4, <3>2, Zenon
  <2> HIDE DEF m
  <2>6. /\ [line EXCEPT ![n] = m] \in Seq(Message)
        /\ Len([line EXCEPT ![n] = m]) = Len(line)
        /\ \A j \in 1..Len(line) : [line EXCEPT ![n] = m][j] = IF j = n THEN m ELSE line[j]
    BY <1>1, <2>2, <2>3, ExceptSeq
  <2> QED
    <3>1. todo # size
      BY <1>1, <1>3
    <3>2. /\ Extended(k) \in Seq(Message) /\ Len(Extended(k)) = Len(line)
          /\ \A j \in 1..Len(line) : Extended(k)[j] = IF j = n THEN m ELSE line[j]
      BY <2>5, <2>6
    <3>3. Extended(k)[Len(line)] = m
      BY <2>2, <3>2
    <3>4. \A i \in 1..(Len(line) - 1) : i \in 1..Len(line) /\ Extended(k)[i] = line[i]
      BY <1>1, <3>2
    <3>5. Len(line) \in Nat \ {0}
      BY <1>1, <2>2
    <3> QED
      BY <3>1, <3>2, <3>3, <3>4, <3>5 DEF m
<1>4. todo = size \/ todo < size
  BY <1>1
<1> QED
  BY <1>2, <1>3, <1>4

\* The numbers in the line are natural numbers.
LEMMA LineTypes ==
    ASSUME TypeOK
    PROVE  /\ Len(line) \in Nat
           /\ \A i \in 1..Len(line) :
                 line[i] \in Message /\ line[i].open \in Nat
                 /\ line[i].size \in Nat /\ line[i].taken \in Nat
<1>1. Len(line) \in Nat
  BY LenProperties DEF TypeOK
<1>2. \A i \in 1..Len(line) : line[i] \in Message
  BY ElementOfSeq DEF TypeOK
<1> QED
  BY <1>1, <1>2 DEF Message

-----------------------------------------------------------------------------
(* Each action keeps the invariant *)

\* The invariant holds when the node starts: no port, nothing received or sent.
LEMMA InitIInv == Init => IInv
<1> SUFFICES ASSUME Init PROVE IInv
  OBVIOUS
<1> USE DEF Init
<1>1. /\ Len(<<>>) = 0 /\ buffer \in Seq(Nat) /\ line \in Seq(Message)
  BY EmptySeq
<1>2. TypeOK
  <2>1. TtyTypes /\ CountTypes
    BY SizeAssumption DEF TtyTypes, CountTypes
  <2>2. PortTypes /\ LocalTypes /\ BufferTypes
    BY <1>1 DEF PortTypes, LocalTypes, BufferTypes
  <2>3. ControlTypes /\ FlagTypes
    BY DEF ControlTypes, FlagTypes, Pcs
  <2> QED
    BY <1>1, <2>1, <2>2, <2>3, TypeParts DEF Types
<1>3. ControlOK /\ OneDescriptor
  BY DEF ControlOK, OneDescriptor, Writing
<1>4. BufferFromOneOpen /\ LineInOrder /\ OpenPortHasWhole /\ CutMessageEndsSession
  BY <1>1 DEF BufferFromOneOpen, LineInOrder, OpenPortHasWhole, CutMessageEndsSession,
              InProgress, Writing
<1> QED
  BY <1>2, <1>3, <1>4 DEF IInv

\* The device, time, the timers and the callbacks up to the open port leave the
\* buffer and the line alone, and do not begin to write to a closed port.
LEMMA OutsideStep ==
    IInv /\ (Device \/ IntervalPasses \/ PollTimer \/ RtcmArrives \/ ForgetOldTimes) => IInv'
<1> SUFFICES ASSUME IInv, Device \/ IntervalPasses \/ PollTimer \/ RtcmArrives \/ ForgetOldTimes
             PROVE  IInv'
  OBVIOUS
<1>1. TypeOK'
  <2>1. Types
    BY TypeParts DEF IInv
  <2> USE DEF Types
  <2>2. CASE Device
    <3>1. FlagTypes'
      BY <2>1, <2>2 DEF FlagTypes, Device, Unplug, Plug, ByteArrives, ByteLeaves
    <3>2. TtyTypes'
      BY <2>1, <2>2, SizeAssumption DEF TtyTypes, Device, Unplug, Plug, ByteArrives, ByteLeaves
    <3>3. UNCHANGED <<fd, descriptors, pc, locals, counts, buffer, opens>>
      BY <2>2 DEF Device, Unplug, Plug, ByteArrives, ByteLeaves
    <3>4. PortTypes' /\ LocalTypes' /\ BufferTypes' /\ CountTypes' /\ line' \in Seq(Message)
      BY <2>1, <3>3 DEF PortTypes, LocalTypes, BufferTypes, CountTypes
    <3>5. ControlTypes'
      BY <2>1, <3>3 DEF ControlTypes
    <3> QED
      BY <3>1, <3>2, <3>4, <3>5, TypePartsNext
  <2>3. CASE ~ Device
    <3>1. /\ UNCHANGED <<tty, baud_ok, fd, descriptors, buffer, opens>>
          /\ UNCHANGED <<rtcm_message_count, rtcm_byte_count, line>>
      BY <2>3 DEF IntervalPasses, PollTimer, RtcmArrives, ForgetOldTimes
    <3>2. FlagTypes'
      BY <2>1, <2>3, <3>1 DEF FlagTypes, IntervalPasses, PollTimer, RtcmArrives, ForgetOldTimes
    <3>3. TtyTypes' /\ PortTypes' /\ BufferTypes' /\ line' \in Seq(Message)
      BY <2>1, <3>1 DEF TtyTypes, PortTypes, BufferTypes
    <3>4. CountTypes'
      BY <2>1, <2>3, SizeAssumption DEF CountTypes, IntervalPasses, PollTimer, RtcmArrives,
         ForgetOldTimes
    <3>5. LocalTypes'
      <4>1. CASE RtcmArrives
        BY <2>1, <4>1, SizeAssumption DEF LocalTypes, RtcmArrives
      <4>2. CASE ~ RtcmArrives
        <5>1. UNCHANGED <<asked, size, todo>>
          BY <2>3, <4>2 DEF IntervalPasses, PollTimer, ForgetOldTimes
        <5> QED
          BY <2>1, <5>1 DEF LocalTypes
      <4> QED
        BY <4>1, <4>2
    <3>6. ControlTypes'
      BY <2>1, <2>3 DEF ControlTypes, Pcs, IntervalPasses, PollTimer, RtcmArrives, ForgetOldTimes
    <3> QED
      BY <3>2, <3>3, <3>4, <3>5, <3>6, TypePartsNext
  <2> QED
    BY <2>2, <2>3
<1>2. /\ UNCHANGED <<fd, descriptors, buffer, opens, line>>
      /\ \/ UNCHANGED <<pc, size, todo>>
         \/ pc = "idle" /\ pc' = "ensure" /\ todo' = size'
  <2>1. CASE PollTimer
    BY <2>1 DEF PollTimer, IInv, ControlOK
  <2> QED
    BY <2>1 DEF Device, Unplug, Plug, ByteArrives, ByteLeaves, IntervalPasses, PollTimer,
        RtcmArrives, ForgetOldTimes
<1>3. ControlOK' /\ OneDescriptor'
  BY <1>2 DEF IInv, ControlOK, OneDescriptor, Writing
<1>4. BufferFromOneOpen' /\ LineInOrder' /\ CutMessageEndsSession'
  BY <1>2 DEF IInv, BufferFromOneOpen, LineInOrder, CutMessageEndsSession, Whole
<1>5. OpenPortHasWhole'
  BY <1>2 DEF IInv, OpenPortHasWhole, InProgress, Writing, Whole
<1> QED
  BY <1>1, <1>3, <1>4, <1>5 DEF IInv

\* ensure_serial_open: a caller that goes on is on an open port; a port opened
\* anew has an empty buffer and nothing on the line yet.
LEMMA EnsureStep == IInv /\ Ensure => IInv'
<1> SUFFICES ASSUME IInv, Ensure PROVE IInv'
  OBVIOUS
<1> USE DEF GoTo, Return, Continue, ClosePort, CloseOnFailure
<1>1. TypeOK'
  <2>1. Types
    BY TypeParts DEF IInv
  <2>2. descriptors = IF fd = 0 THEN 0 ELSE 1
    BY DEF IInv, OneDescriptor
  <2>3. pc = "configure" => fd # 0
    BY DEF IInv, ControlOK
  <2> USE DEF Types
  <2>4. UNCHANGED <<plugged, device, tx, arrived, baud_ok, counts>>
    BY DEF Ensure, AlreadyOpen, TooSoon, OpenDevice, ConfigureFails, Configured
  <2>5. CountTypes' /\ line' \in Seq(Message)
    BY <2>1, <2>4 DEF CountTypes
  <2>6. FlagTypes'
    BY <2>1, <2>4 DEF FlagTypes, Ensure, AlreadyOpen, TooSoon, OpenDevice, ConfigureFails,
       Configured
  <2>7. TtyTypes'
    <3>1. rx' \in {0, rx}
      BY DEF Ensure, AlreadyOpen, TooSoon, OpenDevice, ConfigureFails, Configured
    <3> QED
      BY <2>1, <2>4, <3>1, SizeAssumption DEF TtyTypes
  <2>8. PortTypes'
    <3>1. \/ UNCHANGED <<fd, descriptors>>
          \/ fd = 0 /\ fd' = device /\ descriptors' = descriptors + 1
          \/ fd # 0 /\ fd' = 0 /\ descriptors' = descriptors - 1
      BY <2>3 DEF Ensure, AlreadyOpen, TooSoon, OpenDevice, ConfigureFails, Configured
    <3> QED
      BY <2>1, <2>2, <3>1 DEF PortTypes, TtyTypes
  <2>9. ControlTypes'
    BY <2>1 DEF ControlTypes, Pcs, Ensure, AlreadyOpen, TooSoon, OpenDevice, ConfigureFails,
       Configured
  <2>10. LocalTypes'
    <3>1. asked' = asked /\ (UNCHANGED <<size, todo>> \/ (size' = 0 /\ todo' = 0))
      BY DEF Ensure, AlreadyOpen, TooSoon, OpenDevice, ConfigureFails, Configured
    <3> QED
      BY <2>1, <3>1 DEF LocalTypes
  <2>11. BufferTypes'
    <3>1. UNCHANGED <<buffer, opens>> \/ (buffer' = <<>> /\ opens' = opens + 1)
      BY DEF Ensure, AlreadyOpen, TooSoon, OpenDevice, ConfigureFails, Configured
    <3>2. <<>> \in Seq(Nat)
      BY EmptySeq
    <3>3. buffer' \in Seq(Nat)
      BY <2>1, <3>1, <3>2 DEF BufferTypes
    <3>4. opens' \in Nat
      BY <2>1, <3>1 DEF BufferTypes
    <3> QED
      BY <3>3, <3>4 DEF BufferTypes
  <2> QED
    BY <2>5, <2>6, <2>7, <2>8, <2>9, <2>10, <2>11, TypePartsNext
<1>2. todo = size /\ pc \in {"ensure", "configure"} /\ line' = line
  BY DEF Ensure, AlreadyOpen, TooSoon, OpenDevice, ConfigureFails, Configured, IInv, ControlOK
<1>3. \/ /\ pc' = "idle" /\ todo' = 0 /\ size' = 0
      \/ /\ pc' \in {"configure", "read", "write"} /\ UNCHANGED <<size, todo>>
         /\ fd' # 0 /\ (pc' = "write" => size # 0)
  <2>1. device # 0 /\ (pc = "configure" => fd # 0) /\ (size > 0 => size # 0)
    BY DEF IInv, TypeOK, ControlOK
  <2> QED
    BY <2>1 DEF Ensure, AlreadyOpen, TooSoon, OpenDevice, ConfigureFails, Configured
<1>4. ControlOK'
  BY <1>2, <1>3 DEF ControlOK, Writing
<1>5. OneDescriptor'
  <2>1. device # 0 /\ (pc = "configure" => fd # 0)
    BY DEF IInv, TypeOK, ControlOK
  <2>2. \/ UNCHANGED <<fd, descriptors>>
        \/ fd = 0 /\ fd' = device /\ descriptors' = descriptors + 1
        \/ fd # 0 /\ fd' = 0 /\ descriptors' = descriptors - 1
    BY <2>1 DEF Ensure, AlreadyOpen, TooSoon, OpenDevice, ConfigureFails, Configured
  <2> QED
    BY <2>1, <2>2 DEF IInv, OneDescriptor
<1>6. ~ InProgress'
  <2>1. size \in Nat /\ ~ (size < size) /\ ~ (0 < 0)
    BY DEF IInv, TypeOK
  <2> QED
    BY <1>2, <1>3, <2>1 DEF InProgress
<1>7. \/ pc = "configure" /\ opens' = opens + 1 /\ buffer' = <<>>
      \/ /\ UNCHANGED <<opens, buffer>>
         /\ \/ fd' = 0 \/ pc' = "configure"
            \/ fd' = fd /\ fd # 0 /\ pc = "ensure"
  BY DEF Ensure, AlreadyOpen, TooSoon, OpenDevice, ConfigureFails, Configured
<1>8. BufferFromOneOpen'
  BY <1>7, EmptySeq DEF IInv, BufferFromOneOpen
<1>9. LineInOrder' /\ CutMessageEndsSession'
  <2>1. opens \in Nat /\ \A i \in 1..Len(line) : line[i].open \in Nat
    BY LineTypes DEF IInv, TypeOK
  <2> QED
    BY <1>2, <1>7, <2>1 DEF IInv, LineInOrder, CutMessageEndsSession, Whole
<1>10. OpenPortHasWhole'
  <2>1. CASE opens' = opens + 1
    <3>1. \A i \in 1..Len(line) : line[i].open # opens'
      BY <2>1, LineTypes DEF IInv, TypeOK, LineInOrder
    <3> QED
      BY <1>2, <1>6, <3>1 DEF OpenPortHasWhole
  <2>2. CASE fd' = 0 \/ pc' = "configure"
    BY <1>6, <2>2 DEF OpenPortHasWhole
  <2>3. CASE opens' = opens /\ fd' = fd /\ fd # 0 /\ pc = "ensure"
    BY <1>2, <1>6, <2>3 DEF IInv, OpenPortHasWhole, InProgress, Writing, Whole
  <2> QED
    BY <1>7, <2>1, <2>2, <2>3
<1> QED
  BY <1>1, <1>4, <1>5, <1>8, <1>9, <1>10 DEF IInv

\* poll_serial leaves the line alone.
LEMMA PollStep == IInv /\ Poll => IInv'
<1> SUFFICES ASSUME IInv, Poll PROVE IInv'
  OBVIOUS
<1> USE DEF GoTo, Return, ClosePort
<1>1. buffer' \in Seq(Nat) /\ BufferFromOneOpen'
  <2>1. CASE Read
    BY <2>1, ReadKeepsBuffer DEF IInv
  <2>2. CASE ReadNothing \/ ReadFails
    BY <2>2 DEF ReadNothing, ReadFails, IInv, TypeOK, BufferFromOneOpen
  <2>3. CASE CheckOverflow
    BY <2>3, EmptySeq DEF CheckOverflow, IInv, TypeOK, BufferFromOneOpen
  <2> QED
    BY <2>1, <2>2, <2>3 DEF Poll
<1>2. /\ UNCHANGED <<plugged, baud_ok, throttled, device, tx, arrived, opens, counts>>
      /\ pc \in {"read", "overflow"} /\ pc' \in {"read", "overflow", "idle"}
      /\ UNCHANGED <<caller, size, todo>> \/ (caller' = "none" /\ size' = 0 /\ todo' = 0)
      /\ pc' = "idle" => todo' = size'
      /\ pc' = "read" => fd' = fd /\ pc = "read"
      /\ UNCHANGED <<fd, descriptors>>
           \/ (pc = "read" /\ fd' = 0 /\ descriptors' = descriptors - 1)
  BY DEF Poll, Read, ReadNothing, ReadFails, CheckOverflow
<1>3. fd # 0 => descriptors = 1
  BY DEF IInv, OneDescriptor
<1>4. pc = "read" => fd # 0
  BY DEF IInv, ControlOK
<1>5. TypeOK'
  <2>1. Types
    BY TypeParts DEF IInv
  <2> USE DEF Types
  <2>2. FlagTypes' /\ CountTypes' /\ line' \in Seq(Message)
    BY <1>2, <2>1 DEF FlagTypes, CountTypes
  <2>3. TtyTypes'
    <3>1. rx' \in 0..RxCap
      BY SMTT(30), <2>1, SizeAssumption
         DEF TtyTypes, Poll, Read, ReadNothing, ReadFails, CheckOverflow
    <3> QED
      BY <1>2, <2>1, <3>1 DEF TtyTypes
  <2>4. PortTypes'
    BY <1>2, <1>3, <1>4, <2>1 DEF PortTypes
  <2>5. ControlTypes'
    BY <1>2, <2>1 DEF ControlTypes, Pcs
  <2>6. LocalTypes' /\ BufferTypes'
    BY <1>1, <1>2, <2>1 DEF LocalTypes, BufferTypes
  <2> QED
    BY <2>2, <2>3, <2>4, <2>5, <2>6, TypePartsNext
<1>6. ControlOK'
  BY <1>2, <1>4 DEF ControlOK, Writing
<1>7. OneDescriptor'
  BY <1>2, <1>3, <1>4 DEF IInv, OneDescriptor
<1>8. LineInOrder' /\ CutMessageEndsSession'
  BY <1>2 DEF IInv, LineInOrder, CutMessageEndsSession, Whole
<1>9. OpenPortHasWhole'
  <2>1. ~ InProgress /\ ~ InProgress'
    BY <1>2 DEF InProgress, Writing
  <2>2. fd' # 0 => fd # 0 /\ pc # "configure"
    BY <1>2
  <2> QED
    BY <1>2, <2>1, <2>2 DEF IInv, OpenPortHasWhole, Whole
<1> QED
  BY <1>1, <1>5, <1>6, <1>7, <1>8, <1>9 DEF IInv

\* The steps of a write that put nothing on the line.  A failed one closes the
\* port, whatever it has left there.
LEMMA WriteStopsStep == IInv /\ (WriteWouldBlock \/ Writable \/ WriteFails) => IInv'
<1> SUFFICES ASSUME IInv, WriteWouldBlock \/ Writable \/ WriteFails PROVE IInv'
  OBVIOUS
<1> USE DEF GoTo, Return, ClosePort
<1>1. /\ UNCHANGED <<tty, baud_ok, throttled, buffer, opens, counts>>
      /\ Writing
      /\ \/ UNCHANGED <<fd, descriptors, caller, size, todo>> /\ Writing'
         \/ /\ fd' = 0 /\ descriptors' = descriptors - 1
            /\ pc' = "idle" /\ caller' = "none" /\ size' = 0 /\ todo' = 0
  BY DEF WriteWouldBlock, Writable, WriteFails, Writing
<1>2. fd # 0 /\ todo # 0 /\ descriptors = 1
  BY <1>1 DEF IInv, ControlOK, OneDescriptor
<1>3. TypeOK'
  <2>1. Types
    BY TypeParts DEF IInv
  <2> USE DEF Types
  <2>2. FlagTypes' /\ TtyTypes' /\ BufferTypes' /\ CountTypes' /\ line' \in Seq(Message)
    BY <1>1, <2>1 DEF FlagTypes, TtyTypes, BufferTypes, CountTypes
  <2>3. PortTypes' /\ LocalTypes'
    BY <1>1, <1>2, <2>1 DEF PortTypes, LocalTypes
  <2>4. ControlTypes'
    BY <1>1, <2>1 DEF ControlTypes, Pcs, Writing
  <2> QED
    BY <2>2, <2>3, <2>4, TypePartsNext
<1>4. ControlOK' /\ OneDescriptor'
  BY <1>1, <1>2 DEF ControlOK, OneDescriptor, Writing
<1>5. BufferFromOneOpen' /\ LineInOrder' /\ CutMessageEndsSession'
  BY <1>1 DEF IInv, BufferFromOneOpen, LineInOrder, CutMessageEndsSession, Whole
<1>6. OpenPortHasWhole'
  <2>1. CASE Writing'
    <3>1. InProgress' <=> InProgress
      BY <1>1, <1>2, <2>1 DEF InProgress, Writing
    <3> QED
      BY <1>1, <1>2, <2>1, <3>1 DEF IInv, OpenPortHasWhole, Whole, Writing
  <2>2. CASE ~ Writing'
    BY <1>1, <2>2 DEF OpenPortHasWhole, InProgress
  <2> QED
    BY <2>1, <2>2
<1> QED
  BY <1>3, <1>4, <1>5, <1>6 DEF IInv

\* A step of a write that puts k bytes on the line.
LEMMA WriteSomeStep == IInv /\ WriteSome => IInv'
<1> SUFFICES ASSUME IInv, WriteSome PROVE IInv'
  OBVIOUS
<1> DEFINE n == IF todo = size THEN Len(line) + 1 ELSE Len(line)
<1>1. /\ todo \in Nat /\ size \in Nat /\ todo <= size /\ opens \in Nat
      /\ tx \in 0..TxCap /\ fd # 0
  BY DEF IInv, TypeOK, ControlOK, WriteSome, Writing
<1>2. PICK k \in 1..todo :
        /\ k <= TxCap - tx /\ tx' = tx + k
        /\ line' = Extended(k)
        /\ \/ k = todo /\ CountMessage /\ Return
           \/ /\ k < todo /\ todo' = todo - k
              /\ UNCHANGED <<pc, caller, size, rtcm_message_count, rtcm_byte_count, rtcm_history>>
  BY DEF WriteSome
<1>3. /\ UNCHANGED <<asked, plugged, device, rx, arrived, baud_ok, fd, descriptors, throttled>>
      /\ UNCHANGED <<buffer, opens>>
      /\ pc = "write" /\ Writing
  BY DEF WriteSome, Writing
<1>4. /\ line' \in Seq(Message) /\ Len(line') = n /\ n \in Nat \ {0}
      /\ \A i \in 1..(n - 1) : i \in 1..Len(line) /\ line'[i] = line[i]
      /\ line'[n] = [open |-> opens, size |-> size, taken |-> size - (todo - k)]
  BY <1>2, <1>3, ExtendedLine DEF IInv
<1> HIDE DEF n
<1>5. TypeOK'
  <2>1. Types
    BY TypeParts DEF IInv
  <2> USE DEF Types
  <2>2. FlagTypes' /\ PortTypes' /\ BufferTypes'
    BY <1>3, <2>1 DEF FlagTypes, PortTypes, BufferTypes
  <2>3. TtyTypes'
    BY <1>2, <1>3, <2>1, SizeAssumption DEF TtyTypes
  <2>4. LocalTypes' /\ CountTypes'
    BY SMTT(30), <1>2, <1>3, <2>1, SizeAssumption DEF LocalTypes, CountTypes, CountMessage, Return
  <2>5. ControlTypes'
    BY <1>2, <2>1 DEF ControlTypes, Pcs, Return
  <2> QED
    BY <1>4, <2>2, <2>3, <2>4, <2>5, TypePartsNext
<1>6. ControlOK'
  BY <1>1, <1>2, <1>3 DEF ControlOK, Writing, Return
<1>7. OneDescriptor' /\ BufferFromOneOpen'
  BY <1>3 DEF IInv, OneDescriptor, BufferFromOneOpen
<1>8. \A i \in 1..(n - 1) : line[i].open = opens => Whole(line[i])
  \* those before the message being written are whole
  <2>1. \A i \in 1..(n - 1) : i \in 1..Len(line) /\ ~ (InProgress /\ i = Len(line))
    BY <1>1, <1>4, LineTypes DEF n, InProgress, IInv
  <2> QED
    BY <1>1, <1>3, <2>1 DEF IInv, OpenPortHasWhole
<1>9. /\ \A i \in 1..n : i \in 1..(n - 1) \/ i = n
      /\ \A i, j \in 1..n : i < j => i \in 1..(n - 1)
  BY <1>4
<1>10. LineInOrder'
  <2>1. \A i \in 1..(n - 1) : line'[i].open = line[i].open /\ line[i].open <= opens
    BY <1>4 DEF IInv, LineInOrder
  <2>2. line'[n].open = opens /\ opens <= opens
    BY <1>1, <1>4
  <2>3. \A i \in 1..n : line'[i].open <= opens
    BY <1>9, <2>1, <2>2
  <2>4. ASSUME NEW i \in 1..n, NEW j \in 1..n, i < j
        PROVE  line'[i].open <= line'[j].open
    <3>1. i \in 1..(n - 1)
      BY <1>9, <2>4
    <3>2. CASE j = n
      BY <2>2, <2>3, <3>2
    <3>3. CASE j \in 1..(n - 1)
      BY <1>4, <2>1, <2>4, <3>1, <3>3 DEF IInv, LineInOrder
    <3> QED
      BY <1>9, <3>2, <3>3
  <2> QED
    BY <1>3, <1>4, <2>3, <2>4 DEF LineInOrder
<1>11. CutMessageEndsSession'
  <2>1. ASSUME NEW i \in 1..n, NEW j \in 1..n, i < j, ~ Whole(line'[i])
        PROVE  line'[i].open < line'[j].open
    <3>1. i \in 1..(n - 1) /\ i \in 1..Len(line) /\ line'[i] = line[i] /\ ~ Whole(line[i])
      BY <1>4, <1>9, <2>1 DEF Whole
    <3>2. CASE j = n
      <4>1. line[i].open # opens /\ line[i].open <= opens /\ line[i].open \in Nat
        BY <1>8, <3>1, LineTypes DEF IInv, LineInOrder
      <4> QED
        BY <1>1, <1>4, <3>1, <3>2, <4>1
    <3>3. CASE j \in 1..(n - 1)
      BY <1>4, <2>1, <3>1, <3>3 DEF IInv, CutMessageEndsSession
    <3> QED
      BY <1>9, <3>2, <3>3
  <2> QED
    BY <1>4, <2>1 DEF CutMessageEndsSession, Whole
<1>12. OpenPortHasWhole'
  <2>1. CASE k = todo
    <3>1. Whole(line'[n])
      BY <1>1, <1>2, <1>4, <2>1 DEF Whole
    <3>2. ~ InProgress'
      BY <1>2, <2>1 DEF InProgress, Writing, Return
    <3> QED
      BY <1>3, <1>4, <1>8, <1>9, <3>1, <3>2 DEF OpenPortHasWhole, Whole
  <2>2. CASE k < todo
    <3>1. todo' = todo - k /\ size' = size /\ Writing' /\ InProgress'
      BY <1>1, <1>2, <1>3, <2>2 DEF InProgress, Writing
    <3>2. line' # <<>>
      BY <1>4, EmptySeq
    <3> QED
      BY <1>3, <1>4, <1>8, <1>9, <3>1, <3>2 DEF OpenPortHasWhole, Whole
  <2> QED
    BY <1>1, <1>2, <2>1, <2>2
<1> QED
  BY <1>5, <1>6, <1>7, <1>10, <1>11, <1>12 DEF IInv

\* Nothing changes, nothing is lost.
LEMMA StutterKeepsIInv == IInv /\ UNCHANGED vars => IInv'
<1> QED
  BY DEF vars, IInv, TypeOK, ControlOK, OneDescriptor, BufferFromOneOpen, LineInOrder,
         OpenPortHasWhole, CutMessageEndsSession, InProgress, Writing, Whole, Pcs

-----------------------------------------------------------------------------
(* What is counted *)

\* The counts are of finite sets.
Counted == IsFiniteSet(WholeMessages) /\ IsFiniteSet(WholeBytes) /\ CountsMatchLine

\* A message of k bytes adds k bytes.
LEMMA BytesOfOne ==
    ASSUME NEW S, IsFiniteSet(S), NEW n, NEW k \in Nat, S \cap ({n} \X (1..k)) = {}
    PROVE  /\ IsFiniteSet(S \cup ({n} \X (1..k)))
           /\ Cardinality(S \cup ({n} \X (1..k))) = Cardinality(S) + k
<1> DEFINE T == {n} \X (1..k)
           f == [b \in 1..k |-> <<n, b>>]
<1>1. IsFiniteSet(1..k) /\ Cardinality(1..k) = k
  <2>1. IsFiniteSet(1..k) /\ Cardinality(1..k) = IF 1 > k THEN 0 ELSE k - 1 + 1
    BY FS_Interval
  <2> QED
    BY <2>1
<1>2. f \in Bijection(1..k, T)
  <2>1. f \in [1..k -> T] /\ \A a, b \in 1..k : f[a] = f[b] => a = b
    OBVIOUS
  <2>2. \A t \in T : \E b \in 1..k : f[b] = t
    OBVIOUS
  <2> QED
    BY <2>1, <2>2 DEF Bijection, Injection, Surjection, IsInjective
<1> HIDE DEF T, f
<1>3. IsFiniteSet(T) /\ Cardinality(T) = k
  BY <1>1, <1>2, FS_Bijection DEF ExistsBijection
<1>4. S \cap T = {}
  BY DEF T
<1>5. /\ IsFiniteSet(S \cup T)
      /\ Cardinality(S \cup T) = Cardinality(S) + Cardinality(T) - Cardinality({})
  <2>1. /\ IsFiniteSet(S \cup T)
        /\ Cardinality(S \cup T) = Cardinality(S) + Cardinality(T) - Cardinality(S \cap T)
    BY <1>3, FS_Union
  <2> QED
    BY <1>4, <2>1
<1>6. Cardinality({}) = 0 /\ Cardinality(S) \in Nat
  BY FS_EmptySet, FS_CardinalityType
<1> QED
  BY <1>3, <1>5, <1>6 DEF T

\* A step of a write that puts k bytes on the line: the message is counted, once,
\* when the kernel has taken all of it.
LEMMA WriteSomeCounts == IInv /\ Counted /\ WriteSome => Counted'
<1> SUFFICES ASSUME IInv, Counted, WriteSome PROVE Counted'
  OBVIOUS
<1> DEFINE n == IF todo = size THEN Len(line) + 1 ELSE Len(line)
<1>1. /\ todo \in Nat /\ size \in Nat /\ todo <= size /\ opens \in Nat /\ Len(line) \in Nat
      /\ rtcm_message_count \in Nat /\ rtcm_byte_count \in Nat /\ rtcm_history \in Nat
  BY LineTypes, SizeAssumption DEF IInv, TypeOK
<1>2. PICK k \in 1..todo :
        /\ line' = Extended(k)
        /\ \/ k = todo /\ CountMessage
           \/ k < todo /\ UNCHANGED <<rtcm_message_count, rtcm_byte_count, rtcm_history>>
  BY DEF WriteSome
<1>3. /\ Len(line') = n /\ n \in Nat \ {0}
      /\ \A i \in 1..(n - 1) : i \in 1..Len(line) /\ line'[i] = line[i]
      /\ line'[n] = [open |-> opens, size |-> size, taken |-> size - (todo - k)]
  <2>1. Writing
    BY DEF WriteSome, Writing
  <2> QED
    BY <1>2, <2>1, ExtendedLine DEF IInv
<1>4. n \notin WholeMessages /\ \A i \in 1..Len(line) : i \in 1..(n - 1) \/ i = n
  \* a message that is not the first to be written of is the last, and cut
  <2>1. CASE todo = size
    BY <1>1, <2>1 DEF WholeMessages
  <2>2. CASE todo # size
    <3>1. line[Len(line)] = [open |-> opens, size |-> size, taken |-> size - todo]
      BY <1>1, <2>2 DEF IInv, OpenPortHasWhole, InProgress, Writing, WriteSome
    <3>2. line[Len(line)].taken # line[Len(line)].size
      <4>1. todo # 0
        BY DEF IInv, ControlOK, Writing, WriteSome
      <4>2. size - todo # size
        BY <1>1, <4>1
      <4> QED
        BY <3>1, <4>2
    <3> QED
      BY <1>1, <2>2, <3>2 DEF WholeMessages, Whole
  <2> QED
    BY <2>1, <2>2
<1>5. line'[n].size = size /\ (Whole(line'[n]) <=> k = todo)
  BY <1>1, <1>2, <1>3 DEF Whole
<1> HIDE DEF n
<1>6. \A i \in 1..n : i \in 1..(n - 1) \/ i = n
  BY <1>3
<1>7. WholeMessages' = WholeMessages \cup {i \in {n} : k = todo}
  <2>1. ASSUME NEW i \in WholeMessages' PROVE i \in WholeMessages \/ (i = n /\ k = todo)
    <3>1. i \in 1..n /\ Whole(line'[i])
      BY <1>3, <2>1 DEF WholeMessages, Whole
    <3> QED
      BY <1>3, <1>5, <1>6, <3>1 DEF WholeMessages, Whole
  <2>2. ASSUME NEW i \in WholeMessages PROVE i \in WholeMessages'
    <3>1. i \in 1..(n - 1) /\ Whole(line[i])
      BY <1>4 DEF WholeMessages
    <3>2. i \in 1..n
      BY <1>3, <3>1
    <3> QED
      BY <1>3, <3>1, <3>2 DEF WholeMessages, Whole
  <2>3. k = todo => n \in WholeMessages'
    BY <1>3, <1>5 DEF WholeMessages, Whole
  <2> QED
    BY <2>1, <2>2, <2>3
<1>8. \A i \in WholeMessages : line'[i] = line[i]
  BY <1>3, <1>4 DEF WholeMessages
<1>9. CASE k < todo
  <2>1. WholeMessages' = WholeMessages
    BY <1>1, <1>2, <1>7, <1>9
  <2>2. WholeBytes' = WholeBytes
    BY <1>8, <2>1 DEF WholeBytes
  <2> QED
    BY <1>1, <1>2, <1>9, <2>1, <2>2 DEF Counted, CountsMatchLine, CountMessage
<1>10. CASE k = todo
  <2>1. WholeMessages' = WholeMessages \cup {n}
    BY <1>7, <1>10
  <2>2. /\ IsFiniteSet(WholeMessages')
        /\ Cardinality(WholeMessages') = Cardinality(WholeMessages) + 1
    BY <1>4, <2>1, FS_AddElement DEF Counted
  <2>3. WholeBytes' = WholeBytes \cup ({n} \X (1..size))
    <3>1. ASSUME NEW x
          PROVE  x \in WholeBytes' <=> x \in WholeBytes \/ x \in {n} \X (1..size)
      <4>1. x \in WholeBytes' <=> \E i \in WholeMessages' : x \in {i} \X (1..line'[i].size)
        BY DEF WholeBytes
      <4>2. x \in WholeBytes <=> \E i \in WholeMessages : x \in {i} \X (1..line[i].size)
        BY DEF WholeBytes
      <4> QED
        BY <1>5, <1>8, <2>1, <4>1, <4>2
    <3> QED
      BY <3>1
  <2>4. WholeBytes \cap ({n} \X (1..size)) = {}
    BY <1>4 DEF WholeBytes
  <2>5. /\ IsFiniteSet(WholeBytes')
        /\ Cardinality(WholeBytes') = Cardinality(WholeBytes) + size
    BY <1>1, <2>3, <2>4, BytesOfOne DEF Counted
  <2>6. CountMessage
    BY <1>1, <1>2, <1>10
  <2>7. rtcm_history' <= rtcm_history + 1
    BY <1>1, <2>6, SizeAssumption DEF CountMessage
  <2>8. rtcm_history' <= rtcm_message_count'
    <3>1. rtcm_history' \in Int
      BY <1>1, <2>6, SizeAssumption DEF CountMessage
    <3> QED
      BY <1>1, <2>6, <2>7, <3>1 DEF CountMessage, Counted, CountsMatchLine
  <2> QED
    BY <2>2, <2>5, <2>6, <2>8 DEF Counted, CountsMatchLine, CountMessage
<1> QED
  BY <1>1, <1>2, <1>9, <1>10

\* Every other step leaves the line and its counters alone.
LEMMA OthersCount == IInv /\ Counted /\ [Next]_vars /\ ~ WriteSome => Counted'
<1> SUFFICES ASSUME IInv, Counted, [Next]_vars, ~ WriteSome PROVE Counted'
  OBVIOUS
<1>1. /\ UNCHANGED <<line, rtcm_message_count, rtcm_byte_count>>
      /\ rtcm_history' = rtcm_history \/ rtcm_history' \in 0..rtcm_history
  BY DEF vars, Next, Device, Unplug, Plug, ByteArrives, ByteLeaves, IntervalPasses, PollTimer,
         RtcmArrives, ForgetOldTimes, Callback, Ensure, AlreadyOpen, TooSoon, OpenDevice,
         ConfigureFails, Configured, Poll, Read, ReadNothing, ReadFails, CheckOverflow, Write,
         WriteWouldBlock, Writable, WriteFails
<1>2. rtcm_history \in Nat /\ rtcm_message_count \in Nat
  BY SizeAssumption DEF IInv, TypeOK
<1>3. rtcm_history' <= rtcm_message_count'
  BY <1>1, <1>2 DEF Counted, CountsMatchLine
<1>4. WholeMessages' = WholeMessages /\ WholeBytes' = WholeBytes
  BY <1>1 DEF WholeMessages, WholeBytes, Whole
<1> QED
  BY <1>1, <1>3, <1>4 DEF Counted, CountsMatchLine

-----------------------------------------------------------------------------
(* The theorems *)

\* The invariant holds whatever the device does and whoever asks for the port.
THEOREM LinkInvariant == Spec => []IInv
<1>1. IInv /\ [Next]_vars => IInv'
  <2> SUFFICES ASSUME IInv, [Next]_vars PROVE IInv'
    OBVIOUS
  <2>1. CASE Device \/ IntervalPasses \/ PollTimer \/ RtcmArrives \/ ForgetOldTimes
    BY <2>1, OutsideStep
  <2>2. CASE Ensure
    BY <2>2, EnsureStep
  <2>3. CASE Poll
    BY <2>3, PollStep
  <2>4. CASE Write
    BY <2>4, WriteSomeStep, WriteStopsStep DEF Write
  <2>5. CASE UNCHANGED vars
    BY <2>5, StutterKeepsIInv
  <2> QED
    BY <2>1, <2>2, <2>3, <2>4, <2>5 DEF Next, Callback
<1> QED
  BY <1>1, InitIInv, PTL DEF Spec

\* The members of SerialPort and of the node that belong to the link keep their
\* types; no queue, and no history, grows over its limit.
THEOREM TypeCorrect == Spec => []TypeOK
<1>1. IInv => TypeOK
  BY DEF IInv
<1> QED
  BY <1>1, LinkInvariant, PTL

\* SerialPort::open and close: no failure leaks a descriptor or closes one twice.
THEOREM NoDescriptorLeak == Spec => []OneDescriptor
<1>1. IInv => OneDescriptor
  BY DEF IInv
<1> QED
  BY <1>1, LinkInvariant, PTL

\* ensure_serial_open clears the transport: nothing received before a reconnect
\* is joined to what comes after it.
THEOREM NoJoinAcrossReconnect == Spec => []BufferFromOneOpen
<1>1. IInv => BufferFromOneOpen
  BY DEF IInv
<1> QED
  BY <1>1, LinkInvariant, PTL

\* handle_rtcm closes the port on a failed write: no open port is written to
\* again behind a correction of which the kernel took a part.
THEOREM NothingBehindCutMessage == Spec => []CutMessageEndsSession
<1>1. IInv => CutMessageEndsSession
  BY DEF IInv
<1> QED
  BY <1>1, LinkInvariant, PTL

\* handle_rtcm: what the diagnostics count of the corrections is what the kernel
\* took whole, message by message and byte by byte, however writes are cut short,
\* wait or fail, and however the port is closed and opened between them.
THEOREM CountsAreOfWholeMessages == Spec => []CountsMatchLine
<1>1. Init => Counted
  <2> SUFFICES ASSUME Init PROVE Counted
    OBVIOUS
  <2>1. Len(line) = 0
    BY EmptySeq DEF Init
  <2>2. WholeMessages = {}
    BY <2>1 DEF WholeMessages
  <2>3. WholeBytes = {}
    BY <2>2 DEF WholeBytes
  <2> QED
    BY <2>2, <2>3, FS_EmptySet DEF Init, Counted, CountsMatchLine
<1>2. IInv /\ Counted /\ [Next]_vars => Counted'
  BY WriteSomeCounts, OthersCount
<1>3. Counted => CountsMatchLine
  BY DEF Counted
<1> QED
  BY <1>1, <1>2, <1>3, LinkInvariant, PTL DEF Spec

===============================================================================
