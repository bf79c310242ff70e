------------------------------ MODULE SerialLink ------------------------------
(***************************************************************************)
(* UnicoreNode's use of the serial port (src/src/unicore_node.cpp,         *)
(* src/src/serial_port.cpp): the poll timer reads the receiver, the RTCM   *)
(* subscription writes to it, and either of them opens the port when it is *)
(* closed.  Both are callbacks of one single-threaded executor, so they do *)
(* not interleave with each other, but each makes several system calls and *)
(* the device can change between any two of them.                          *)
(*                                                                         *)
(* The tty and the receiver behind it are external: a device that is       *)
(* unplugged and plugged in again is a new one, and a descriptor of the    *)
(* old one stays hung up.  The transport is abstracted to what drain       *)
(* leaves in its buffer, some suffix of it (UnicoreTransport).             *)
(***************************************************************************)
EXTENDS Integers, Sequences, FiniteSets

CONSTANTS
    MaxBuffer,          \* bytes the transport may hold at the end of a poll
    ReadSize,           \* bytes asked for by one read (1024)
    RtcmSize,           \* sizes of RTCM messages
    RxCap, TxCap,       \* the kernel's two queues
    HistorySize,        \* entries of rtcm_history_ (1024)
    MaxPlugs, MaxBytes, MaxMessages     \* bounds: devices, bytes, messages

ASSUME SizeAssumption ==
    /\ MaxBuffer \in Nat /\ ReadSize \in Nat \ {0}
    /\ RtcmSize \subseteq Nat
    /\ RxCap \in Nat \ {0} /\ TxCap \in Nat \ {0} /\ HistorySize \in Nat

ASSUME BoundAssumption ==
    MaxPlugs \in Nat \ {0} /\ MaxBytes \in Nat /\ MaxMessages \in Nat

VARIABLES
    \* the device
    plugged,            \* it is there
    device,             \* which one, counting from 1
    rx, tx,             \* bytes the kernel holds in each direction
    arrived,            \* bytes it has sent (bound)
    \* the port
    baud_ok,            \* to_termios_baud knows the rate
    fd,                 \* the device fd_ was opened on, 0 for -1
    descriptors,        \* descriptors the process has open
    throttled,          \* reconnect_interval_sec has not passed since an attempt
    \* the executor
    pc,
    caller,             \* who called ensure_serial_open
    asked,              \* RTCM messages so far (bound)
    size, todo,         \* the RTCM message, and what is left of it
    buffer,             \* the transport's buffer: each byte as the open it came by
    rtcm_message_count,
    rtcm_byte_count,
    rtcm_history,       \* how many times rtcm_history_ holds
    \* history
    opens,              \* successful opens
    line                \* RTCM messages as far as the kernel took them

tty == <<plugged, device, rx, tx, arrived>>
port == <<fd, descriptors, throttled>>
counts == <<asked, rtcm_message_count, rtcm_byte_count, rtcm_history, line>>
locals == <<caller, size, todo>>
vars == <<tty, baud_ok, port, pc, locals, counts, buffer, opens>>

Init ==
    /\ plugged \in BOOLEAN /\ device = 1 /\ rx = 0 /\ tx = 0 /\ arrived = 0
    /\ baud_ok \in BOOLEAN
    /\ fd = 0 /\ descriptors = 0 /\ throttled = FALSE
    /\ pc = "idle" /\ caller = "none"
    /\ asked = 0 /\ size = 0 /\ todo = 0
    /\ rtcm_message_count = 0 /\ rtcm_byte_count = 0 /\ rtcm_history = 0
    /\ buffer = <<>> /\ opens = 0 /\ line = <<>>

-----------------------------------------------------------------------------
(* The device *)

Unplug ==
    /\ plugged
    /\ plugged' = FALSE /\ rx' = 0 /\ tx' = 0
    /\ UNCHANGED <<device, arrived, baud_ok, port, pc, locals, counts, buffer, opens>>

Plug ==
    /\ ~ plugged /\ device < MaxPlugs
    /\ plugged' = TRUE /\ device' = device + 1
    /\ UNCHANGED <<rx, tx, arrived, baud_ok, port, pc, locals, counts, buffer, opens>>

\* A byte that finds the queue full is lost.
ByteArrives ==
    /\ plugged /\ arrived < MaxBytes
    /\ arrived' = arrived + 1
    /\ rx' = IF rx < RxCap THEN rx + 1 ELSE rx
    /\ UNCHANGED <<plugged, device, tx, baud_ok, port, pc, locals, counts, buffer, opens>>

ByteLeaves ==
    /\ plugged /\ tx > 0
    /\ tx' = tx - 1
    /\ UNCHANGED <<plugged, device, rx, arrived, baud_ok, port, pc, locals, counts, buffer, opens>>

IntervalPasses ==
    /\ throttled
    /\ throttled' = FALSE
    /\ UNCHANGED <<tty, baud_ok, fd, descriptors, pc, locals, counts, buffer, opens>>

\* What fd_ refers to is still there.
Alive == plugged /\ fd = device

-----------------------------------------------------------------------------
(* Callbacks, and ensure_serial_open *)

\* A callback returns, and its local variables are gone.
Return == pc' = "idle" /\ caller' = "none" /\ size' = 0 /\ todo' = 0

GoTo(where) == pc' = where /\ UNCHANGED locals

PollTimer ==
    /\ pc = "idle"
    /\ pc' = "ensure" /\ caller' = "poll"
    /\ UNCHANGED <<tty, baud_ok, port, size, todo, counts, buffer, opens>>

RtcmArrives ==
    /\ pc = "idle" /\ asked < MaxMessages
    /\ asked' = asked + 1
    /\ size' \in RtcmSize
    /\ todo' = size'
    /\ pc' = "ensure" /\ caller' = "rtcm"
    /\ UNCHANGED <<tty, baud_ok, port, rtcm_message_count, rtcm_byte_count, rtcm_history, line,
                   buffer, opens>>

\* The caller goes on when the port is open: an empty message is not written.
Continue ==
    \/ caller = "poll" /\ GoTo("read")
    \/ caller = "rtcm" /\ size > 0 /\ GoTo("write")
    \/ caller = "rtcm" /\ size = 0 /\ Return

AlreadyOpen ==
    /\ pc = "ensure" /\ fd # 0
    /\ Continue
    /\ UNCHANGED <<tty, baud_ok, port, counts, buffer, opens>>

\* Not yet again: the caller gives up, and an RTCM message is dropped.
TooSoon ==
    /\ pc = "ensure" /\ fd = 0 /\ throttled
    /\ Return
    /\ UNCHANGED <<tty, baud_ok, port, counts, buffer, opens>>

\* Mutant: one attempt is all there is.
Mut_OpenOnce ==
    /\ pc = "ensure" /\ fd = 0 /\ ~ throttled
    /\ throttled' = TRUE
    /\ IF plugged /\ opens = 0
         THEN fd' = device /\ descriptors' = descriptors + 1 /\ GoTo("configure")
         ELSE Return /\ UNCHANGED <<fd, descriptors>>
    /\ UNCHANGED <<tty, baud_ok, counts, buffer, opens>>

\* The attempt is noted whether it succeeds or not.
OpenDevice ==
    /\ pc = "ensure" /\ fd = 0 /\ ~ throttled
    /\ throttled' = TRUE
    /\ IF plugged
         THEN fd' = device /\ descriptors' = descriptors + 1 /\ GoTo("configure")
         ELSE Return /\ UNCHANGED <<fd, descriptors>>
    /\ UNCHANGED <<tty, baud_ok, counts, buffer, opens>>

\* Mutant: a failed tcgetattr, tcsetattr or rate forgets the descriptor.
Mut_Forget == fd' = 0 /\ UNCHANGED descriptors

CloseOnFailure == fd' = 0 /\ descriptors' = descriptors - 1

\* tcgetattr and tcsetattr fail on a device that has gone, and an unknown rate
\* is refused.
ConfigureFails ==
    /\ pc = "configure" /\ ~ (Alive /\ baud_ok)
    /\ CloseOnFailure
    /\ Return
    /\ UNCHANGED <<tty, baud_ok, throttled, counts, buffer, opens>>

\* Mutant: the transport keeps what it has.
Mut_KeepBuffer ==
    /\ pc = "configure" /\ Alive /\ baud_ok
    /\ rx' = 0
    /\ opens' = opens + 1
    /\ Continue
    /\ UNCHANGED <<plugged, device, tx, arrived, baud_ok, port, counts, buffer>>

\* The input queue is flushed, and the transport forgets what it had.
Configured ==
    /\ pc = "configure" /\ Alive /\ baud_ok
    /\ rx' = 0
    /\ buffer' = <<>>
    /\ opens' = opens + 1
    /\ Continue
    /\ UNCHANGED <<plugged, device, tx, arrived, baud_ok, port, counts>>

ClosePort == fd' = 0 /\ descriptors' = descriptors - 1 /\ UNCHANGED throttled

-----------------------------------------------------------------------------
(* poll_serial *)

\* A read, the append and the drain, after which a suffix of the buffer is left.
Read ==
    /\ pc = "read" /\ Alive /\ rx > 0
    /\ LET n == IF rx < ReadSize THEN rx ELSE ReadSize
           appended == buffer \o [i \in 1..n |-> opens]
       IN  /\ rx' = rx - n
           /\ \E k \in 0..Len(appended) : buffer' = SubSeq(appended, k + 1, Len(appended))
    /\ UNCHANGED <<plugged, device, tx, arrived, baud_ok, port, pc, locals, counts, opens>>

\* With VMIN and VTIME zero a read returns 0 when there is nothing, and so it
\* does on a descriptor that is hung up.
ReadNothing ==
    /\ pc = "read" /\ (rx = 0 \/ ~ Alive)
    /\ GoTo("overflow")
    /\ UNCHANGED <<tty, baud_ok, port, counts, buffer, opens>>

\* Some drivers fail instead.
ReadFails ==
    /\ pc = "read" /\ ~ Alive
    /\ ClosePort
    /\ GoTo("overflow")
    /\ UNCHANGED <<tty, baud_ok, counts, buffer, opens>>

CheckOverflow ==
    /\ pc = "overflow"
    /\ buffer' = IF Len(buffer) > MaxBuffer THEN <<>> ELSE buffer
    /\ Return
    /\ UNCHANGED <<tty, baud_ok, port, counts, opens>>

-----------------------------------------------------------------------------
(* handle_rtcm and SerialPort::write *)

\* The history with k more bytes of the message that is being written.
Extended(k) ==
    IF todo = size THEN Append(line, [open |-> opens, size |-> size, taken |-> k])
                   ELSE [line EXCEPT ![Len(line)].taken = @ + k]

\* Mutant: only what the last ::write took is counted.
Mut_CountLastWrite ==
    /\ rtcm_message_count' = rtcm_message_count + 1
    /\ rtcm_byte_count' = rtcm_byte_count + todo
    /\ rtcm_history' = IF rtcm_history < HistorySize THEN rtcm_history + 1 ELSE HistorySize

CountMessage ==
    /\ rtcm_message_count' = rtcm_message_count + 1
    /\ rtcm_byte_count' = rtcm_byte_count + size
    /\ rtcm_history' = IF rtcm_history < HistorySize THEN rtcm_history + 1 ELSE HistorySize

\* The kernel takes some of what is left, or all of it.
WriteSome ==
    /\ pc = "write" /\ Alive /\ tx < TxCap
    /\ \E k \in 1..todo :
        /\ k <= TxCap - tx
        /\ tx' = tx + k
        /\ line' = Extended(k)
        /\ \/ k = todo /\ CountMessage /\ Return
           \/ /\ k < todo /\ todo' = todo - k
              /\ UNCHANGED <<pc, caller, size, rtcm_message_count, rtcm_byte_count, rtcm_history>>
    /\ UNCHANGED <<asked, plugged, device, rx, arrived, baud_ok, port, buffer, opens>>

WriteWouldBlock ==
    /\ pc = "write" /\ Alive /\ tx = TxCap
    /\ GoTo("wait")
    /\ UNCHANGED <<tty, baud_ok, port, counts, buffer, opens>>

\* wait_writable; POLLOUT is also reported for a descriptor that is hung up.
Writable ==
    /\ pc = "wait" /\ (tx < TxCap \/ ~ Alive)
    /\ GoTo("write")
    /\ UNCHANGED <<tty, baud_ok, port, counts, buffer, opens>>

\* Mutants: a failed write leaves the port open; its result is not looked at
\* (-1 more bytes); it is tried again until there is room.
Mut_StayOpen ==
    /\ \/ pc = "write" /\ ~ Alive
       \/ pc = "wait" /\ (tx = TxCap \/ ~ Alive)
    /\ Return
    /\ UNCHANGED <<tty, baud_ok, port, counts, buffer, opens>>

Mut_CountFailure ==
    /\ \/ pc = "write" /\ ~ Alive
       \/ pc = "wait" /\ (tx = TxCap \/ ~ Alive)
    /\ rtcm_message_count' = rtcm_message_count + 1
    /\ rtcm_byte_count' = rtcm_byte_count - 1
    /\ Return
    /\ UNCHANGED <<tty, baud_ok, port, asked, rtcm_history, line, buffer, opens>>

Mut_WaitForever ==
    /\ pc = "write" /\ ~ Alive
    /\ ClosePort
    /\ Return
    /\ UNCHANGED <<tty, baud_ok, counts, buffer, opens>>

\* The write fails on a descriptor that is hung up, and 100 ms without room are
\* a failure too, whatever was written before: nothing is counted, and the port
\* is closed.
WriteFails ==
    /\ \/ pc = "write" /\ ~ Alive
       \/ pc = "wait" /\ (tx = TxCap \/ ~ Alive)
    /\ ClosePort
    /\ Return
    /\ UNCHANGED <<tty, baud_ok, counts, buffer, opens>>

\* gps_ntrip_status, from the diagnostics timer: times older than five seconds
\* are forgotten, oldest first.
ForgetOldTimes ==
    /\ pc = "idle"
    /\ rtcm_history' \in 0..rtcm_history
    /\ UNCHANGED <<tty, baud_ok, port, pc, locals, asked, rtcm_message_count, rtcm_byte_count,
                   line, buffer, opens>>

-----------------------------------------------------------------------------
Device == Unplug \/ Plug \/ ByteArrives \/ ByteLeaves
Ensure == AlreadyOpen \/ TooSoon \/ OpenDevice \/ ConfigureFails \/ Configured
Poll == Read \/ ReadNothing \/ ReadFails \/ CheckOverflow
Write == WriteSome \/ WriteWouldBlock \/ Writable \/ WriteFails
Callback == Ensure \/ Poll \/ Write

Next == Device \/ IntervalPasses \/ PollTimer \/ RtcmArrives \/ ForgetOldTimes \/ Callback

\* Callbacks run to their end, the poll timer keeps firing, and time passes.
\* Nothing is assumed of the device or of who sends corrections.
Spec ==
    /\ Init /\ [][Next]_vars
    /\ WF_vars(Callback) /\ WF_vars(PollTimer) /\ WF_vars(IntervalPasses)

-----------------------------------------------------------------------------
(* Properties *)

Pcs == {"idle", "ensure", "configure", "read", "overflow", "write", "wait"}
Message == [open : Nat, size : Nat, taken : Nat]

\* The type invariant of the link.
TypeOK ==
    /\ plugged \in BOOLEAN /\ device \in Nat \ {0} /\ rx \in 0..RxCap /\ tx \in 0..TxCap
    /\ arrived \in Nat /\ baud_ok \in BOOLEAN
    /\ fd \in Nat /\ descriptors \in Nat /\ throttled \in BOOLEAN
    /\ pc \in Pcs /\ caller \in {"none", "poll", "rtcm"}
    /\ asked \in Nat /\ size \in Nat /\ todo \in Nat /\ todo <= size
    /\ buffer \in Seq(Nat) /\ opens \in Nat
    /\ rtcm_message_count \in Nat /\ rtcm_byte_count \in Nat
    /\ rtcm_history \in 0..HistorySize
    /\ line \in Seq(Message)

\* However opening, reading and writing fail, the process has the one
\* descriptor that fd_ names, or none: none leaks, none is closed twice.
OneDescriptor == descriptors = IF fd = 0 THEN 0 ELSE 1

\* What the receiver sent before a reconnect is never joined to what it sends
\* after: the transport holds bytes of one open port only.
BufferFromOneOpen == \A i \in 1..Len(buffer) : buffer[i] = opens

Whole(m) == m.taken = m.size

\* A message that was cut short is the last that is written to that open port:
\* the next one goes out under a new open, never straight behind it.  (On the
\* wire nothing else separates the two: the port may be opened again at once.)
CutMessageEndsSession ==
    \A i, j \in 1..Len(line) :
        i < j /\ ~ Whole(line[i]) => line[i].open < line[j].open

WholeMessages == {i \in 1..Len(line) : Whole(line[i])}

\* The bytes of the whole messages, each with the message it belongs to.
WholeBytes == UNION {{i} \X (1..line[i].size) : i \in WholeMessages}

\* The counters and the times that diagnostics report are of what the kernel
\* took whole: neither a part of a message nor a dropped one is counted.
CountsMatchLine ==
    /\ rtcm_message_count = Cardinality(WholeMessages)
    /\ rtcm_byte_count = Cardinality(WholeBytes)
    /\ rtcm_history <= rtcm_message_count

\* Both callbacks end, wherever they are: handle_rtcm also when the receiver
\* stops taking bytes or goes away, and poll_serial, whose loop reads until there
\* is nothing, because what the receiver sends is finite here (MaxBytes).  The
\* loop itself has no limit: a line that always has the next byte would keep it.
CallbacksReturn == (pc # "idle") ~> (pc = "idle")

\* A closed port is opened again while the device is there.
ClosedPortReopens ==
    baud_ok => [](fd = 0 => <>(fd # 0 \/ ~ plugged))

\* A descriptor that is hung up is given up when a correction is to be written
\* to it.  (Reading alone may never tell it from a receiver that says nothing.)
HungUpPortClosed == (pc = "write" /\ ~ Alive) ~> (fd = 0)

===============================================================================
