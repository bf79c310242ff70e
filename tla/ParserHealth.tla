---------------------------- MODULE ParserHealth ----------------------------
(***************************************************************************)
(* The path of a message from the transport through the parsers, and the   *)
(* status "GPS: parser" that once a second says whether anything went      *)
(* wrong on it (src/src/unicore_node.cpp, gps_parser_status).  Nothing is  *)
(* kept per message: the parsers and the transport count, and the status   *)
(* compares the counts with those of its last report.                      *)
(*                                                                         *)
(* What a message does to the feeds is the subject of module NodeFeeds.    *)
(***************************************************************************)
EXTENDS Parsers

CONSTANTS
    Scenes,                 \* [logs, ids, noise]: what a receiver sends, on which line
    Sent(_),                \* the messages of a log: [says, cells, told, variants]
    RecentUnknownIdsLimit,  \* kRecentUnknownIdsLimit (8)
    MaxCount                \* bound of this model on each counter

ASSUME LimitAssumption == RecentUnknownIdsLimit \in Nat \ {0} /\ MaxCount \in Nat

\* The counters gps_parser_status compares.
Counter == {"parse_errors", "nmea_checksum_errors", "unicore_crc_errors", "crc_errors",
            "resync_count", "unknown_frames"}

\* The ids parse() decodes, by their log, and those known by name only.
MessageId ==
    [log \in {"OBSVMCMP", "HWSTATUS", "AGC", "RTKSTATUS", "JAMSTATUS", "FREQJAMSTATUS",
              "PVTSLN", "BESTSAT", "BESTNAV", "SATSINFO", "RTCMSTATUS"} |->
        CASE log = "OBSVMCMP" -> 138 [] log = "HWSTATUS" -> 218 [] log = "AGC" -> 220
          [] log = "RTKSTATUS" -> 509 [] log = "JAMSTATUS" -> 511
          [] log = "FREQJAMSTATUS" -> 519 [] log = "PVTSLN" -> 1021 [] log = "BESTSAT" -> 1041
          [] log = "BESTNAV" -> 2118 [] log = "SATSINFO" -> 2124 [] log = "RTCMSTATUS" -> 2125]

KnownOnly == {240, 242, 954, 972, 2116, 2117, 2119}

Logs == Nmea \cup DOMAIN MessageId

\* A message says something, in the cells of its log, and a reader should be told it.
IsMessage(log, m) ==
    CASE log = "SATSINFO" ->
            /\ m.says \in Seq(SatsinfoSatellite) /\ m.cells = SatsinfoCells(m.says)
            /\ m.told = [version |-> 2, flag |-> 63, satellites |-> m.says]
      [] log = "BESTSAT" ->
            /\ m.says \in Seq(BestsatSatellite) /\ m.cells = BestsatCells(m.says)
            /\ m.told = [satellites |-> ToldSatellites(m.says)]
      [] log = "OBSVMCMP" ->
            /\ m.says \in Seq(Int) /\ m.cells = ObsvmcmpCells(m.says)
            /\ m.told = [observations |-> m.says]
      [] OTHER ->
            IsFixedLog(log, m.cells) /\ m.says = m.cells /\ m.told = Told(log, m.cells)

\* It comes whole or with its first cells only, and with a blank field or none; the
\* words of a BESTSAT, which are copied as they are, are never blank.
IsVariant(log, m, v) ==
    /\ v.cells \in 0 .. Len(m.cells) /\ v.blank \in 0 .. Len(m.cells)
    /\ log = "BESTSAT" /\ v.blank # 0 => IsNumber(m.cells[v.blank].text)

ASSUME SentAssumption ==
    /\ \A s \in Scenes : s.logs \subseteq Logs
    /\ \A log \in Logs : \A m \in Sent(log) :
          IsMessage(log, m) /\ \A v \in m.variants : IsVariant(log, m, v)

\* The words of a line that its parser skips.
Unread == {"time", "messages", "message",
           "heading_type", "heading_length", "heading_degree", "heading_pitch"}

\* None is no number, and no log.
ASSUME NoneAssumption ==
    /\ None \notin Int
    /\ \A log \in Logs : \A m \in Sent(log) : \A unread \in {{}, Unread} :
          LET read == [name \in DOMAIN m.told \ unread |-> m.told[name]]
          IN  /\ None # read
              /\ log = "PVTSLN" => \A count \in {m.told.tracked, m.told.solution} :
                                     None # WithSatellites(read, count)

VARIABLES
    scene,              \* what this receiver sends, and what the line does to it
    counters,           \* ParserCounters, and those of transport and dispatcher
    snapshot,           \* parser_counters_snapshot_ and its two companions
    recent_unknown,     \* recent_unknown_message_ids
    decoded,            \* the log the last step parsed, [sent, whole, got], or None
    report,             \* the status the last step published, [level, ids], or None
    pending, last_id    \* history: what went wrong since the last report, and the last
                        \* id that was unknown

vars == <<scene, counters, snapshot, recent_unknown, decoded, report, pending, last_id>>

Zero == [c \in Counter |-> 0]

Init ==
    /\ scene \in Scenes
    /\ counters = Zero /\ snapshot = Zero /\ recent_unknown = <<>>
    /\ decoded = None /\ report = None /\ pending = {} /\ last_id = None

-----------------------------------------------------------------------------

\* Something went wrong, which each of these counters counts.
Count(wrong) ==
    /\ \A c \in wrong : counters[c] < MaxCount
    /\ counters' = [c \in Counter |-> IF c \in wrong THEN counters[c] + 1 ELSE counters[c]]
    /\ pending' = pending \cup wrong

\* A line arrives whole, or its checksum does not match.
DamagedLine(log) ==
    /\ Count(IF log \in Nmea THEN {"nmea_checksum_errors"} ELSE {"unicore_crc_errors"})
    /\ decoded' = None /\ report' = None
    /\ UNCHANGED <<scene, snapshot, recent_unknown, last_id>>

\* process_line and parse_line, of a line with the first n cells of a message.
IntactLine(log, message, n, blank) ==
    LET got == Parse(log, Fields(log, message.cells, n, blank))
    IN  /\ Count(IF got = None THEN {"parse_errors"} ELSE {})
        /\ decoded' = [sent |-> message.told, got |-> got,
                       whole |-> blank = 0 /\ n = Len(message.cells)]
        /\ report' = None
        /\ UNCHANGED <<scene, snapshot, recent_unknown, last_id>>

\* process_binary_frame, of a frame with the first n cells of a message.  A frame
\* that is refused is counted nowhere.
KnownFrame(log, message, n) ==
    /\ decoded' = [sent |-> message.told, got |-> ParseFrame(log, Payload(message.cells, n)),
                   whole |-> n = Len(message.cells)]
    /\ report' = None
    /\ UNCHANGED <<scene, counters, snapshot, recent_unknown, pending, last_id>>

Remember(id) ==
    LET all == Append(recent_unknown, id)
    IN  IF Len(all) > RecentUnknownIdsLimit THEN Tail(all) ELSE all

\* dispatch, of an id it has no name for: the id is listed once, and the one that
\* has been listed the longest leaves.
UnknownFrame(id) ==
    /\ id \notin Range(MessageId) \cup KnownOnly
    /\ Count({"unknown_frames"})
    /\ recent_unknown' = IF id \in Range(recent_unknown) THEN recent_unknown ELSE Remember(id)
    /\ last_id' = id
    /\ decoded' = None /\ report' = None
    /\ UNCHANGED <<scene, snapshot>>

\* dispatch, of an id that has a name and no parser.
NamedFrame(id) ==
    /\ id \in KnownOnly
    /\ decoded' = None /\ report' = None
    /\ UNCHANGED <<scene, counters, snapshot, recent_unknown, pending, last_id>>

\* The transport rejects a candidate with a wrong CRC (unless it is lax, then the
\* frame goes on), rejects one that is too long or finds bytes before a sync.
LineNoise ==
    /\ \E wrong \in {{"crc_errors", "resync_count"}, {"crc_errors"}, {"resync_count"}} : Count(wrong)
    /\ decoded' = None /\ report' = None
    /\ UNCHANGED <<scene, snapshot, recent_unknown, last_id>>

Mut_Snapshot == [snapshot EXCEPT !["parse_errors"] = counters["parse_errors"],
                                 !["nmea_checksum_errors"] = counters["nmea_checksum_errors"],
                                 !["unicore_crc_errors"] = counters["unicore_crc_errors"]]

Snapshot == counters

gps_parser_status ==
    /\ report' = [level |-> IF \E c \in Counter : counters[c] - snapshot[c] > 0
                            THEN "WARN" ELSE "OK",
                  ids |-> recent_unknown]
    /\ snapshot' = Snapshot
    /\ pending' = {} /\ decoded' = None
    /\ UNCHANGED <<scene, counters, recent_unknown, last_id>>

\* A log has as many cells as its layout, or fewer when the firmware is older; of a
\* line, a field may be blank.
Message ==
    \E log \in scene.logs : \E message \in Sent(log) : \E v \in message.variants :
        \/ log # "OBSVMCMP" /\ IntactLine(log, message, v.cells, v.blank)
        \/ log \in DOMAIN MessageId /\ v.blank = 0 /\ KnownFrame(log, message, v.cells)

Next ==
    \/ Message
    \/ scene.noise /\ \E log \in {"GGA", "AGC"} : DamagedLine(log)
    \/ \E id \in scene.ids : UnknownFrame(id) \/ NamedFrame(id)
    \/ scene.noise /\ LineNoise
    \/ gps_parser_status

Spec == Init /\ [][Next]_vars

-----------------------------------------------------------------------------
(* Properties *)

\* The satellites of a PVTSLN are those of its solution when it has some.  When it
\* has none the two parsers differ (ASCII: none, binary: those tracked), and from a
\* line that lacks the solution they are those tracked, if it has that.
SatellitesAsSent(got, sent, whole) ==
    /\ got.satellites \in {sent.solution, sent.tracked, None}
    /\ whole /\ sent.solution > 0 => got.satellites = sent.solution

\* The velocity of the fallback, of a BESTNAVA that is short of fields.
IsFallback(got) ==
    DOMAIN got = {"speed", "track", "up_speed", "up_speed_std", "speed_std"}

AsSent(got, sent, whole) ==
    /\ whole => got # None
    /\ got # None =>
          \/ ~ whole /\ IsFallback(got)
          \/ \A name \in DOMAIN got :
                IF name = "satellites" /\ "solution" \in DOMAIN sent
                THEN SatellitesAsSent(got, sent, whole)
                ELSE \/ got[name] = sent[name]
                     \/ ~ whole /\ got[name] = None
                     \/ ~ whole /\ name = "type" /\ got[name] = 0

\* What a parser takes from a log is what the receiver put there, in either
\* encoding: a whole log is understood completely, so that the two backends say the
\* same (of a PVTSLN without a satellite in its solution, all but the satellites).
\* From a log with fewer or with blank fields nothing is taken from the wrong field
\* or from beyond the end: a member then keeps its default, the position type means
\* no fix, or the log is refused.  One log is excepted, because the code does take
\* the wrong fields there: from a BESTNAVA cut behind five numbers parse_bestnava
\* reads a velocity, whatever they are; but only that, no position and no status.
DecodedAsSent ==
    decoded # None => AsSent(decoded.got, decoded.sent, decoded.whole)

\* Each report warns if and only if a counted anomaly has happened since the one
\* before it, so that each is reported once and none is reported again; and it
\* lists distinct unknown ids, the last one among them.
AnomaliesReportedOnce ==
    [][report' # None =>
        /\ report'.level = "WARN" <=> pending # {}
        /\ IsInjective(report'.ids) /\ Len(report'.ids) <= RecentUnknownIdsLimit
        /\ last_id # None => last_id \in Range(report'.ids)]_vars
=============================================================================
