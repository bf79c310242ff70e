----------------------------- MODULE Diagnostics -----------------------------
(***************************************************************************)
(* The diagnostics of UnicoreNode: once a second publish_diagnostics says  *)
(* of each part of the receiver whether it is OK, from the feeds of module *)
(* NodeFeeds, the serial port and the corrections the node has written.    *)
(* Of a status the model keeps the level.  Its key/value pairs are read by *)
(* nobody in the code and are left out, and so is "GPS: parser", which is  *)
(* the subject of module ParserHealth.  Of the port, that it is open or    *)
(* not (module SerialLink has the rest).                                   *)
(***************************************************************************)
EXTENDS NodeFeeds, SequencesExt

CONSTANTS
    RtcmTimeout,        \* rtcm_timeout_sec_
    SatelliteTimeout,   \* satellite_diag_timeout_sec_
    RfTimeout,          \* rf_diag_timeout_sec_
    RawTimeout,         \* raw_observation_timeout_sec_
    BestnavFloor,       \* the 2.0 seconds a BESTNAVA lives at least
    Window,             \* the 5 seconds of gps_ntrip_status
    HistorySize,        \* bound of rtcm_history_ (1024)
    Setups              \* [logged, use_binary, enabled, caster]: how the node is run

ASSUME DiagnosticTimes ==
    \A t \in {RtcmTimeout, SatelliteTimeout, RfTimeout, RawTimeout, BestnavFloor, Window} :
        t \in Nat /\ t < Old

ASSUME HistoryAssumption == HistorySize \in Nat \ {0}

\* Satellites and observations that are listed are counted; what a log says of
\* itself is any number that parse_int reads.
ASSUME StatusContent ==
    /\ \A log \in {"BESTSATA", "BESTSATB", "SATSINFOA", "SATSINFOB", "OBSVMCMPB"} :
          Content(log) \subseteq Nat
    /\ \A log \in {"GPGSV", "GLGSV", "JAMSTATUSA", "JAMSTATUSB"} : Content(log) \subseteq Int
    /\ \A log \in {"AGCA", "AGCB", "FREQJAMSTATUSA", "FREQJAMSTATUSB"} :
          Content(log) \subseteq Seq(Int)

Status == {"fix", "satellites", "rtk", "ntrip", "rf", "hardware", "jamming", "raw"}
Level == {"OK", "WARN", "ERROR"}
Talker == {"GPGSV", "GLGSV"}

VARIABLES
    enabled,            \* the enable_* parameters that are set, by their subject
    caster,             \* whether corrections arrive on the RTCM topic
    open,               \* serial_.is_open()
    rtcm_history,       \* rtcm_history_, as ages
    since,              \* history: age of the last correction written, Old if none
    report              \* the levels the last step published, or None

dvars == <<enabled, caster, open, rtcm_history, since, report>>

DInit ==
    /\ Init
    /\ \E s \in Setups : /\ logged = s.logged /\ use_binary = s.use_binary
                         /\ enabled = s.enabled /\ caster = s.caster
    /\ open = FALSE /\ rtcm_history = <<>> /\ since = Old /\ report = None

-----------------------------------------------------------------------------
(* Selection *)

BestnavTimeout == IF BestnavFloor > RtcmTimeout THEN BestnavFloor ELSE RtcmTimeout

Lifetime(f) ==
    CASE f = "BESTNAVA" -> BestnavTimeout
      [] f = "BESTNAVB" -> BinaryNavTimeout
      [] f \in {"RTKSTATUSA", "RTKSTATUSB", "RTCMSTATUSA", "RTCMSTATUSB"} -> RtcmTimeout
      [] f \in {"BESTSATA", "BESTSATB", "SATSINFOA", "SATSINFOB"} -> SatelliteTimeout
      [] f = "OBSVMCMPB" -> RawTimeout
      [] f \in Talker -> DataTimeout
      [] OTHER -> RfTimeout

Live(f) == Fresh(f, Lifetime(f))

\* The binary log when it is selected and live, else the ASCII log when live.
Select(subject, binary, ascii) ==
    IF subject \in use_binary /\ Live(binary) THEN binary
    ELSE IF Live(ascii) THEN ascii ELSE None

active_bestnav == Select("nav", "BESTNAVB", "BESTNAVA")
active_rtk_status == Select("rtk", "RTKSTATUSB", "RTKSTATUSA")
active_rtcm_status == Select("rtcm", "RTCMSTATUSB", "RTCMSTATUSA")
active_bestsat == Select("satellites", "BESTSATB", "BESTSATA")
active_satsinfo == Select("satellites", "SATSINFOB", "SATSINFOA")

Mut_active_agc ==
    IF "rf" \in use_binary /\ latest["AGCB"] # None THEN "AGCB"
    ELSE IF latest["AGCA"] # None THEN "AGCA" ELSE None

active_agc == Select("rf", "AGCB", "AGCA")
active_hw_status == Select("hardware", "HWSTATUSB", "HWSTATUSA")
active_jam_status == Select("jamming", "JAMSTATUSB", "JAMSTATUSA")
active_freq_jam_status == Select("jamming", "FREQJAMSTATUSB", "FREQJAMSTATUSA")
active_raw_observations == IF "raw" \in use_binary /\ Live("OBSVMCMPB") THEN "OBSVMCMPB" ELSE None

Lost(subject, binary) == subject \in use_binary /\ ~ Live(binary)

-----------------------------------------------------------------------------
(* Levels.  The order of the tests is that of the code. *)

Mut_gps_fix_status ==
    LET raw == IF active_fix = None THEN 0 ELSE latest[active_fix]
        q == IF raw > 0 \/ active_bestnav = None THEN raw ELSE latest[active_bestnav].quality
    IN  IF ~ open \/ q <= 0 THEN "ERROR" ELSE IF q = 4 THEN "OK" ELSE "WARN"

gps_fix_status ==
    LET raw == IF active_fix = None THEN 0 ELSE latest[active_fix]
        q == IF raw > 0 \/ active_bestnav = None THEN raw ELSE latest[active_bestnav].quality
    IN  IF ~ open \/ active_fix = None \/ q <= 0 THEN "ERROR"
        ELSE IF q = 4 THEN "OK" ELSE "WARN"

\* Satellites in view: those of SATSINFO, else the fresh GSV of each talker.
visible_total ==
    IF "satsinfo" \in enabled /\ active_satsinfo # None THEN latest[active_satsinfo]
    ELSE LET seen(t) == IF Fresh(t, DataTimeout) THEN latest[t] ELSE 0
         IN  seen("GPGSV") + seen("GLGSV")

gps_satellites_status ==
    IF "satellites" \notin enabled THEN "OK"
    ELSE IF "satsinfo" \in enabled /\ active_satsinfo = None /\ \A t \in Talker : latest[t] = None
    THEN "ERROR"
    ELSE IF "satsinfo" \in enabled /\ (Lost("satellites", "SATSINFOB") \/ active_satsinfo = None)
    THEN "WARN"
    ELSE IF visible_total = 0 THEN "ERROR"
    ELSE IF Lost("satellites", "BESTSATB") \/ active_bestsat = None THEN "WARN"
    ELSE IF latest[active_bestsat] = 0 \/ visible_total < 6 THEN "WARN" ELSE "OK"

\* The quality is that of BESTNAV: without a BESTNAV it is not reached.
gps_rtk_status ==
    IF "rtk" \notin enabled THEN "OK"
    ELSE IF active_bestnav = None THEN "ERROR"
    ELSE IF Lost("rtk", "RTKSTATUSB") \/ active_rtk_status = None THEN "WARN"
    ELSE LET bestnav == latest[active_bestnav]
         IN  IF ~ bestnav.solved THEN "ERROR"
             ELSE IF bestnav.late THEN "WARN"
             ELSE IF bestnav.quality = 4 THEN "OK"
             ELSE IF bestnav.quality > 0 THEN "WARN" ELSE "ERROR"

\* The corrections of the last 5 seconds: older ones leave from the front.
InWindow(history) ==
    LET gone == CHOOSE n \in 0 .. Len(history) :
                  /\ \A i \in 1 .. n : history[i] > Window
                  /\ n < Len(history) => history[n + 1] <= Window
    IN  SubSeq(history, gone + 1, Len(history))

\* The test of receiver_age is left out: a log that is active is not stale.
gps_ntrip_status(history) ==
    IF history = <<>> THEN "ERROR"
    ELSE IF Last(history) > RtcmTimeout THEN "WARN"
    ELSE IF "rtcm" \in enabled /\ (Lost("rtcm", "RTCMSTATUSB") \/ active_rtcm_status = None)
    THEN "WARN" ELSE "OK"

\* min_valid_agc and mean_valid_agc: a negative gain is a channel without one.
rf_saturation_suspected(gains) == \E i \in DOMAIN gains :
    gains[i] \in 0 .. 10 /\ \A j \in DOMAIN gains : gains[j] < 0 \/ gains[i] <= gains[j]

rf_signal_low(gains) ==
    LET valid == SelectSeq(gains, LAMBDA g : g >= 0)
    IN  valid # <<>> /\ FoldSeq(LAMBDA g, sum : g + sum, 0, valid) >= 80 * Len(valid)

gps_rf_status ==
    IF "rf" \notin enabled THEN "OK"
    ELSE IF active_agc = None \/ Lost("rf", "AGCB") THEN "WARN"
    ELSE IF \/ rf_saturation_suspected(latest[active_agc])
            \/ rf_signal_low(latest[active_agc]) THEN "WARN" ELSE "OK"

Mut_gps_hardware_status ==
    IF "hardware" \notin enabled THEN "OK"
    ELSE IF active_hw_status = None THEN "WARN"
    ELSE LET hw == latest[active_hw_status]
         IN  IF ~ hw.rails THEN "ERROR" ELSE IF hw.clock /\ hw.pll THEN "OK" ELSE "WARN"

gps_hardware_status ==
    IF "hardware" \notin enabled THEN "OK"
    ELSE IF active_hw_status = None \/ Lost("hardware", "HWSTATUSB") THEN "WARN"
    ELSE LET hw == latest[active_hw_status]
         IN  IF ~ hw.rails THEN "ERROR" ELSE IF hw.clock /\ hw.pll THEN "OK" ELSE "WARN"

\* The flags of the active JAMSTATUS and of the bands of the active FREQJAMSTATUS.
jam_flags ==
    (IF active_jam_status = None THEN {} ELSE {latest[active_jam_status]})
      \cup (IF active_freq_jam_status = None THEN {} ELSE Range(latest[active_freq_jam_status]))

\* Mutant: that there is a log at all is not looked at.
Mut_gps_jamming_status ==
    IF "jamming" \notin enabled THEN "OK"
    ELSE IF Lost("jamming", "JAMSTATUSB") /\ Lost("jamming", "FREQJAMSTATUSB") THEN "WARN"
    ELSE IF \E flag \in jam_flags : flag >= 2 THEN "ERROR"
    ELSE IF 1 \in jam_flags THEN "WARN" ELSE "OK"

gps_jamming_status ==
    IF "jamming" \notin enabled THEN "OK"
    ELSE IF active_jam_status = None /\ active_freq_jam_status = None THEN "WARN"
    ELSE IF Lost("jamming", "JAMSTATUSB") /\ Lost("jamming", "FREQJAMSTATUSB") THEN "WARN"
    ELSE IF \E flag \in jam_flags : flag >= 2 THEN "ERROR"
    ELSE IF 1 \in jam_flags THEN "WARN" ELSE "OK"

gps_raw_observation_status ==
    IF "raw" \notin enabled \/ "raw" \notin use_binary THEN "OK"
    ELSE IF active_raw_observations = None THEN "WARN"
    ELSE IF latest["OBSVMCMPB"] <= 0 THEN "WARN" ELSE "OK"

Levels(history) ==
    [s \in Status |->
        CASE s = "fix" -> gps_fix_status
          [] s = "satellites" -> gps_satellites_status
          [] s = "rtk" -> gps_rtk_status
          [] s = "ntrip" -> gps_ntrip_status(history)
          [] s = "rf" -> gps_rf_status
          [] s = "hardware" -> gps_hardware_status
          [] s = "jamming" -> gps_jamming_status
          [] s = "raw" -> gps_raw_observation_status]

-----------------------------------------------------------------------------
(* Steps *)

\* A message of the receiver, read from the open port.
Receive ==
    /\ open
    /\ Line \/ Frame
    /\ report' = None
    /\ UNCHANGED <<enabled, caster, open, rtcm_history, since>>

TimePasses ==
    /\ Tick
    /\ rtcm_history' = [i \in DOMAIN rtcm_history |-> Older(rtcm_history[i])]
    /\ since' = Older(since)
    /\ report' = None
    /\ UNCHANGED <<enabled, caster, open>>

Quiet == NoFix /\ NoHeading /\ UNCHANGED <<use_binary, logged, latest, age, recent_ids>>

\* poll_serial opens the port, or finds it hung up and closes it.
PollSerial ==
    /\ open' \in BOOLEAN
    /\ report' = None /\ Quiet
    /\ UNCHANGED <<enabled, caster, rtcm_history, since>>

Mut_Written(history) ==
    LET all == Append(history, 0)
    IN  IF Len(history) > HistorySize THEN Tail(all) ELSE all

\* A correction is written: its time is kept, and the oldest one leaves.
Written(history) ==
    LET all == Append(history, 0)
    IN  IF Len(all) > HistorySize THEN Tail(all) ELSE all

\* The port is opened when it can be; an empty correction is not written, and
\* a write that fails closes the port.
handle_rtcm ==
    /\ caster
    /\ \E opened \in {open, TRUE} :
        \/ open' = opened /\ UNCHANGED <<rtcm_history, since>>
        \/ opened /\ open' = FALSE /\ UNCHANGED <<rtcm_history, since>>
        \/ opened /\ open' = TRUE /\ rtcm_history' = Written(rtcm_history) /\ since' = 0
    /\ report' = None /\ Quiet
    /\ UNCHANGED <<enabled, caster>>

\* gps_ntrip_status forgets the corrections that have left the window.
publish_diagnostics ==
    /\ rtcm_history' = InWindow(rtcm_history)
    /\ report' = Levels(rtcm_history')
    /\ Quiet
    /\ UNCHANGED <<enabled, caster, open, since>>

DNext == Receive \/ TimePasses \/ PollSerial \/ handle_rtcm \/ publish_diagnostics

Fairness ==
    /\ WF_<<vars, dvars>>(TimePasses)
    /\ WF_<<vars, dvars>>(publish_diagnostics /\ report = None)

DSpec == DInit /\ [][DNext]_<<vars, dvars>> /\ Fairness

-----------------------------------------------------------------------------
(* Properties *)

\* Every variable has its type; the corrections are kept in the order in which
\* they were written, no more than HistorySize, and the last one is among them
\* for as long as it is in the window.
DTypeOK ==
    /\ open \in BOOLEAN
    /\ report \in [Status -> Level] \cup {None}
    /\ rtcm_history \in Seq(0 .. Old) /\ since \in 0 .. Old
    /\ Len(rtcm_history) <= HistorySize
    /\ \A i, j \in DOMAIN rtcm_history : i < j => rtcm_history[i] >= rtcm_history[j]
    /\ since <= Window => rtcm_history # <<>> /\ Last(rtcm_history) = since

\* One of the feeds was heard of within t, and what it said passes the test.
Heard(feeds, t, test(_)) == \E f \in feeds : latest[f] # None /\ age[f] <= t /\ test(latest[f])

OK(s) == report[s] = "OK" /\ s \in enabled

\* An OK is never out of date: whatever backend is used and whichever feed has
\* taken over, each OK of a report rests on a feed that was heard of within the
\* timeout of that feed and said that all is well.  The jamming status looks at
\* two logs and needs one: besides, no live log of the preferred backend raises
\* an alarm, and one of the other only behind a live preferred one.
OkMeansEvidence ==
    report # None =>
      /\ report["fix"] = "OK" =>
            /\ open
            /\ \/ Heard(AsciiFix, DataTimeout, LAMBDA q : q = 4)
               \/ Heard({"PVTSLNB"}, BinaryNavTimeout, LAMBDA q : q = 4)
      /\ OK("satellites") =>
            /\ Heard({"BESTSATA", "BESTSATB"}, SatelliteTimeout, LAMBDA n : n > 0)
            /\ \/ Heard({"SATSINFOA", "SATSINFOB"}, SatelliteTimeout, LAMBDA n : n >= 6)
               \/ "satsinfo" \notin enabled /\ Heard(Talker, DataTimeout, LAMBDA n : n > 0)
      /\ OK("rtk") =>
            /\ \/ Heard({"BESTNAVA"}, BestnavTimeout, LAMBDA b : b.solved /\ ~ b.late /\ b.quality = 4)
               \/ Heard({"BESTNAVB"}, BinaryNavTimeout, LAMBDA b : b.solved /\ ~ b.late /\ b.quality = 4)
            /\ Heard({"RTKSTATUSA", "RTKSTATUSB"}, RtcmTimeout, LAMBDA r : TRUE)
      /\ report["ntrip"] = "OK" =>
            /\ since <= RtcmTimeout
            /\ "rtcm" \in enabled =>
                  Heard({"RTCMSTATUSA", "RTCMSTATUSB"}, RtcmTimeout, LAMBDA id : TRUE)
      /\ OK("rf") =>
            Heard({"AGCA", "AGCB"}, RfTimeout,
                  LAMBDA g : (\A i \in DOMAIN g : g[i] \notin 0 .. 10) /\ ~ rf_signal_low(g))
      /\ OK("hardware") =>
            Heard({"HWSTATUSA", "HWSTATUSB"}, RfTimeout, LAMBDA hw : hw.rails /\ hw.clock /\ hw.pll)
      /\ OK("jamming") =>
            LET alarm(band, f) == Heard({f}, RfTimeout, LAMBDA d : \E flag \in IF band THEN Range(d) ELSE {d} : flag > 0)
                calm(band, f) == Heard({f}, RfTimeout, LAMBDA d : ~ (\E flag \in IF band THEN Range(d) ELSE {d} : flag > 0))
                hidden(b) == "jamming" \in use_binary /\ Heard({b}, RfTimeout, LAMBDA d : TRUE)
            IN  /\ IF "jamming" \in use_binary
                   THEN calm(FALSE, "JAMSTATUSB") \/ calm(TRUE, "FREQJAMSTATUSB")
                   ELSE calm(FALSE, "JAMSTATUSA") \/ calm(TRUE, "FREQJAMSTATUSA")
                /\ ~ ("jamming" \in use_binary /\ (alarm(FALSE, "JAMSTATUSB") \/ alarm(TRUE, "FREQJAMSTATUSB")))
                /\ alarm(FALSE, "JAMSTATUSA") => hidden("JAMSTATUSB")
                /\ alarm(TRUE, "FREQJAMSTATUSA") => hidden("FREQJAMSTATUSB")
      /\ OK("raw") /\ "raw" \in use_binary => Heard({"OBSVMCMPB"}, RawTimeout, LAMBDA n : n > 0)

\* The logs a report needs from a backend that was chosen for the subject.
BinaryLogs(s) ==
    CASE s = "rtk" -> {"RTKSTATUSB"} [] s = "ntrip" -> {"RTCMSTATUSB"}
      [] s = "rf" -> {"AGCB"} [] s = "hardware" -> {"HWSTATUSB"} [] s = "raw" -> {"OBSVMCMPB"}
      [] s = "jamming" -> {"JAMSTATUSB", "FREQJAMSTATUSB"}
      [] s = "satellites" -> {"BESTSATB"} [] OTHER -> {}

\* A binary backend that was chosen for a subject and falls silent is not OK,
\* though the ASCII logs may stand in for it: this is so for every subject whose
\* status tests for the loss.  The navigation backend has no such test.  While
\* PVTSLNB is out of time the position of an ASCII log takes its place without a
\* word, and the fix is OK exactly if that one is RTK fixed.  (BESTNAVA stands in
\* for BESTNAVB in the same way; OkMeansEvidence says what an OK then rests on.)
LostBackendNotOK ==
    report # None =>
      /\ \A s \in Status \ {"fix"} :
           LET subject == IF s = "ntrip" THEN "rtcm" ELSE s
           IN  subject \in enabled \cap use_binary /\ (\A f \in BinaryLogs(s) : ~ Live(f))
                 => report[s] # "OK"
      /\ "nav" \in use_binary /\ ~ Fresh("PVTSLNB", BinaryNavTimeout) =>
           (report["fix"] = "OK" <=>
              open /\ active_ascii_fix # None /\ latest[active_ascii_fix] = 4)

\* The loss of the fix and of the corrections is an ERROR, and nothing else is:
\* a BESTNAV that still says RTK fixed does not delay the first, and a history
\* that is full of older corrections does not hide the last one.
LossIsError ==
    report # None =>
      /\ report["fix"] = "ERROR" <=>
            \/ ~ open
            \/ /\ ~ Heard(AsciiFix, DataTimeout, LAMBDA q : q > 0)
               /\ ~ ("nav" \in use_binary /\ Heard({"PVTSLNB"}, BinaryNavTimeout, LAMBDA q : q > 0))
      /\ report["ntrip"] = "ERROR" <=> since > Window

\* The statuses that rest on a log of the receiver.
Watched == {"fix"} \cup ((Status \cap enabled) \ {"raw"})
             \cup (IF "raw" \in use_binary THEN {"raw"} \cap enabled ELSE {})
             \cup (IF "rtcm" \in enabled THEN {"ntrip"} ELSE {})

\* A receiver that has fallen silent is reported: reports keep coming, and from
\* some moment on none of them calls a status OK that rests on its logs.
SilenceReported ==
    <>[][~ Receive]_<<vars, dvars>> =>
        /\ <>[](report = None \/ \A s \in Watched : report[s] # "OK")
        /\ []<>(report # None)
=============================================================================
