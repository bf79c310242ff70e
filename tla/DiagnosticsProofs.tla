-------------------------- MODULE DiagnosticsProofs --------------------------
(***************************************************************************)
(* Safety of the diagnostics, for all timeouts, all ways to run the node,  *)
(* all contents of the logs and all orders in which logs, corrections and  *)
(* reports come.  The invariant of the feeds is that of NodeFeedsProofs;   *)
(* what is added says what the statuses are computed from.                 *)
(***************************************************************************)
EXTENDS Diagnostics, NodeFeedsProofs, DataInduction

\* A status log has said what that log may say, or nothing.
StatusData ==
    \A f \in AsciiStatus \cup BinaryStatus : latest[f] \in Content(f) \cup {None}

Decreasing(history) ==
    \A i, j \in 1 .. Len(history) : i < j => history[i] >= history[j]

\* The corrections in the order they were written, the last one at the end.
HistoryOK ==
    /\ rtcm_history \in Seq(0 .. Old) /\ Len(rtcm_history) <= HistorySize
    /\ Decreasing(rtcm_history)
    /\ since \in 0 .. Old
    /\ since <= Window => rtcm_history # <<>>
    /\ rtcm_history # <<>> => rtcm_history[Len(rtcm_history)] = since

\* What the last step published is what the feeds and the history still give.
ReportOK ==
    report # None =>
        /\ report = Levels(rtcm_history)
        /\ \A i \in 1 .. Len(rtcm_history) : rtcm_history[i] <= Window

DInv == IInv /\ open \in BOOLEAN /\ StatusData /\ HistoryOK /\ ReportOK

-----------------------------------------------------------------------------
(* The history of the corrections *)

\* There is a place to cut a history at: before the first correction that is in
\* the window.
LEMMA CutExists ==
    ASSUME NEW h \in Seq(0 .. Old)
    PROVE  \E n \in 0 .. Len(h) : /\ \A i \in 1 .. n : h[i] > Window
                                  /\ n < Len(h) => h[n + 1] <= Window
<1> DEFINE T == {n \in 0 .. Len(h) : n = Len(h) \/ h[n + 1] <= Window}
<1>1. Len(h) \in Nat /\ \A i \in 1 .. Len(h) : h[i] \in 0 .. Old
  BY LenProperties, ElementOfSeq
<1>2. T \in SUBSET Nat /\ Len(h) \in T BY <1>1
<1>3. PICK n \in T : \A m \in T : n <= m BY <1>2, LeastNat
<1>4. ASSUME NEW i \in 1 .. n PROVE h[i] > Window
  <2>1. n \in Nat /\ n <= Len(h) /\ i - 1 \in 0 .. Len(h) /\ ~ (n <= i - 1) BY <1>1, <1>3
  <2>2. i - 1 \notin T BY <1>3, <2>1
  <2>3. ~ (h[i - 1 + 1] <= Window) BY <2>1, <2>2
  <2>4. i \in 1 .. Len(h) /\ i - 1 + 1 = i BY <1>1, <2>1
  <2>5. h[i] \in Int /\ Window \in Int /\ ~ (h[i] <= Window)
    BY <1>1, <2>3, <2>4, DiagnosticTimes
  <2>6. QED BY <2>5
<1>5. n \in 0 .. Len(h) /\ (n < Len(h) => h[n + 1] <= Window) BY <1>1, <1>3
<1>6. QED BY <1>4, <1>5

\* What is left of a history in order is its part in the window, the last
\* correction included if it is in the window.
LEMMA InWindowKeeps ==
    ASSUME NEW h \in Seq(0 .. Old), Decreasing(h)
    PROVE  LET w == InWindow(h)
           IN  /\ w \in Seq(0 .. Old) /\ Len(w) <= Len(h) /\ Decreasing(w)
               /\ \A i \in 1 .. Len(w) : w[i] <= Window
               /\ w # <<>> => h # <<>> /\ w[Len(w)] = h[Len(h)]
               /\ h # <<>> /\ h[Len(h)] <= Window => w # <<>>
<1> DEFINE Cut(n) == /\ \A i \in 1 .. n : h[i] > Window
                     /\ n < Len(h) => h[n + 1] <= Window
           gone == CHOOSE n \in 0 .. Len(h) : Cut(n)
           w == SubSeq(h, gone + 1, Len(h))
<1>1. Len(h) \in Nat /\ \A i \in 1 .. Len(h) : h[i] \in 0 .. Old
  BY LenProperties, ElementOfSeq
<1>2. gone \in 0 .. Len(h) /\ Cut(gone) BY CutExists
<1>3. InWindow(h) = w BY DEF InWindow
<1> HIDE DEF gone
<1>4. gone \in Nat /\ gone <= Len(h) BY <1>1, <1>2
<1>5. \A i \in gone + 1 .. Len(h) : h[i] \in 0 .. Old BY <1>1, <1>4
<1>6. /\ w \in Seq(0 .. Old)
      /\ Len(w) = IF gone + 1 <= Len(h) THEN Len(h) - (gone + 1) + 1 ELSE 0
      /\ \A i \in 1 .. Len(h) - (gone + 1) + 1 : w[i] = h[gone + 1 + i - 1]
  BY <1>1, <1>4, <1>5, SubSeqProperties
<1> HIDE DEF w
<1>7. Len(w) = Len(h) - gone /\ \A i \in 1 .. Len(w) : w[i] = h[gone + i]
  BY <1>1, <1>4, <1>6
<1>8. Decreasing(w)
  <2> SUFFICES ASSUME NEW i \in 1 .. Len(w), NEW j \in 1 .. Len(w), i < j
               PROVE  w[i] >= w[j]
    BY DEF Decreasing
  <2>1. gone + i \in 1 .. Len(h) /\ gone + j \in 1 .. Len(h) /\ gone + i < gone + j
    BY <1>1, <1>4, <1>7
  <2>2. h[gone + i] >= h[gone + j] BY <2>1 DEF Decreasing
  <2> QED BY <1>7, <2>2
<1>9. ASSUME NEW i \in 1 .. Len(w) PROVE w[i] <= Window
  <2>1. i \in Int /\ 1 <= i /\ i <= Len(h) - gone /\ gone < Len(h) BY <1>1, <1>4, <1>7
  <2>2. h[gone + 1] <= Window BY <1>2, <2>1
  <2>3. i = 1 \/ h[gone + 1] >= h[gone + i] BY <1>1, <1>4, <2>1 DEF Decreasing
  <2>4. h[gone + 1] \in Int /\ h[gone + i] \in Int /\ Window \in Int
    BY <1>1, <1>4, <2>1, DiagnosticTimes
  <2>5. h[gone + i] <= Window BY <1>4, <2>2, <2>3, <2>4
  <2>6. QED BY <1>7, <2>5
<1>10. ASSUME w # <<>> PROVE h # <<>> /\ w[Len(w)] = h[Len(h)]
  <2>1. Len(w) \in Nat /\ Len(w) # 0 BY <1>6, <1>10, EmptySeq
  <2>2. w[Len(w)] = h[gone + Len(w)] /\ gone + Len(w) = Len(h) BY <1>1, <1>4, <1>7, <2>1
  <2>3. Len(h) # 0 BY <1>1, <1>4, <1>7, <2>1
  <2>4. QED BY <2>2, <2>3, EmptySeq
<1>11. ASSUME h # <<>>, h[Len(h)] <= Window PROVE w # <<>>
  <2>1. Len(h) \in 1 .. Len(h) BY <1>1, <1>11, EmptySeq
  <2>2. h[Len(h)] \in Int /\ Window \in Int BY <1>1, <2>1, DiagnosticTimes
  <2>3. gone # Len(h) BY <1>2, <1>11, <2>1, <2>2
  <2>4. Len(w) # 0 BY <1>1, <1>4, <1>7, <2>3
  <2>5. QED BY <2>4, EmptySeq
<1>12. QED BY <1>1, <1>3, <1>4, <1>6, <1>7, <1>8, <1>9, <1>10, <1>11

\* A correction is put at the end, and at the limit the oldest one leaves.
LEMMA WrittenKeeps ==
    ASSUME NEW h \in Seq(0 .. Old), Len(h) <= HistorySize, Decreasing(h)
    PROVE  LET w == Written(h)
           IN  /\ w \in Seq(0 .. Old) /\ Len(w) <= HistorySize /\ Decreasing(w)
               /\ w # <<>> /\ w[Len(w)] = 0
<1> DEFINE all == Append(h, 0)
<1>1. Len(h) \in Nat /\ \A i \in 1 .. Len(h) : h[i] \in 0 .. Old
  BY LenProperties, ElementOfSeq
<1>2. 0 \in 0 .. Old BY TimeAssumption
<1>3. /\ all \in Seq(0 .. Old) /\ all # <<>> /\ Len(all) = Len(h) + 1
      /\ \A i \in 1 .. Len(h) : all[i] = h[i]
      /\ all[Len(h) + 1] = 0
  BY <1>2, AppendProperties
<1>4. Written(h) = IF Len(all) > HistorySize THEN Tail(all) ELSE all BY DEF Written
<1>5. Tail(all) \in Seq(0 .. Old) /\ Len(Tail(all)) = Len(all) - 1
      /\ \A i \in 1 .. Len(Tail(all)) : Tail(all)[i] = all[i + 1]
  BY <1>3, HeadTailProperties
<1> HIDE DEF all
<1>6. Decreasing(all) BY SMTT(30), <1>1, <1>3 DEF Decreasing
<1>7. CASE Len(all) > HistorySize
  <2>1. Len(all) = HistorySize + 1 /\ Len(h) = HistorySize BY <1>1, <1>3, <1>7, HistoryAssumption
  <2>2. Len(Tail(all)) = HistorySize BY <1>5, <2>1, HistoryAssumption
  <2>3. Decreasing(Tail(all)) BY <1>3, <1>5, <1>6, <2>1, <2>2, HistoryAssumption DEF Decreasing
  <2>4. HistorySize \in 1 .. Len(Tail(all)) BY <2>2, HistoryAssumption
  <2>5. Tail(all)[HistorySize] = 0 BY <1>3, <1>5, <2>1, <2>4
  <2>6. Tail(all) # <<>> BY <2>2, EmptySeq, HistoryAssumption
  <2>7. QED BY <1>4, <1>5, <1>7, <2>2, <2>3, <2>5, <2>6, HistoryAssumption
<1>8. CASE ~ (Len(all) > HistorySize)
  <2>1. Len(all) <= HistorySize BY <1>1, <1>3, <1>8, HistoryAssumption
  <2>2. QED BY <1>3, <1>4, <1>6, <1>8, <2>1
<1>9. QED BY <1>7, <1>8

\* Time passes for all corrections alike.
LEMMA OlderKeeps ==
    ASSUME NEW h \in Seq(0 .. Old), Decreasing(h)
    PROVE  LET w == [i \in DOMAIN h |-> Older(h[i])]
           IN  /\ w \in Seq(0 .. Old) /\ Len(w) = Len(h) /\ Decreasing(w)
               /\ \A i \in 1 .. Len(h) : w[i] = Older(h[i])
               /\ w = <<>> <=> h = <<>>
<1> DEFINE w == [i \in 1 .. Len(h) |-> Older(h[i])]
<1>1. /\ Len(h) \in Nat /\ DOMAIN h = 1 .. Len(h)
      /\ \A i \in 1 .. Len(h) : h[i] \in 0 .. Old
  BY LenProperties, ElementOfSeq
<1>2. \A n \in 0 .. Old : Older(n) \in 0 .. Old BY TimeAssumption DEF Older
<1>3. w \in Seq(0 .. Old) /\ Len(w) = Len(h)
  <2>1. w \in [1 .. Len(h) -> 0 .. Old] BY <1>1, <1>2
  <2>2. QED BY <1>1, <2>1
<1>4. \A i \in 1 .. Len(h) : w[i] = Older(h[i]) OBVIOUS
<1> HIDE DEF w
<1>5. \A m, n \in 0 .. Old : m >= n => Older(m) >= Older(n) BY TimeAssumption DEF Older
<1>6. Decreasing(w)
  <2>1. ASSUME NEW i \in 1 .. Len(w), NEW j \in 1 .. Len(w), i < j
        PROVE  w[i] >= w[j]
    <3>1. h[i] >= h[j] /\ h[i] \in 0 .. Old /\ h[j] \in 0 .. Old
      BY <1>1, <1>3, <2>1 DEF Decreasing
    <3>2. QED BY <1>3, <1>4, <1>5, <2>1, <3>1
  <2>2. QED BY <2>1 DEF Decreasing
<1>7. w = <<>> <=> h = <<>> BY <1>3, EmptySeq
<1>8. QED BY <1>1, <1>3, <1>4, <1>6, <1>7 DEF w

-----------------------------------------------------------------------------
(* The steps *)

\* A step that neither reads the receiver nor lets time pass keeps the feeds.
LEMMA QuietKeeps ==
    ASSUME IInv, StatusData, Quiet
    PROVE  IInv' /\ StatusData'
<1>1. /\ use_binary' = use_binary /\ logged' = logged /\ latest' = latest /\ age' = age
      /\ recent_ids' = recent_ids /\ published' = published
      /\ fix_out' = None /\ heading_out' = None
  BY DEF Quiet, NoFix, NoHeading
<1>2. NotBehind => NotBehind'
  <2>1. \A g \in FixFeed : Usable(g)' <=> Usable(g) BY <1>1, UsableMeans
  <2>2. QED BY <1>1, <2>1, QuietInOrder
<1>3. ParameterTypes' /\ FeedTypes' /\ IdTypes' /\ PublishedType'
  BY <1>1 DEF IInv, ParameterTypes, FeedTypes, IdTypes, PublishedType
<1>4. OutputsCurrent' BY <1>1 DEF OutputsCurrent
<1>5. StatusData' BY <1>1 DEF StatusData
<1>6. QED BY <1>2, <1>3, <1>4, <1>5 DEF IInv

\* A message of the receiver is stored as data of its log.
LEMMA MessageData ==
    ASSUME IInv, StatusData, Line \/ Frame
    PROVE  StatusData'
<1> DEFINE S == AsciiStatus \cup BinaryStatus
<1>1. DOMAIN latest = Feed BY DEF IInv, FeedTypes
<1>2. \A f \in S : f \in Feed /\ f \notin AsciiFix /\ f \notin AsciiHeading
                   /\ f # "PVTSLNB" /\ f # "PVTSLNB_heading"
  BY DEF Feed, AsciiStatus, BinaryStatus, AsciiFix, AsciiHeading
<1>3. ASSUME NEW log \in AsciiFix \cup AsciiHeading, NEW d, Store(log, d) PROVE StatusData'
  <2>1. \A f \in S : latest'[f] = latest[f] BY <1>1, <1>2, <1>3 DEF Store
  <2>2. QED BY <2>1 DEF StatusData
<1>4. ASSUME NEW log \in S, NEW d \in Content(log), Store(log, d) PROVE StatusData'
  <2>1. \A f \in S : latest'[f] = IF f = log THEN d ELSE latest[f] BY <1>1, <1>2, <1>4 DEF Store
  <2>2. QED BY <2>1 DEF StatusData
<1>5. ASSUME NEW d, PvtslnbFrame(d) PROVE StatusData'
  <2>1. \A f \in S : latest'[f] = latest[f] BY <1>2, <1>5 DEF PvtslnbFrame
  <2>2. QED BY <2>1 DEF StatusData
<1>6. CASE Line BY <1>3, <1>4, <1>6 DEF Line, FixLine, HeadingLine, StatusLine, StoreStatus
<1>7. CASE Frame BY <1>4, <1>5, <1>7 DEF Frame, StatusFrame, StoreStatus
<1>8. QED BY <1>6, <1>7

LEMMA ReceiveStep ==
    ASSUME DInv, Receive
    PROVE  DInv'
<1>1. IInv /\ Next BY DEF DInv, Receive, Next
<1>2. IInv' BY <1>1, NextStep DEF StepKeeps
<1>3. StatusData' BY MessageData DEF DInv, Receive
<1>4. HistoryOK' /\ open' \in BOOLEAN BY DEF DInv, HistoryOK, Decreasing, Receive
<1>5. ReportOK' BY DEF ReportOK, Receive
<1>6. QED BY <1>2, <1>3, <1>4, <1>5 DEF DInv

LEMMA TimeStep ==
    ASSUME DInv, TimePasses
    PROVE  DInv'
<1>1. IInv /\ Next BY DEF DInv, TimePasses, Next
<1>2. IInv' BY <1>1, NextStep DEF StepKeeps
<1>3. StatusData' BY DEF DInv, StatusData, TimePasses, Tick
<1>4. open' \in BOOLEAN BY DEF DInv, TimePasses
<1>5. HistoryOK'
  <2> DEFINE h == rtcm_history
  <2>1. /\ h \in Seq(0 .. Old) /\ Len(h) <= HistorySize /\ Decreasing(h) /\ since \in 0 .. Old
        /\ since <= Window => h # <<>>
        /\ h # <<>> => h[Len(h)] = since
    BY DEF DInv, HistoryOK
  <2>2. h' = [i \in DOMAIN h |-> Older(h[i])] /\ since' = Older(since) BY DEF TimePasses
  <2>3. /\ h' \in Seq(0 .. Old) /\ Len(h') = Len(h) /\ Decreasing(h')
        /\ \A i \in 1 .. Len(h) : h'[i] = Older(h[i])
        /\ h' = <<>> <=> h = <<>>
    BY <2>1, <2>2, OlderKeeps
  <2>4. since' \in 0 .. Old /\ (since' <= Window => since <= Window)
    BY <2>1, <2>2, TimeAssumption, DiagnosticTimes DEF Older
  <2>5. h' # <<>> => h'[Len(h')] = since'
    <3>1. h # <<>> => Len(h) \in 1 .. Len(h) BY <2>1, EmptySeq
    <3>2. QED BY <2>1, <2>2, <2>3, <3>1
  <2>6. QED BY <2>1, <2>3, <2>4, <2>5 DEF HistoryOK, Decreasing
<1>6. ReportOK' BY DEF ReportOK, TimePasses
<1>7. QED BY <1>2, <1>3, <1>4, <1>5, <1>6 DEF DInv

LEMMA PortStep ==
    ASSUME DInv, PollSerial
    PROVE  DInv'
<1>1. IInv' /\ StatusData' BY QuietKeeps DEF DInv, PollSerial
<1>2. HistoryOK' BY DEF DInv, HistoryOK, Decreasing, PollSerial
<1>3. open' \in BOOLEAN /\ ReportOK' BY DEF ReportOK, PollSerial
<1>4. QED BY <1>1, <1>2, <1>3 DEF DInv

LEMMA CorrectionStep ==
    ASSUME DInv, handle_rtcm
    PROVE  DInv'
<1>1. IInv' /\ StatusData' BY QuietKeeps DEF DInv, handle_rtcm
<1>2. ReportOK' BY DEF ReportOK, handle_rtcm
<1>3. open' \in BOOLEAN BY DEF DInv, handle_rtcm
<1>4. HistoryOK'
  <2>1. CASE UNCHANGED <<rtcm_history, since>> BY <2>1 DEF DInv, HistoryOK, Decreasing
  <2>2. CASE rtcm_history' = Written(rtcm_history) /\ since' = 0
    <3>1. /\ rtcm_history' \in Seq(0 .. Old) /\ Len(rtcm_history') <= HistorySize
          /\ Decreasing(rtcm_history')
          /\ rtcm_history' # <<>> /\ rtcm_history'[Len(rtcm_history')] = 0
      BY <2>2, WrittenKeeps DEF DInv, HistoryOK
    <3>2. since' = 0 /\ since' \in 0 .. Old BY <2>2, TimeAssumption
    <3>3. QED BY <3>1, <3>2 DEF HistoryOK, Decreasing
  <2>3. QED BY <2>1, <2>2 DEF handle_rtcm
<1>5. QED BY <1>1, <1>2, <1>3, <1>4 DEF DInv

\* The levels of the next state, as publish_diagnostics computes them: nothing they
\* are computed from changes with the report.
LEMMA LevelsKept ==
    ASSUME UNCHANGED <<use_binary, latest, age, enabled, open>>
    PROVE  Levels(rtcm_history)' = Levels(rtcm_history')
<1>1. gps_fix_status' = gps_fix_status
  BY ZenonT(30)
     DEF gps_fix_status, active_fix, active_ascii_fix, active_binary_fix, ValidFix, Fresh,
               active_bestnav, Select, Live
<1>2. gps_satellites_status' = gps_satellites_status
  BY ZenonT(30)
     DEF gps_satellites_status, active_satsinfo, active_bestsat, visible_total, Select, Live,
               Fresh, Lost
<1>3. gps_rtk_status' = gps_rtk_status
  BY Zenon DEF gps_rtk_status, active_bestnav, active_rtk_status, Select, Live, Fresh, Lost
<1>4. gps_ntrip_status(rtcm_history)' = gps_ntrip_status(rtcm_history')
  BY Zenon DEF gps_ntrip_status, active_rtcm_status, Select, Live, Fresh, Lost
<1>5. gps_rf_status' = gps_rf_status
  BY Zenon DEF gps_rf_status, active_agc, Select, Live, Fresh, Lost
<1>6. gps_hardware_status' = gps_hardware_status
  BY Zenon DEF gps_hardware_status, active_hw_status, Select, Live, Fresh, Lost
<1>7. gps_jamming_status' = gps_jamming_status
  BY Zenon DEF gps_jamming_status, jam_flags, active_jam_status, active_freq_jam_status, Select,
               Live, Fresh, Lost
<1>8. gps_raw_observation_status' = gps_raw_observation_status
  BY Zenon DEF gps_raw_observation_status, active_raw_observations, Live, Fresh
<1> DEFINE F(a, b, c, d, e, f, g, k) ==
             [s \in Status |->
                CASE s = "fix" -> a [] s = "satellites" -> b [] s = "rtk" -> c
                  [] s = "ntrip" -> d [] s = "rf" -> e [] s = "hardware" -> f
                  [] s = "jamming" -> g [] s = "raw" -> k]
<1>9. Levels(rtcm_history') =
        F(gps_fix_status, gps_satellites_status, gps_rtk_status, gps_ntrip_status(rtcm_history'),
          gps_rf_status, gps_hardware_status, gps_jamming_status, gps_raw_observation_status)
  BY DEF Levels
<1>10. Levels(rtcm_history)' =
         F(gps_fix_status', gps_satellites_status', gps_rtk_status',
           gps_ntrip_status(rtcm_history)', gps_rf_status', gps_hardware_status',
           gps_jamming_status', gps_raw_observation_status')
  BY DEF Levels
<1> HIDE DEF F
<1>11. QED
  BY <1>1, <1>2, <1>3, <1>4, <1>5, <1>6, <1>7, <1>8, <1>9, <1>10

LEMMA ReportStep ==
    ASSUME DInv, publish_diagnostics
    PROVE  DInv'
<1> DEFINE h == rtcm_history
<1>1. IInv' /\ StatusData' BY QuietKeeps DEF DInv, publish_diagnostics
<1>2. open' \in BOOLEAN BY DEF DInv, publish_diagnostics
<1>3. /\ h \in Seq(0 .. Old) /\ Len(h) <= HistorySize /\ Decreasing(h) /\ since \in 0 .. Old
      /\ since <= Window => h # <<>>
      /\ h # <<>> => h[Len(h)] = since
  BY DEF DInv, HistoryOK
<1>4. h' = InWindow(h) /\ since' = since BY DEF publish_diagnostics
<1>5. /\ h' \in Seq(0 .. Old) /\ Len(h') <= Len(h) /\ Decreasing(h')
      /\ \A i \in 1 .. Len(h') : h'[i] <= Window
      /\ h' # <<>> => h # <<>> /\ h'[Len(h')] = h[Len(h)]
      /\ h # <<>> /\ h[Len(h)] <= Window => h' # <<>>
  BY <1>3, <1>4, InWindowKeeps
<1>6. Len(h') <= HistorySize
  <2>1. Len(h') \in Nat /\ Len(h) \in Nat BY <1>3, <1>5, LenProperties
  <2>2. QED BY <1>3, <1>5, <2>1, HistoryAssumption
<1>7. since' <= Window => h' # <<>> BY <1>3, <1>4, <1>5
<1>8. h' # <<>> => h'[Len(h')] = since' BY <1>3, <1>4, <1>5
<1>9. HistoryOK' BY <1>3, <1>4, <1>5, <1>6, <1>7, <1>8 DEF HistoryOK, Decreasing
<1>10. ReportOK'
  <2>1. report' = Levels(rtcm_history') BY DEF publish_diagnostics
  <2>2. Levels(rtcm_history)' = Levels(rtcm_history')
    BY LevelsKept DEF publish_diagnostics, Quiet
  <2>3. report' = Levels(rtcm_history)' BY <2>1, <2>2
  <2>4. QED BY <1>5, <2>3 DEF ReportOK
<1>11. QED BY <1>1, <1>2, <1>9, <1>10 DEF DInv

LEMMA DiagnosticsStutter ==
    ASSUME DInv, UNCHANGED <<vars, dvars>>
    PROVE  DInv'
<1>1. IInv' BY Stutter DEF DInv
<1>2. StatusData' BY DEF DInv, StatusData, vars
<1>3. HistoryOK' /\ open' \in BOOLEAN BY DEF DInv, HistoryOK, Decreasing, dvars
<1>4. ReportOK'
  <2>1. Levels(rtcm_history)' = Levels(rtcm_history') BY LevelsKept DEF vars, dvars
  <2>2. rtcm_history' = rtcm_history /\ report' = report BY DEF dvars
  <2>3. Levels(rtcm_history') = Levels(rtcm_history) BY <2>2
  <2>4. QED BY <2>1, <2>2, <2>3 DEF DInv, ReportOK
<1>5. QED BY <1>1, <1>2, <1>3, <1>4 DEF DInv

LEMMA DiagnosticsStart == DInit => DInv
<1>1. SUFFICES ASSUME DInit PROVE DInv OBVIOUS
<1>2. IInv BY <1>1, Start DEF DInit
<1>3. StatusData
  <2>1. \A f \in AsciiStatus \cup BinaryStatus : f \in Feed BY DEF Feed
  <2>2. QED BY <1>1, <2>1 DEF DInit, Init, StatusData
<1>4. HistoryOK
  <2>1. rtcm_history \in Seq(0 .. Old) /\ Len(rtcm_history) = 0 BY <1>1, EmptySeq DEF DInit
  <2>2. Decreasing(rtcm_history) BY <2>1 DEF Decreasing
  <2>3. since \in 0 .. Old /\ ~ (since <= Window)
    BY <1>1, TimeAssumption, DiagnosticTimes DEF DInit
  <2>4. QED BY <1>1, <2>1, <2>2, <2>3, HistoryAssumption DEF DInit, HistoryOK
<1>5. ReportOK /\ open \in BOOLEAN BY <1>1 DEF DInit, ReportOK
<1>6. QED BY <1>2, <1>3, <1>4, <1>5 DEF DInv

\* The invariant holds always.
LEMMA DiagnosticsInvariant == DSpec => []DInv
<1>1. DInv /\ [DNext]_<<vars, dvars>> => DInv'
  BY ReceiveStep, TimeStep, PortStep, CorrectionStep, ReportStep, DiagnosticsStutter DEF DNext
<1>2. QED BY DiagnosticsStart, <1>1, PTL DEF DSpec

-----------------------------------------------------------------------------
(* What the statuses mean *)

\* The level of each status in a report.
LEMMA LevelOf ==
    ASSUME NEW h
    PROVE  LET L == Levels(h)
           IN  /\ L["fix"] = gps_fix_status /\ L["satellites"] = gps_satellites_status
               /\ L["rtk"] = gps_rtk_status /\ L["ntrip"] = gps_ntrip_status(h)
               /\ L["rf"] = gps_rf_status /\ L["hardware"] = gps_hardware_status
               /\ L["jamming"] = gps_jamming_status /\ L["raw"] = gps_raw_observation_status
BY Zenon DEF Levels, Status

\* Every status is OK, WARN or ERROR.
LEMMA LevelTypes == ASSUME NEW h PROVE Levels(h) \in [Status -> Level]
<1>1. /\ gps_fix_status \in Level /\ gps_satellites_status \in Level
      /\ gps_rtk_status \in Level /\ gps_ntrip_status(h) \in Level
      /\ gps_rf_status \in Level /\ gps_hardware_status \in Level
      /\ gps_jamming_status \in Level /\ gps_raw_observation_status \in Level
  BY DEF Level, gps_fix_status, gps_satellites_status, gps_rtk_status, gps_ntrip_status,
         gps_rf_status, gps_hardware_status, gps_jamming_status, gps_raw_observation_status
<1>2. \A s \in Status : Levels(h)[s] \in Level BY <1>1, LevelOf DEF Status
<1> DEFINE level(s) ==
             CASE s = "fix" -> gps_fix_status
               [] s = "satellites" -> gps_satellites_status
               [] s = "rtk" -> gps_rtk_status
               [] s = "ntrip" -> gps_ntrip_status(h)
               [] s = "rf" -> gps_rf_status
               [] s = "hardware" -> gps_hardware_status
               [] s = "jamming" -> gps_jamming_status
               [] s = "raw" -> gps_raw_observation_status
<1>3. Levels(h) = [s \in Status |-> level(s)] BY Zenon DEF Levels
<1> HIDE DEF level
<1>4. QED BY <1>2, <1>3

\* The timeouts of the logs.
LEMMA Lifetimes ==
    /\ Lifetime("BESTNAVA") = BestnavTimeout /\ Lifetime("BESTNAVB") = BinaryNavTimeout
    /\ \A f \in {"RTKSTATUSA", "RTKSTATUSB", "RTCMSTATUSA", "RTCMSTATUSB"} :
          Lifetime(f) = RtcmTimeout
    /\ \A f \in {"BESTSATA", "BESTSATB", "SATSINFOA", "SATSINFOB"} :
          Lifetime(f) = SatelliteTimeout
    /\ Lifetime("OBSVMCMPB") = RawTimeout
    /\ \A f \in {"AGCA", "AGCB", "HWSTATUSA", "HWSTATUSB", "JAMSTATUSA", "JAMSTATUSB",
                 "FREQJAMSTATUSA", "FREQJAMSTATUSB"} : Lifetime(f) = RfTimeout
BY DEF Lifetime, Talker

\* The log that is selected is one of the two and is live, the binary one only
\* where it was chosen; it is the ASCII one only if the binary one is not.
LEMMA Selected ==
    ASSUME NEW subject, NEW binary \in Feed, NEW ascii \in Feed
    PROVE  LET log == Select(subject, binary, ascii)
           IN  /\ log # None => log \in {binary, ascii} /\ Live(log)
               /\ subject \in use_binary /\ Live(binary) => log = binary
               /\ ~ (subject \in use_binary /\ Live(binary)) /\ Live(ascii) => log = ascii
BY ContentAssumption DEF Select

\* A status that a status log is selected for rests on what that log says.
LEMMA SelectedIsHeard ==
    ASSUME StatusData, NEW subject, NEW binary \in AsciiStatus \cup BinaryStatus,
           NEW ascii \in AsciiStatus \cup BinaryStatus,
           Select(subject, binary, ascii) # None
    PROVE  LET log == Select(subject, binary, ascii)
           IN  /\ log \in {binary, ascii} /\ latest[log] \in Content(log)
               /\ latest[log] # None /\ age[log] <= Lifetime(log)
<1>1. binary \in Feed /\ ascii \in Feed BY DEF Feed
<1>2. QED BY <1>1, Selected DEF StatusData, Live, Fresh

\* "GPS: fix" is OK on an open port with a live position of quality 4.
LEMMA FixEvidence ==
    ASSUME gps_fix_status = "OK"
    PROVE  /\ open
           /\ \/ Heard(AsciiFix, DataTimeout, LAMBDA q : q = 4)
              \/ Heard({"PVTSLNB"}, BinaryNavTimeout, LAMBDA q : q = 4)
<1>1. open /\ active_fix # None BY DEF gps_fix_status
<1>2. active_fix \in FixFeed /\ Usable(active_fix) BY <1>1, ActiveFix
<1>3. latest[active_fix] > 0 /\ latest[active_fix] # None /\ age[active_fix] <= FixTimeout(active_fix)
  BY <1>2, UsableMeans
<1>4. latest[active_fix] = 4 BY <1>1, <1>3 DEF gps_fix_status
<1>5. CASE active_fix \in AsciiFix
  <2>1. active_fix # "PVTSLNB" BY <1>5 DEF AsciiFix
  <2>2. QED BY <1>1, <1>3, <1>4, <1>5, <2>1 DEF FixTimeout, Heard
<1>6. CASE active_fix = "PVTSLNB"
  BY <1>1, <1>3, <1>4, <1>6 DEF FixTimeout, Heard
<1>7. QED BY <1>2, <1>5, <1>6 DEF FixFeed

\* "GPS: satellites" is OK with satellites used and enough of them in view.
LEMMA SatelliteEvidence ==
    ASSUME IInv, StatusData, gps_satellites_status = "OK", "satellites" \in enabled
    PROVE  /\ Heard({"BESTSATA", "BESTSATB"}, SatelliteTimeout, LAMBDA n : n > 0)
           /\ \/ Heard({"SATSINFOA", "SATSINFOB"}, SatelliteTimeout, LAMBDA n : n >= 6)
              \/ "satsinfo" \notin enabled /\ Heard(Talker, DataTimeout, LAMBDA n : n > 0)
<1>1. active_bestsat # None /\ latest[active_bestsat] # 0
  BY DEF gps_satellites_status
<1>2. ~ (visible_total < 6) /\ ("satsinfo" \in enabled => active_satsinfo # None)
  BY DEF gps_satellites_status
<1>3. Heard({"BESTSATA", "BESTSATB"}, SatelliteTimeout, LAMBDA n : n > 0)
  <2>1. /\ active_bestsat \in {"BESTSATA", "BESTSATB"}
        /\ latest[active_bestsat] \in Content(active_bestsat)
        /\ latest[active_bestsat] # None /\ age[active_bestsat] <= Lifetime(active_bestsat)
    BY SMTT(30), <1>1, SelectedIsHeard DEF active_bestsat, AsciiStatus, BinaryStatus
  <2>2. latest[active_bestsat] \in Nat BY <2>1, StatusContent
  <2>3. QED BY SMTT(30), <1>1, <2>1, <2>2, Lifetimes DEF Heard
<1>4. CASE "satsinfo" \in enabled
  <2>1. /\ active_satsinfo \in {"SATSINFOA", "SATSINFOB"}
        /\ latest[active_satsinfo] \in Content(active_satsinfo)
        /\ latest[active_satsinfo] # None /\ age[active_satsinfo] <= Lifetime(active_satsinfo)
    BY SMTT(30), <1>2, <1>4, SelectedIsHeard DEF active_satsinfo, AsciiStatus, BinaryStatus
  <2>2. latest[active_satsinfo] \in Nat BY <2>1, StatusContent
  <2>3. visible_total = latest[active_satsinfo] BY <1>2, <1>4 DEF visible_total
  <2>4. latest[active_satsinfo] >= 6 BY <1>2, <2>2, <2>3
  <2>5. QED BY <1>3, <2>1, <2>4, Lifetimes DEF Heard
<1>5. CASE "satsinfo" \notin enabled
  <2> DEFINE seen(t) == IF Fresh(t, DataTimeout) THEN latest[t] ELSE 0
  <2>1. visible_total = seen("GPGSV") + seen("GLGSV") BY <1>5 DEF visible_total
  <2>2. \A t \in Talker : seen(t) \in Int
    <3>1. \A t \in Talker : t \in AsciiStatus /\ Content(t) \subseteq Int
      BY StatusContent DEF Talker, AsciiStatus
    <3>2. QED BY <3>1 DEF StatusData, Fresh
  <2>3. "GPGSV" \in Talker /\ "GLGSV" \in Talker BY DEF Talker
  <2> HIDE DEF seen
  <2>4. PICK t \in Talker : seen(t) > 0 BY <1>2, <2>1, <2>2, <2>3
  <2>5. Fresh(t, DataTimeout) /\ latest[t] > 0 BY <2>4 DEF seen
  <2>6. QED BY <1>3, <1>5, <2>5 DEF Heard, Fresh
<1>6. QED BY <1>4, <1>5

\* "GPS: RTK" is OK with an RTK fixed solution in time and a live RTKSTATUS.
LEMMA RtkEvidence ==
    ASSUME StatusData, gps_rtk_status = "OK", "rtk" \in enabled
    PROVE  /\ \/ Heard({"BESTNAVA"}, BestnavTimeout,
                       LAMBDA b : b.solved /\ ~ b.late /\ b.quality = 4)
              \/ Heard({"BESTNAVB"}, BinaryNavTimeout,
                       LAMBDA b : b.solved /\ ~ b.late /\ b.quality = 4)
           /\ Heard({"RTKSTATUSA", "RTKSTATUSB"}, RtcmTimeout, LAMBDA r : TRUE)
<1> DEFINE b == latest[active_bestnav]
<1>1. active_bestnav # None /\ active_rtk_status # None BY DEF gps_rtk_status
<1>2. b.solved /\ ~ b.late /\ b.quality = 4 BY ZenonT(30) DEF gps_rtk_status
<1>3. /\ active_bestnav \in {"BESTNAVA", "BESTNAVB"}
      /\ b # None /\ age[active_bestnav] <= Lifetime(active_bestnav)
  BY SMTT(30), <1>1, SelectedIsHeard DEF active_bestnav, AsciiStatus, BinaryStatus
<1>4. /\ active_rtk_status \in {"RTKSTATUSA", "RTKSTATUSB"}
      /\ latest[active_rtk_status] # None
      /\ age[active_rtk_status] <= Lifetime(active_rtk_status)
  BY SMTT(30), <1>1, SelectedIsHeard DEF active_rtk_status, AsciiStatus, BinaryStatus
<1>5. Heard({"RTKSTATUSA", "RTKSTATUSB"}, RtcmTimeout, LAMBDA r : TRUE)
  BY <1>4, Lifetimes DEF Heard
<1>6. CASE active_bestnav = "BESTNAVA" BY <1>2, <1>3, <1>5, <1>6, Lifetimes, Zenon DEF Heard
<1>7. CASE active_bestnav = "BESTNAVB" BY <1>2, <1>3, <1>5, <1>7, Lifetimes, Zenon DEF Heard
<1>8. QED BY <1>3, <1>6, <1>7

\* "GPS: NTRIP" is OK with a correction written lately and, where RTCMSTATUS is
\* asked for, a live one.
LEMMA NtripEvidence ==
    ASSUME StatusData, HistoryOK, gps_ntrip_status(rtcm_history) = "OK"
    PROVE  /\ since <= RtcmTimeout
           /\ "rtcm" \in enabled =>
                 Heard({"RTCMSTATUSA", "RTCMSTATUSB"}, RtcmTimeout, LAMBDA id : TRUE)
<1>1. rtcm_history # <<>> /\ ~ (Last(rtcm_history) > RtcmTimeout)
  BY DEF gps_ntrip_status
<1>2. Last(rtcm_history) = since BY <1>1 DEF HistoryOK, Last
<1>3. since <= RtcmTimeout BY <1>1, <1>2, DiagnosticTimes DEF HistoryOK
<1>4. ASSUME "rtcm" \in enabled
      PROVE  Heard({"RTCMSTATUSA", "RTCMSTATUSB"}, RtcmTimeout, LAMBDA id : TRUE)
  <2>1. active_rtcm_status # None BY SMTT(30), <1>1, <1>4 DEF gps_ntrip_status
  <2>2. /\ active_rtcm_status \in {"RTCMSTATUSA", "RTCMSTATUSB"}
        /\ latest[active_rtcm_status] # None
        /\ age[active_rtcm_status] <= Lifetime(active_rtcm_status)
    BY SMTT(30), <2>1, SelectedIsHeard DEF active_rtcm_status, AsciiStatus, BinaryStatus
  <2>3. QED BY <2>2, Lifetimes DEF Heard
<1>5. QED BY <1>3, <1>4

\* A channel with a gain in 0..10 is found, whichever it is: the least of the
\* gains that are not negative is not above it.
LEMMA SaturationFound ==
    ASSUME NEW gains \in Seq(Int), NEW k \in DOMAIN gains, gains[k] \in 0 .. 10
    PROVE  rf_saturation_suspected(gains)
<1> DEFINE T == {y \in Nat : \E i \in DOMAIN gains : gains[i] = y}
<1>1. \A i \in DOMAIN gains : gains[i] \in Int OBVIOUS
<1>2. T \in SUBSET Nat /\ gains[k] \in T
  <2>1. gains[k] \in Nat BY <1>1
  <2>2. QED BY <2>1
<1>3. PICK x \in T : \A y \in T : x <= y BY <1>2, LeastNat
<1>4. PICK i \in DOMAIN gains : gains[i] >= 0 /\ x = gains[i] BY <1>3
<1>5. gains[i] \in 0 .. 10
  <2>1. gains[i] <= gains[k]
    <3>1. x <= gains[k] BY <1>2, <1>3
    <3>2. QED BY <1>4, <3>1
  <2>2. gains[i] \in Int /\ gains[i] >= 0 BY <1>1, <1>4
  <2>3. \A a \in Int, b \in 0 .. 10 : a >= 0 /\ a <= b => a \in 0 .. 10 OBVIOUS
  <2>4. QED BY <2>1, <2>2, <2>3
<1>6. ASSUME NEW j \in DOMAIN gains PROVE gains[j] < 0 \/ gains[i] <= gains[j]
  <2>1. gains[j] \in Int BY <1>1
  <2>2. CASE gains[j] >= 0
    <3>1. gains[j] \in T BY <2>1, <2>2
    <3>2. QED BY <1>3, <1>4, <3>1
  <2>3. QED BY <2>1, <2>2
<1>7. QED BY <1>5, <1>6 DEF rf_saturation_suspected

\* "GPS: RF" is OK with a live AGC in which no channel is saturated and the mean
\* gain does not tell of a low signal.
LEMMA RfEvidence ==
    ASSUME StatusData, gps_rf_status = "OK", "rf" \in enabled
    PROVE  Heard({"AGCA", "AGCB"}, RfTimeout,
                 LAMBDA g : (\A i \in DOMAIN g : g[i] \notin 0 .. 10) /\ ~ rf_signal_low(g))
<1>1. /\ active_agc # None /\ ~ rf_saturation_suspected(latest[active_agc])
      /\ ~ rf_signal_low(latest[active_agc])
  BY SMTT(30) DEF gps_rf_status
<1>2. /\ active_agc \in {"AGCA", "AGCB"} /\ latest[active_agc] \in Content(active_agc)
      /\ latest[active_agc] # None /\ age[active_agc] <= Lifetime(active_agc)
  BY SMTT(30), <1>1, SelectedIsHeard DEF active_agc, AsciiStatus, BinaryStatus
<1>3. latest[active_agc] \in Seq(Int) BY <1>2, StatusContent
<1>4. \A i \in DOMAIN latest[active_agc] : latest[active_agc][i] \notin 0 .. 10
  BY <1>1, <1>3, SaturationFound
<1>5. QED BY <1>1, <1>2, <1>4, Lifetimes DEF Heard

\* "GPS: hardware" is OK with a live HWSTATUS in which all is well.
LEMMA HardwareEvidence ==
    ASSUME StatusData, gps_hardware_status = "OK", "hardware" \in enabled
    PROVE  Heard({"HWSTATUSA", "HWSTATUSB"}, RfTimeout,
                 LAMBDA hw : hw.rails /\ hw.clock /\ hw.pll)
<1> DEFINE hw == latest[active_hw_status]
<1>1. active_hw_status # None BY DEF gps_hardware_status
<1>2. hw.rails /\ hw.clock /\ hw.pll BY ZenonT(30) DEF gps_hardware_status
<1>3. /\ active_hw_status \in {"HWSTATUSA", "HWSTATUSB"}
      /\ hw # None /\ age[active_hw_status] <= Lifetime(active_hw_status)
  BY SMTT(30), <1>1, SelectedIsHeard DEF active_hw_status, AsciiStatus, BinaryStatus
<1>4. Lifetime(active_hw_status) = RfTimeout BY <1>3, Lifetimes
<1>5. QED BY <1>2, <1>3, <1>4, Zenon DEF Heard

\* "GPS: raw" is OK with live observations.
LEMMA RawEvidence ==
    ASSUME StatusData, gps_raw_observation_status = "OK", "raw" \in enabled, "raw" \in use_binary
    PROVE  Heard({"OBSVMCMPB"}, RawTimeout, LAMBDA n : n > 0)
<1>1. active_raw_observations # None /\ ~ (latest["OBSVMCMPB"] <= 0)
  BY DEF gps_raw_observation_status
<1>2. Live("OBSVMCMPB") BY <1>1 DEF active_raw_observations
<1>3. latest["OBSVMCMPB"] # None /\ age["OBSVMCMPB"] <= RawTimeout
  BY <1>2, Lifetimes DEF Live, Fresh
<1>4. latest["OBSVMCMPB"] \in Nat BY <1>3, StatusContent DEF StatusData, BinaryStatus
<1>5. QED BY <1>1, <1>3, <1>4 DEF Heard

\* The flags of the selected JAMSTATUS and FREQJAMSTATUS are below 1 when
\* "GPS: jamming" is OK.
LEMMA FlagsDown ==
    ASSUME StatusData, gps_jamming_status = "OK", "jamming" \in enabled
    PROVE  \A flag \in jam_flags : ~ (flag > 0)
<1>1. \A flag \in jam_flags : ~ (flag >= 2) /\ flag # 1
  BY DEF gps_jamming_status
<1>2. jam_flags \subseteq Int
  <2>1. ASSUME active_jam_status # None PROVE latest[active_jam_status] \in Int
    <3>1. /\ active_jam_status \in {"JAMSTATUSA", "JAMSTATUSB"}
          /\ latest[active_jam_status] \in Content(active_jam_status)
      BY SMTT(30), <2>1, SelectedIsHeard DEF active_jam_status, AsciiStatus, BinaryStatus
    <3>2. QED BY SMTT(30), <3>1, StatusContent
  <2>2. ASSUME active_freq_jam_status # None
        PROVE  Range(latest[active_freq_jam_status]) \subseteq Int
    <3>1. /\ active_freq_jam_status \in {"FREQJAMSTATUSA", "FREQJAMSTATUSB"}
          /\ latest[active_freq_jam_status] \in Content(active_freq_jam_status)
      BY SMTT(30), <2>2, SelectedIsHeard DEF active_freq_jam_status, AsciiStatus, BinaryStatus
    <3>2. latest[active_freq_jam_status] \in Seq(Int) BY <3>1, StatusContent
    <3>3. QED BY <3>2, RangeOfSeq
  <2>3. QED BY <2>1, <2>2 DEF jam_flags
<1>3. QED BY <1>1, <1>2

\* "GPS: jamming" is OK only if a log of the backend in use has been heard of in
\* time that raises no alarm.
LEMMA JammingHeard ==
    ASSUME StatusData, gps_jamming_status = "OK", "jamming" \in enabled
    PROVE  LET calm(band, f) ==
                 Heard({f}, RfTimeout,
                       LAMBDA d : ~ (\E flag \in IF band THEN Range(d) ELSE {d} : flag > 0))
           IN  IF "jamming" \in use_binary
               THEN calm(FALSE, "JAMSTATUSB") \/ calm(TRUE, "FREQJAMSTATUSB")
               ELSE calm(FALSE, "JAMSTATUSA") \/ calm(TRUE, "FREQJAMSTATUSA")
<1> DEFINE up(band, d) == \E flag \in IF band THEN Range(d) ELSE {d} : flag > 0
           calm(band, f) == Heard({f}, RfTimeout, LAMBDA d : ~ up(band, d))
           Log == {"JAMSTATUSA", "JAMSTATUSB", "FREQJAMSTATUSA", "FREQJAMSTATUSB"}
<1>1. \A f \in Log : f \in Feed /\ f # None
  BY ContentAssumption DEF Feed, AsciiStatus, BinaryStatus
<1>2. \A f \in Log : Live(f) => latest[f] # None /\ age[f] <= RfTimeout
  <2>1. \A f \in Log : Lifetime(f) = RfTimeout BY Lifetimes
  <2>2. QED BY <2>1 DEF Live, Fresh
<1>3. active_jam_status # None => ~ up(FALSE, latest[active_jam_status])
  BY FlagsDown DEF jam_flags
<1>4. active_freq_jam_status # None => ~ up(TRUE, latest[active_freq_jam_status])
  BY FlagsDown DEF jam_flags
<1>5. active_jam_status # None \/ active_freq_jam_status # None
  BY DEF gps_jamming_status
<1>6. "jamming" \in use_binary => Live("JAMSTATUSB") \/ Live("FREQJAMSTATUSB")
  BY DEF gps_jamming_status, Lost
<1>7. /\ "JAMSTATUSA" \in Feed /\ "JAMSTATUSB" \in Feed
      /\ "FREQJAMSTATUSA" \in Feed /\ "FREQJAMSTATUSB" \in Feed
      /\ "JAMSTATUSA" # None /\ "JAMSTATUSB" # None
      /\ "FREQJAMSTATUSA" # None /\ "FREQJAMSTATUSB" # None
  BY <1>1
<1>8. /\ "jamming" \in use_binary /\ Live("JAMSTATUSB") => active_jam_status = "JAMSTATUSB"
      /\ "jamming" \in use_binary /\ Live("FREQJAMSTATUSB")
            => active_freq_jam_status = "FREQJAMSTATUSB"
  BY <1>7, Selected DEF active_jam_status, active_freq_jam_status
<1>9. "jamming" \notin use_binary =>
        /\ active_jam_status # None => active_jam_status = "JAMSTATUSA" /\ Live("JAMSTATUSA")
        /\ active_freq_jam_status # None
             => active_freq_jam_status = "FREQJAMSTATUSA" /\ Live("FREQJAMSTATUSA")
  BY DEF active_jam_status, active_freq_jam_status, Select
<1>10. \A f \in Log : /\ Live(f) /\ ~ up(FALSE, latest[f]) => calm(FALSE, f)
                      /\ Live(f) /\ ~ up(TRUE, latest[f]) => calm(TRUE, f)
  <2> HIDE DEF up
  <2>1. QED BY <1>2 DEF Heard
<1> HIDE DEF up, calm
<1>11. CASE "jamming" \in use_binary
  <2>1. calm(FALSE, "JAMSTATUSB") \/ calm(TRUE, "FREQJAMSTATUSB")
    BY <1>3, <1>4, <1>6, <1>7, <1>8, <1>10, <1>11
  <2>2. QED BY <1>11, <2>1 DEF calm, up
<1>12. CASE "jamming" \notin use_binary
  <2>1. calm(FALSE, "JAMSTATUSA") \/ calm(TRUE, "FREQJAMSTATUSA")
    BY <1>3, <1>4, <1>5, <1>7, <1>9, <1>10, <1>12
  <2>2. QED BY <1>12, <2>1 DEF calm, up
<1>13. QED BY <1>11, <1>12

\* "GPS: jamming" is OK only if no live log of the preferred backend raises an
\* alarm, and one of the other backend only behind a live preferred one.
LEMMA JammingEvidence ==
    ASSUME StatusData, gps_jamming_status = "OK", "jamming" \in enabled
    PROVE  LET alarm(band, f) ==
                 Heard({f}, RfTimeout,
                       LAMBDA d : \E flag \in IF band THEN Range(d) ELSE {d} : flag > 0)
               hidden(b) == "jamming" \in use_binary /\ Heard({b}, RfTimeout, LAMBDA d : TRUE)
           IN  /\ ~ ("jamming" \in use_binary
                     /\ (alarm(FALSE, "JAMSTATUSB") \/ alarm(TRUE, "FREQJAMSTATUSB")))
               /\ alarm(FALSE, "JAMSTATUSA") => hidden("JAMSTATUSB")
               /\ alarm(TRUE, "FREQJAMSTATUSA") => hidden("FREQJAMSTATUSB")
<1> DEFINE flags(band, f) == IF band THEN Range(latest[f]) ELSE {latest[f]}
           alarm(band, f) == Live(f) /\ \E flag \in flags(band, f) : flag > 0
           hidden(b) == "jamming" \in use_binary /\ Live(b)
           Log == {"JAMSTATUSA", "JAMSTATUSB", "FREQJAMSTATUSA", "FREQJAMSTATUSB"}
<1>1. \A f \in Log : /\ Lifetime(f) = RfTimeout /\ f \in Feed /\ f # None
                     /\ Live(f) <=> latest[f] # None /\ age[f] <= RfTimeout
  <2>1. \A f \in Log : f \in Feed /\ f # None BY ContentAssumption DEF Feed, AsciiStatus, BinaryStatus
  <2>2. \A f \in Log : Lifetime(f) = RfTimeout BY Lifetimes
  <2>3. QED BY <2>1, <2>2 DEF Live, Fresh
<1>2. ASSUME NEW band \in BOOLEAN, NEW binary \in Log, NEW ascii \in Log,
             LET log == Select("jamming", binary, ascii)
             IN  log # None => \A flag \in flags(band, log) : ~ (flag > 0)
      PROVE  /\ ~ ("jamming" \in use_binary /\ alarm(band, binary))
             /\ alarm(band, ascii) => hidden(binary)
  <2> DEFINE log == Select("jamming", binary, ascii)
  <2>1. binary \in Feed /\ ascii \in Feed /\ binary # None /\ ascii # None BY <1>1
  <2>2. /\ "jamming" \in use_binary /\ Live(binary) => log = binary
        /\ ~ ("jamming" \in use_binary /\ Live(binary)) /\ Live(ascii) => log = ascii
    BY <2>1, Selected
  <2> HIDE DEF log, flags
  <2>3. log # None => \A flag \in flags(band, log) : ~ (flag > 0) BY <1>2 DEF log
  <2>4. QED BY <2>1, <2>2, <2>3
<1>3. \A flag \in jam_flags : ~ (flag > 0) BY FlagsDown
<1>4. active_jam_status # None => \A flag \in flags(FALSE, active_jam_status) : ~ (flag > 0)
  BY <1>3 DEF jam_flags
<1>5. active_freq_jam_status # None =>
        \A flag \in flags(TRUE, active_freq_jam_status) : ~ (flag > 0)
  BY <1>3 DEF jam_flags
<1>6. /\ ~ ("jamming" \in use_binary /\ alarm(FALSE, "JAMSTATUSB"))
      /\ alarm(FALSE, "JAMSTATUSA") => hidden("JAMSTATUSB")
  BY <1>2, <1>4 DEF active_jam_status
<1>7. /\ ~ ("jamming" \in use_binary /\ alarm(TRUE, "FREQJAMSTATUSB"))
      /\ alarm(TRUE, "FREQJAMSTATUSA") => hidden("FREQJAMSTATUSB")
  BY <1>2, <1>5 DEF active_freq_jam_status
<1> DEFINE up(band, d) == \E flag \in IF band THEN Range(d) ELSE {d} : flag > 0
<1>8. \A f \in Log : /\ Heard({f}, RfTimeout, LAMBDA d : up(FALSE, d)) <=> alarm(FALSE, f)
                     /\ Heard({f}, RfTimeout, LAMBDA d : up(TRUE, d)) <=> alarm(TRUE, f)
                     /\ Heard({f}, RfTimeout, LAMBDA d : TRUE) <=> Live(f)
  BY <1>1 DEF Heard
<1>9. "JAMSTATUSA" \in Log /\ "JAMSTATUSB" \in Log /\ "FREQJAMSTATUSA" \in Log
      /\ "FREQJAMSTATUSB" \in Log
  OBVIOUS
<1> HIDE DEF alarm, Log
<1>10. QED BY <1>6, <1>7, <1>8, <1>9

-----------------------------------------------------------------------------
(* The theorems *)

\* What the topics fix and heading are published from keeps its types and its
\* order under the diagnostics, which only read it.
THEOREM FeedsUndisturbed == DSpec => [](TypeOK /\ StatusIsOwn)
<1>1. IInv => TypeOK BY OutputsTyped, TypeParts DEF IInv
<1>2. DInv => TypeOK /\ StatusIsOwn BY <1>1, InvStatus DEF DInv
<1>3. QED BY DiagnosticsInvariant, <1>2, PTL

\* The history of the corrections is in order, bounded, and holds the last one
\* for as long as it is in the window; every status has a level.
THEOREM DiagnosticsTypeCorrect == DSpec => []DTypeOK
<1>1. ASSUME DInv PROVE DTypeOK
  <2>1. /\ rtcm_history \in Seq(0 .. Old) /\ since \in 0 .. Old
        /\ Len(rtcm_history) <= HistorySize /\ DOMAIN rtcm_history = 1 .. Len(rtcm_history)
    BY <1>1, LenProperties DEF DInv, HistoryOK
  <2>2. \A i, j \in DOMAIN rtcm_history : i < j => rtcm_history[i] >= rtcm_history[j]
    BY <1>1, <2>1 DEF DInv, HistoryOK, Decreasing
  <2>3. since <= Window => rtcm_history # <<>> /\ Last(rtcm_history) = since
    BY <1>1 DEF DInv, HistoryOK, Last
  <2>4. report \in [Status -> Level] \cup {None} BY <1>1, LevelTypes DEF DInv, ReportOK
  <2>5. QED BY <1>1, <2>1, <2>2, <2>3, <2>4 DEF DInv, DTypeOK
<1>2. QED BY DiagnosticsInvariant, <1>1, PTL

\* Whatever backend is used and whichever feed has taken over, each OK of a report
\* rests on a feed heard of within its timeout that said that all is well.
THEOREM EvidenceForOK == DSpec => []OkMeansEvidence
<1>1. ASSUME DInv, report # None PROVE OkMeansEvidence
  <2>1. IInv /\ StatusData /\ HistoryOK BY <1>1 DEF DInv
  <2>2. /\ report["fix"] = gps_fix_status /\ report["satellites"] = gps_satellites_status
        /\ report["rtk"] = gps_rtk_status /\ report["ntrip"] = gps_ntrip_status(rtcm_history)
        /\ report["rf"] = gps_rf_status /\ report["hardware"] = gps_hardware_status
        /\ report["jamming"] = gps_jamming_status
        /\ report["raw"] = gps_raw_observation_status
    BY <1>1, LevelOf DEF DInv, ReportOK
  <2>3. QED
    BY <2>1, <2>2, FixEvidence, SatelliteEvidence, RtkEvidence, NtripEvidence, RfEvidence,
       HardwareEvidence, JammingHeard, JammingEvidence, RawEvidence
    DEF OkMeansEvidence, OK
<1>2. DInv => OkMeansEvidence BY <1>1 DEF OkMeansEvidence
<1>3. QED BY DiagnosticsInvariant, <1>2, PTL

\* A binary backend that was chosen and is silent is not OK in the status of its
\* subject; the fix, which has no test for it, then rests on the ASCII position.
THEOREM LossOfBackend == DSpec => []LostBackendNotOK
<1>1. ASSUME DInv, report # None PROVE LostBackendNotOK
  <2>1. /\ report["satellites"] = gps_satellites_status
        /\ report["rtk"] = gps_rtk_status /\ report["ntrip"] = gps_ntrip_status(rtcm_history)
        /\ report["rf"] = gps_rf_status /\ report["hardware"] = gps_hardware_status
        /\ report["jamming"] = gps_jamming_status
        /\ report["raw"] = gps_raw_observation_status
    BY <1>1, LevelOf DEF DInv, ReportOK
  <2>2. /\ BinaryLogs("satellites") = {"BESTSATB"} /\ BinaryLogs("rtk") = {"RTKSTATUSB"}
        /\ BinaryLogs("ntrip") = {"RTCMSTATUSB"} /\ BinaryLogs("rf") = {"AGCB"}
        /\ BinaryLogs("hardware") = {"HWSTATUSB"} /\ BinaryLogs("raw") = {"OBSVMCMPB"}
        /\ BinaryLogs("jamming") = {"JAMSTATUSB", "FREQJAMSTATUSB"}
    BY Zenon DEF BinaryLogs
  <2>3. ASSUME "satellites" \in enabled \cap use_binary, ~ Live("BESTSATB")
        PROVE  report["satellites"] # "OK"
    BY <2>1, <2>3 DEF gps_satellites_status, Lost
  <2>4. ASSUME "rtk" \in enabled \cap use_binary, ~ Live("RTKSTATUSB")
        PROVE  report["rtk"] # "OK"
    BY <2>1, <2>4 DEF gps_rtk_status, Lost
  <2>5. ASSUME "rtcm" \in enabled \cap use_binary, ~ Live("RTCMSTATUSB")
        PROVE  report["ntrip"] # "OK"
    BY <2>1, <2>5 DEF gps_ntrip_status, Lost
  <2>6. ASSUME "rf" \in enabled \cap use_binary, ~ Live("AGCB")
        PROVE  report["rf"] # "OK"
    BY <2>1, <2>6 DEF gps_rf_status, Lost
  <2>7. ASSUME "hardware" \in enabled \cap use_binary, ~ Live("HWSTATUSB")
        PROVE  report["hardware"] # "OK"
    BY <2>1, <2>7 DEF gps_hardware_status, Lost
  <2>8. ASSUME "jamming" \in enabled \cap use_binary,
               ~ Live("JAMSTATUSB"), ~ Live("FREQJAMSTATUSB")
        PROVE  report["jamming"] # "OK"
    BY <2>1, <2>8 DEF gps_jamming_status, Lost
  <2>9. ASSUME "raw" \in enabled \cap use_binary, ~ Live("OBSVMCMPB")
        PROVE  report["raw"] # "OK"
    BY <2>1, <2>9 DEF gps_raw_observation_status, active_raw_observations
  <2>10. ASSUME NEW s \in Status \ {"fix"},
                (IF s = "ntrip" THEN "rtcm" ELSE s) \in enabled \cap use_binary,
                \A f \in BinaryLogs(s) : ~ Live(f)
         PROVE  report[s] # "OK"
    BY <2>2, <2>3, <2>4, <2>5, <2>6, <2>7, <2>8, <2>9, <2>10 DEF Status
  <2>11. ASSUME "nav" \in use_binary, ~ Fresh("PVTSLNB", BinaryNavTimeout)
         PROVE  report["fix"] = "OK" <=>
                   open /\ active_ascii_fix # None /\ latest[active_ascii_fix] = 4
    <3>1. report["fix"] = gps_fix_status BY <1>1, LevelOf DEF DInv, ReportOK
    <3>2. active_fix = active_ascii_fix
      BY <2>11 DEF active_fix, active_binary_fix, ValidFix
    <3>3. active_fix # None => latest[active_fix] > 0
      BY ActiveFix, UsableMeans
    <3>4. gps_fix_status = "OK" <=> open /\ active_fix # None /\ latest[active_fix] = 4
      BY <3>3 DEF gps_fix_status
    <3>5. QED BY <3>1, <3>2, <3>4
  <2>12. QED BY <2>10, <2>11 DEF LostBackendNotOK
<1>2. DInv => LostBackendNotOK BY <1>1 DEF LostBackendNotOK
<1>3. QED BY DiagnosticsInvariant, <1>2, PTL

\* The loss of the fix and of the corrections is an ERROR, and nothing else is:
\* neither a BESTNAV that still says RTK fixed nor a history full of older
\* corrections hides it.
THEOREM ErrorOnLoss == DSpec => []LossIsError
<1>1. ASSUME DInv, report # None PROVE LossIsError
  <2>1. /\ report["fix"] = gps_fix_status
        /\ report["ntrip"] = gps_ntrip_status(rtcm_history)
        /\ \A i \in 1 .. Len(rtcm_history) : rtcm_history[i] <= Window
    BY <1>1, LevelOf DEF DInv, ReportOK
  <2>2. active_fix # None => latest[active_fix] > 0 BY ActiveFix, UsableMeans
  <2>3. gps_fix_status = "ERROR" <=> ~ open \/ active_fix = None
    <3>1. CASE active_fix = None BY <3>1 DEF gps_fix_status
    <3>2. CASE active_fix # None
      <4>1. latest[active_fix] \in Int
        BY <1>1, <2>2, <3>2, ActiveFix, UsableMeans DEF DInv, IInv, FeedTypes
      <4>2. ~ (latest[active_fix] <= 0) BY <2>2, <3>2, <4>1
      <4>3. QED BY <2>2, <3>2, <4>2 DEF gps_fix_status
    <3>3. QED BY <3>1, <3>2
  <2>4. active_fix = None <=> \A f \in FixFeed : ~ Usable(f) BY ActiveFix
  <2>5. (\A f \in FixFeed : ~ Usable(f)) <=>
          /\ ~ Heard(AsciiFix, DataTimeout, LAMBDA q : q > 0)
          /\ ~ ("nav" \in use_binary /\ Heard({"PVTSLNB"}, BinaryNavTimeout, LAMBDA q : q > 0))
    BY DEF FixFeed, AsciiFix, Usable, ValidFix, Fresh, Heard
  <2>6. gps_ntrip_status(rtcm_history) = "ERROR" <=> rtcm_history = <<>>
    BY DEF gps_ntrip_status
  <2>7. rtcm_history = <<>> <=> since > Window
    <3>1. /\ rtcm_history \in Seq(0 .. Old) /\ since \in 0 .. Old
          /\ since <= Window => rtcm_history # <<>>
          /\ rtcm_history # <<>> => rtcm_history[Len(rtcm_history)] = since
      BY <1>1 DEF DInv, HistoryOK
    <3>2. rtcm_history # <<>> => Len(rtcm_history) \in 1 .. Len(rtcm_history)
      BY <3>1, EmptySeq
    <3>3. since \in Int /\ Window \in Int BY <3>1, DiagnosticTimes
    <3>4. QED BY <2>1, <3>1, <3>2, <3>3
  <2>8. QED BY <2>1, <2>3, <2>4, <2>5, <2>6, <2>7 DEF LossIsError
<1>2. DInv => LossIsError BY <1>1 DEF LossIsError
<1>3. QED BY DiagnosticsInvariant, <1>2, PTL

\* With the port, the corrections and the diagnostics running beside it, the node
\* still keeps the order of its positions and what it promises of both topics:
\* none of their steps publishes, stores or takes away a report.
THEOREM TopicsUndisturbed == DSpec => RegressionOnlyOnLostFix /\ ImplementsPreference
<1> DEFINE Regular == /\ BinaryNavTimeout >= DataTimeout
                      /\ fix_out' # None /\ fix_out'.age > published
                      => InvalidReport
<1>1. DInit => Init BY DEF DInit
<1>2. Init => FixTopic!Init /\ HeadingTopic!Init /\ HeadingData BY TopicsStart
<1>3. DInv => IInv BY DEF DInv
<1>4. ASSUME IInv, IInv', HeadingData, [DNext]_<<vars, dvars>>
      PROVE  /\ [Regular]_vars /\ HeadingData'
             /\ [FixTopic!Next]_<<FixPreference, FixLive, Plain(fix_out)>>
             /\ [HeadingTopic!Next]_<<HeadingPreference, HeadingLive, Plain(heading_out)>>
  <2>1. CASE Receive \/ TimePasses
    <3>1. Next BY <2>1 DEF Receive, TimePasses, Next
    <3>2. StepKeeps BY <1>4, <3>1, NextStep
    <3>3. Regular BY <3>2 DEF StepKeeps
    <3>4. QED BY <1>4, <3>1, <3>3, FixStep, HeadingStep
  <2>2. CASE PollSerial \/ handle_rtcm \/ publish_diagnostics
    <3>1. Quiet BY <2>2 DEF PollSerial, handle_rtcm, publish_diagnostics
    <3>2. /\ use_binary' = use_binary /\ latest' = latest /\ age' = age
          /\ fix_out' = None /\ heading_out' = None
      BY <3>1 DEF Quiet, NoFix, NoHeading
    <3>3. \A g \in FixFeed : Usable(g)' <=> Usable(g) BY <3>2, UsableMeans
    <3>4. FixTopic!Next BY <3>2, <3>3, FixOther
    <3>5. HeadingTopic!Next BY <3>2, HeadingOther
    <3>6. HeadingData' BY <1>4, <3>2 DEF HeadingData
    <3>7. Regular BY <3>2
    <3>8. QED BY <3>4, <3>5, <3>6, <3>7
  <2>3. CASE UNCHANGED <<vars, dvars>> BY <1>4, <2>3, TopicsStutter
  <2>4. QED BY <1>4, <2>1, <2>2, <2>3 DEF DNext
<1>5. FixTopic!Spec /\ HeadingTopic!Spec <=>
        /\ FixTopic!Init /\ HeadingTopic!Init
        /\ [][FixTopic!Next]_<<FixPreference, FixLive, Plain(fix_out)>>
        /\ [][HeadingTopic!Next]_<<HeadingPreference, HeadingLive, Plain(heading_out)>>
  BY DEF FixTopic!Spec, HeadingTopic!Spec, FixLive, HeadingLive
<1>6. QED
  BY DiagnosticsInvariant, <1>1, <1>2, <1>3, <1>4, <1>5, PTL
  DEF DSpec, RegressionOnlyOnLostFix, ImplementsPreference
=============================================================================
