-------------------------- MODULE ParserHealthProofs --------------------------
(***************************************************************************)
(* The status "GPS: parser" reports every anomaly once, whatever logs the  *)
(* receiver sends, whatever the line does to them, and for all limits; and *)
(* both parsers understand every log of the layouts of module Parsers,     *)
(* whatever it says, however many satellites it lists, wherever it is cut. *)
(***************************************************************************)
EXTENDS ParserHealth, DataInduction, TLAPS

\* The ids a receiver may send.
Ids == UNION {s.ids : s \in Scenes}

CounterTypes == counters \in [Counter -> Nat] /\ snapshot \in [Counter -> Nat]

\* What went wrong since the last report is what has been counted since then.
PendingCounted ==
    /\ \A c \in Counter : snapshot[c] <= counters[c]
    /\ pending = {c \in Counter : snapshot[c] < counters[c]}

\* The list of unknown ids holds each once, the last one among them.
ListOK ==
    /\ recent_unknown \in Seq(Ids) /\ Len(recent_unknown) <= RecentUnknownIdsLimit
    /\ \A i, j \in 1 .. Len(recent_unknown) :
          recent_unknown[i] = recent_unknown[j] => i = j
    /\ last_id # None => \E i \in 1 .. Len(recent_unknown) : recent_unknown[i] = last_id

\* The inductive invariant.
PInv == scene \in Scenes /\ CounterTypes /\ PendingCounted /\ ListOK

-----------------------------------------------------------------------------
(* The reports: what counting and remembering do *)

\* To count an anomaly is to have it pending.
LEMMA CountKeeps ==
    ASSUME CounterTypes, PendingCounted, NEW wrong \in SUBSET Counter, Count(wrong),
           snapshot' = snapshot
    PROVE  CounterTypes' /\ PendingCounted'
<1>1. \A c \in Counter : counters'[c] = IF c \in wrong THEN counters[c] + 1 ELSE counters[c]
  BY DEF Count
<1>2. CounterTypes' BY DEF Count, CounterTypes
<1>3. \A c \in Counter : snapshot'[c] <= counters'[c]
  BY <1>1 DEF CounterTypes, PendingCounted
<1>4. \A c \in Counter : snapshot'[c] < counters'[c] <=> c \in pending \/ c \in wrong
  BY <1>1 DEF CounterTypes, PendingCounted
<1>5. pending' = pending \cup wrong /\ pending \subseteq Counter
  BY DEF Count, PendingCounted
<1>6. pending' = {c \in Counter : snapshot'[c] < counters'[c]} BY <1>4, <1>5
<1>7. QED BY <1>2, <1>3, <1>6 DEF PendingCounted

\* An id that is not in the list gets in, and the list stays one of distinct ids
\* within the limit.
LEMMA RememberKeeps ==
    ASSUME ListOK, NEW id \in Ids,
           \A i \in 1 .. Len(recent_unknown) : recent_unknown[i] # id
    PROVE  LET new == Remember(id)
           IN  /\ new \in Seq(Ids) /\ Len(new) <= RecentUnknownIdsLimit
               /\ \A i, j \in 1 .. Len(new) : new[i] = new[j] => i = j
               /\ \E i \in 1 .. Len(new) : new[i] = id
<1> DEFINE old == recent_unknown
           all == Append(old, id)
           n == Len(old)
           Distinct(s) == \A i, j \in 1 .. Len(s) : s[i] = s[j] => i = j
<1>1. /\ old \in Seq(Ids) /\ n \in Nat
      /\ n <= RecentUnknownIdsLimit /\ RecentUnknownIdsLimit \in Nat
  BY LimitAssumption, LenProperties DEF ListOK
<1>2. /\ all \in Seq(Ids) /\ Len(all) = n + 1 /\ all[n + 1] = id
      /\ \A i \in 1 .. n : all[i] = old[i]
  BY <1>1, AppendProperties
<1>3. Distinct(all)
  <2>1. SUFFICES ASSUME NEW i \in 1 .. n + 1, NEW j \in 1 .. n + 1, all[i] = all[j] PROVE i = j
    BY <1>2
  <2>2. CASE i \in 1 .. n /\ j \in 1 .. n BY <1>2, <2>1, <2>2 DEF ListOK
  <2>3. CASE i = n + 1 /\ j \in 1 .. n BY <1>2, <2>1, <2>3
  <2>4. CASE i \in 1 .. n /\ j = n + 1 BY <1>2, <2>1, <2>4
  <2>5. CASE i = n + 1 /\ j = n + 1 BY <2>5
  <2>6. (i \in 1 .. n \/ i = n + 1) /\ (j \in 1 .. n \/ j = n + 1) BY <1>1
  <2>7. QED BY <2>2, <2>3, <2>4, <2>5, <2>6
<1> HIDE DEF all, old, n
<1>4. CASE n + 1 <= RecentUnknownIdsLimit
  <2>1. Remember(id) = all
    <3>1. ~ (Len(all) > RecentUnknownIdsLimit) BY <1>1, <1>2, <1>4
    <3>2. QED BY <3>1 DEF Remember, all, old
  <2>2. n + 1 \in 1 .. n + 1 BY <1>1
  <2>3. QED BY <1>1, <1>2, <1>3, <1>4, <2>1, <2>2
<1>5. CASE n = RecentUnknownIdsLimit
  <2> DEFINE new == Tail(all)
  <2>1. Remember(id) = new
    <3>1. Len(all) > RecentUnknownIdsLimit BY <1>1, <1>2, <1>5
    <3>2. QED BY <3>1 DEF Remember, all, old
  <2>2. all # <<>> BY <1>1, <1>2
  <2>3. /\ new \in Seq(Ids) /\ Len(new) = n /\ \A i \in 1 .. n : new[i] = all[i + 1]
    BY <1>1, <1>2, <2>2, HeadTailProperties
  <2> HIDE DEF new
  <2>4. n \in 1 .. n BY <1>1, <1>5, LimitAssumption
  <2>5. new[n] = id BY <1>2, <2>3, <2>4
  <2>6. ASSUME NEW i \in 1 .. n, NEW j \in 1 .. n, new[i] = new[j] PROVE i = j
    <3>1. i + 1 \in 1 .. Len(all) /\ j + 1 \in 1 .. Len(all) BY <1>1, <1>2
    <3>2. all[i + 1] = all[j + 1] BY <2>3, <2>6
    <3>3. i + 1 = j + 1 BY <1>3, <3>1, <3>2
    <3>4. QED BY <3>3
  <2>7. QED BY <1>1, <2>1, <2>3, <2>4, <2>5, <2>6
<1>6. QED BY <1>1, <1>4, <1>5

-----------------------------------------------------------------------------
(* The reports: the steps *)

\* A step that counts what went wrong and leaves the list alone.
LEMMA CountStep ==
    ASSUME PInv, NEW wrong \in SUBSET Counter, Count(wrong),
           UNCHANGED <<scene, snapshot, recent_unknown, last_id>>
    PROVE  PInv'
<1>1. CounterTypes' /\ PendingCounted' BY CountKeeps DEF PInv
<1>2. QED BY <1>1 DEF PInv, ListOK

\* An unknown id is counted and listed.
LEMMA UnknownStep ==
    ASSUME PInv, NEW id \in scene.ids, UnknownFrame(id)
    PROVE  PInv'
<1>1. {"unknown_frames"} \in SUBSET Counter BY DEF Counter
<1>2. CounterTypes' /\ PendingCounted' BY <1>1, CountKeeps DEF PInv, UnknownFrame
<1>3. id \in Ids BY DEF PInv, Ids
<1>4. last_id' = id BY DEF UnknownFrame
<1>5. \A i : i \in DOMAIN recent_unknown <=> i \in 1 .. Len(recent_unknown)
  BY LenProperties DEF PInv, ListOK
<1>6. CASE id \in Range(recent_unknown)
  <2>1. recent_unknown' = recent_unknown BY <1>6 DEF UnknownFrame
  <2>2. \E i \in 1 .. Len(recent_unknown) : recent_unknown[i] = id
    BY <1>5, <1>6 DEF Range
  <2>3. ListOK' BY <1>4, <2>1, <2>2 DEF PInv, ListOK
  <2>4. QED BY <1>2, <2>3 DEF PInv, UnknownFrame
<1>7. CASE id \notin Range(recent_unknown)
  <2>1. recent_unknown' = Remember(id) BY <1>7 DEF UnknownFrame
  <2>2. \A i \in 1 .. Len(recent_unknown) : recent_unknown[i] # id
    BY <1>5, <1>7 DEF Range
  <2>3. ListOK' BY <1>3, <1>4, <2>1, <2>2, RememberKeeps DEF PInv, ListOK
  <2>4. QED BY <1>2, <2>3 DEF PInv, UnknownFrame
<1>8. QED BY <1>6, <1>7

\* A report starts a new count.
LEMMA ReportStep ==
    ASSUME PInv, gps_parser_status
    PROVE  PInv'
<1>1. snapshot' = counters /\ counters' = counters /\ pending' = {}
  BY DEF gps_parser_status, Snapshot
<1>2. CounterTypes' BY <1>1 DEF PInv, CounterTypes
<1>3. PendingCounted'
  <2>1. \A c \in Counter : counters[c] \in Nat BY DEF PInv, CounterTypes
  <2>2. QED BY <1>1, <2>1 DEF PendingCounted
<1>4. QED BY <1>2, <1>3 DEF PInv, ListOK, gps_parser_status

\* Every step keeps the invariant, and only the last one publishes.
LEMMA ParserStep ==
    ASSUME PInv, Next
    PROVE  PInv' /\ (report' = None \/ gps_parser_status)
<1> USE DEF Counter
<1>1. CASE Message
  <2>1. PICK log \in scene.logs : \E message \in Sent(log) : \E v \in message.variants :
             \/ IntactLine(log, message, v.cells, v.blank)
             \/ KnownFrame(log, message, v.cells)
    BY <1>1 DEF Message
  <2>2. PICK message \in Sent(log) : \E v \in message.variants :
             \/ IntactLine(log, message, v.cells, v.blank)
             \/ KnownFrame(log, message, v.cells)
    BY <2>1
  <2>3. PICK v \in message.variants :
             \/ IntactLine(log, message, v.cells, v.blank)
             \/ KnownFrame(log, message, v.cells)
    BY <2>2
  <2>4. CASE IntactLine(log, message, v.cells, v.blank)
    <3>1. \E wrong \in {{"parse_errors"}, {}} : Count(wrong) BY <2>4 DEF IntactLine
    <3>2. UNCHANGED <<scene, snapshot, recent_unknown, last_id>> /\ report' = None
      BY <2>4 DEF IntactLine
    <3>3. QED BY <3>1, <3>2, CountStep
  <2>5. CASE KnownFrame(log, message, v.cells)
    BY <2>5 DEF KnownFrame, PInv, CounterTypes, PendingCounted, ListOK
  <2>6. QED BY <2>3, <2>4, <2>5
<1>2. ASSUME NEW log, DamagedLine(log) PROVE PInv' /\ report' = None
  <2>1. \E wrong \in {{"nmea_checksum_errors"}, {"unicore_crc_errors"}} : Count(wrong)
    BY <1>2 DEF DamagedLine
  <2>2. UNCHANGED <<scene, snapshot, recent_unknown, last_id>> /\ report' = None
    BY <1>2 DEF DamagedLine
  <2>3. QED BY <2>1, <2>2, CountStep
<1>3. ASSUME NEW id \in scene.ids, UnknownFrame(id) PROVE PInv' /\ report' = None
  BY <1>3, UnknownStep DEF UnknownFrame
<1>4. ASSUME NEW id, NamedFrame(id) PROVE PInv' /\ report' = None
  BY <1>4 DEF NamedFrame, PInv, CounterTypes, PendingCounted, ListOK
<1>5. CASE LineNoise
  <2>1. UNCHANGED <<scene, snapshot, recent_unknown, last_id>> /\ report' = None
    BY <1>5 DEF LineNoise
  <2>2. QED BY <1>5, <2>1, CountStep DEF LineNoise
<1>6. CASE gps_parser_status BY <1>6, ReportStep
<1>7. QED BY <1>1, <1>2, <1>3, <1>4, <1>5, <1>6 DEF Next

-----------------------------------------------------------------------------
(* The reports: the theorem *)

\* The invariant holds always.
LEMMA ParserInvariant == Spec => []PInv
<1>1. Init => PInv
  <2>1. SUFFICES ASSUME Init PROVE PInv OBVIOUS
  <2>2. CounterTypes /\ PendingCounted BY <2>1 DEF Init, Zero, CounterTypes, PendingCounted
  <2>3. recent_unknown \in Seq(Ids) /\ Len(recent_unknown) = 0 BY <2>1, EmptySeq DEF Init
  <2>4. ListOK BY <2>1, <2>3, LimitAssumption DEF Init, ListOK
  <2>5. QED BY <2>1, <2>2, <2>4 DEF Init, PInv
<1>2. PInv /\ [Next]_vars => PInv'
  <2>1. PInv /\ UNCHANGED vars => PInv'
    BY DEF vars, PInv, CounterTypes, PendingCounted, ListOK
  <2>2. QED BY <2>1, ParserStep
<1>3. QED BY <1>1, <1>2, PTL DEF Spec

\* Each report warns if and only if a counted anomaly has happened since the one
\* before, and lists distinct unknown ids, the last one among them: for all
\* receivers, lines and limits.
THEOREM ReportedOnce == Spec => AnomaliesReportedOnce
<1> DEFINE Reported ==
      report' # None =>
        /\ report'.level = "WARN" <=> pending # {}
        /\ IsInjective(report'.ids) /\ Len(report'.ids) <= RecentUnknownIdsLimit
        /\ last_id # None => last_id \in Range(report'.ids)
<1>1. ASSUME PInv, Next, report' # None PROVE Reported
  <2>1. gps_parser_status BY <1>1, ParserStep
  <2> DEFINE level == IF \E c \in Counter : counters[c] - snapshot[c] > 0 THEN "WARN" ELSE "OK"
  <2>2. report' = [level |-> level, ids |-> recent_unknown] BY <2>1 DEF gps_parser_status
  <2>3. report'.level = level /\ report'.ids = recent_unknown BY <2>2, Zenon
  <2>4. \A c \in Counter : counters[c] - snapshot[c] > 0 <=> c \in pending
    BY <1>1 DEF PInv, CounterTypes, PendingCounted
  <2>5. pending \subseteq Counter BY <1>1 DEF PInv, PendingCounted
  <2>6. level = "WARN" <=> pending # {} BY <2>4, <2>5
  <2>7. DOMAIN recent_unknown = 1 .. Len(recent_unknown)
    BY <1>1, LenProperties DEF PInv, ListOK
  <2>8. IsInjective(recent_unknown) BY <1>1, <2>7 DEF PInv, ListOK, IsInjective
  <2>9. last_id # None => last_id \in Range(recent_unknown)
    BY <1>1, <2>7 DEF PInv, ListOK, Range
  <2>10. Len(recent_unknown) <= RecentUnknownIdsLimit BY <1>1 DEF PInv, ListOK
  <2> HIDE DEF level
  <2>11. QED BY <2>3, <2>6, <2>8, <2>9, <2>10
<1>2. PInv /\ [Next]_vars => [Reported]_vars BY <1>1
<1>3. QED BY ParserInvariant, <1>2, PTL DEF Spec, AnomaliesReportedOnce

-----------------------------------------------------------------------------
(* Flattened sequences *)

\* The concatenation of a list of sequences has one behind the other.
LEMMA FlattenIs ==
    ASSUME NEW T, NEW n \in Nat, NEW ss \in [1 .. n -> Seq(T)]
    PROVE  \E at : Stacked(FlattenSeq(ss), at, ss, n, T)
<1>1. Len(ss) = n /\ \A i \in 1 .. n : ss[i] \in Seq(T) OBVIOUS
<1>2. CASE n = 0
  <2>1. ss = <<>> BY <1>2
  <2>2. FlattenSeq(ss) = <<>> BY <1>1, <1>2, <2>1 DEF FlattenSeq
  <2>3. <<>> \in Seq(T) /\ Len(<<>>) = 0 BY EmptySeq
  <2> DEFINE at == [i \in 1 .. n + 1 |-> 0]
  <2>4. at \in [1 .. n + 1 -> Nat] /\ at[1] = 0 /\ at[n + 1] = 0 BY <1>2
  <2> HIDE DEF at
  <2>5. Stacked(FlattenSeq(ss), at, ss, n, T) BY <1>2, <2>2, <2>3, <2>4 DEF Stacked
  <2>6. QED BY <2>5
<1>3. CASE n > 0
  <2>1. \E c : IsConcats(c, ss, n) BY <1>1, <1>3, ConcatsExist
  <2>2. PICK c : IsConcats(c, ss, n) /\ FlattenSeq(ss) = c[n]
    <3>1. ~ (n = 0) BY <1>3
    <3>2. QED BY <1>1, <2>1, <3>1 DEF FlattenSeq, IsConcats
  <2>3. \E at : Stacked(c[n], at, ss, n, T) BY <1>1, <1>3, <2>2, ConcatsStacked
  <2>4. QED BY <2>2, <2>3
<1>4. n = 0 \/ n > 0 OBVIOUS
<1>5. QED BY <1>2, <1>3, <1>4

-----------------------------------------------------------------------------
(* The places of cells, in lines and in frames *)

\* The equation the offsets are computed from.
IsOffsets(at, cells) ==
    at = [j \in 1 .. Len(cells) + 1 |-> IF j = 1 THEN 0 ELSE at[j - 1] + cells[j - 1].width]

\* It has a solution.
LEMMA OffsetsExist ==
    ASSUME NEW cells, Len(cells) \in Nat, \A i \in 1 .. Len(cells) : cells[i].width \in Nat
    PROVE  \E at : IsOffsets(at, cells)
<1> DEFINE g == [i \in Nat |-> [x \in Nat |->
                    IF i + 1 \in 1 .. Len(cells) THEN x + cells[i + 1].width ELSE x]]
<1>1. \A i, x \in Nat :
         (IF i + 1 \in 1 .. Len(cells) THEN x + cells[i + 1].width ELSE x) \in Nat
  OBVIOUS
<1>2. g \in [Nat -> [Nat -> Nat]] BY <1>1
<1>3. \A i, x \in Nat : i + 1 \in 1 .. Len(cells) => g[i][x] = x + cells[i + 1].width
  OBVIOUS
<1> HIDE DEF g
<1>4. PICK f : Recursion(f, Nat, 0, g) BY <1>2, RecursionExists
<1>5. f \in [Nat -> Nat] /\ f[0] = 0 /\ \A i \in Nat : f[i + 1] = g[i][f[i]]
  BY <1>4 DEF Recursion
<1> DEFINE at == [j \in 1 .. Len(cells) + 1 |-> f[j - 1]]
<1>6. ASSUME NEW j \in 1 .. Len(cells) + 1
      PROVE  at[j] = IF j = 1 THEN 0 ELSE at[j - 1] + cells[j - 1].width
  <2>1. CASE j = 1 BY <1>5, <2>1
  <2>2. CASE j # 1
    <3>1. PICK k \in Nat : j = k + 2 BY <2>2
    <3>2. j - 1 \in 1 .. Len(cells) + 1 /\ j - 1 = k + 1 /\ k + 1 \in 1 .. Len(cells)
          /\ (j - 1) - 1 = k
      BY <3>1
    <3>3. f[k + 1] = g[k][f[k]] /\ f[k] \in Nat BY <1>5
    <3>4. f[k + 1] = f[k] + cells[k + 1].width BY <1>3, <3>2, <3>3
    <3>5. at[j] = f[k + 1] /\ at[j - 1] = f[k] BY <3>2
    <3> HIDE DEF at
    <3>6. QED BY <2>2, <3>2, <3>4, <3>5
  <2>3. QED BY <2>1, <2>2
<1>7. IsOffsets(at, cells) BY <1>6 DEF IsOffsets
<1>8. QED BY <1>7

\* A cell begins where the one before it ends, so that no two begin at one place.
LEMMA OffsetIs ==
    ASSUME NEW cells, NEW m \in Nat, Len(cells) = m,
           \A i \in 1 .. m : cells[i].width \in Nat \ {0}
    PROVE  /\ Offset(cells, 1) = 0
           /\ \A i \in 1 .. m + 1 : Offset(cells, i) \in Nat
           /\ \A i \in 1 .. m : Offset(cells, i + 1) = Offset(cells, i) + cells[i].width
           /\ \A i, j \in 1 .. m + 1 : i < j => Offset(cells, i) < Offset(cells, j)
<1>1. \E at : IsOffsets(at, cells) BY OffsetsExist
<1>2. PICK at : IsOffsets(at, cells) /\ \A i : Offset(cells, i) = at[i]
  BY <1>1 DEF Offset, IsOffsets
<1>3. \A j \in 1 .. m + 1 : at[j] = IF j = 1 THEN 0 ELSE at[j - 1] + cells[j - 1].width
  BY <1>2 DEF IsOffsets
<1>4. at[1] = 0 BY <1>3
<1>5. ASSUME NEW i \in 1 .. m PROVE at[i + 1] = at[i] + cells[i].width
  <2>1. i + 1 \in 1 .. m + 1 /\ i + 1 # 1 /\ (i + 1) - 1 = i OBVIOUS
  <2>2. QED BY <1>3, <2>1
<1> DEFINE Good(j) == at[j] \in Nat /\ \A i \in 1 .. m + 1 : i < j => at[i] < at[j]
           bad == {j \in 1 .. m + 1 : ~ Good(j)}
<1>6. \A j \in 1 .. m + 1 : Good(j)
  <2>1. SUFFICES ASSUME bad # {} PROVE FALSE OBVIOUS
  <2>2. PICK j \in bad : \A y \in bad : j <= y
    <3>1. bad \in SUBSET Nat OBVIOUS
    <3> HIDE DEF bad
    <3>2. QED BY <2>1, <3>1, LeastNat
  <2>3. j \in 1 .. m + 1 /\ ~ Good(j) OBVIOUS
  <2>4. j # 1
    <3>1. \A i \in 1 .. m + 1 : ~ (i < 1) OBVIOUS
    <3>2. QED BY <1>4, <2>3, <3>1
  <2>5. PICK k \in 1 .. m : j = k + 1
    <3>1. j - 1 \in 1 .. m BY <2>3, <2>4
    <3>2. QED BY <2>3, <3>1
  <2>6. Good(k)
    <3>1. k \in 1 .. m + 1 /\ ~ (j <= k) BY <2>5
    <3>2. k \notin bad BY <2>2, <3>1
    <3> HIDE DEF Good
    <3>3. QED BY <3>1, <3>2
  <2>7. at[j] = at[k] + cells[k].width /\ cells[k].width \in Nat \ {0} BY <1>5, <2>5
  <2>8. at[j] \in Nat /\ at[k] \in Nat /\ at[k] < at[j] BY <2>6, <2>7
  <2>9. ASSUME NEW i \in 1 .. m + 1, i < j PROVE at[i] < at[j]
    <3>1. CASE i = k BY <2>8, <3>1
    <3>2. CASE i < k
      <4>1. at[i] < at[k] BY <2>6, <3>2
      <4>2. at[i] \in Nat
        <5>1. i \notin bad BY <2>2, <2>9
        <5>2. QED BY <5>1
      <4>3. QED BY <2>8, <4>1, <4>2
    <3>3. QED BY <2>5, <2>9, <3>1, <3>2
  <2>10. QED BY <2>3, <2>8, <2>9
<1> HIDE DEF Good
<1>7. \A i \in 1 .. m + 1 : at[i] \in Nat BY <1>6 DEF Good
<1>8. \A i, j \in 1 .. m + 1 : i < j => at[i] < at[j] BY <1>6 DEF Good
<1>9. QED
  <2>1. Offset(cells, 1) = 0 BY <1>2, <1>4
  <2>2. \A i \in 1 .. m + 1 : Offset(cells, i) \in Nat BY <1>2, <1>7
  <2>3. \A i \in 1 .. m : Offset(cells, i + 1) = Offset(cells, i) + cells[i].width BY <1>2, <1>5
  <2>4. \A i, j \in 1 .. m + 1 : i < j => Offset(cells, i) < Offset(cells, j) BY <1>2, <1>8
  <2>5. QED BY <2>1, <2>2, <2>3, <2>4

-----------------------------------------------------------------------------
(* Lines and frames *)

\* After the header, the fields of a line are the words of its cells.
AreFields(fields, first, cells, n, blank) ==
    /\ Len(fields) = first + n
    /\ \A i \in 1 .. n :
          At(fields, first + i - 1) = IF i = blank THEN Text("") ELSE cells[i].text

\* Fields writes such a line.
LEMMA FieldsAre ==
    ASSUME NEW log, NEW cells, NEW n \in Nat, NEW blank \in Nat
    PROVE  /\ FirstField(log) \in {1, 9}
           /\ AreFields(Fields(log, cells, n, blank), FirstField(log), cells, n, blank)
<1> DEFINE T == {Text("header"), Text("")} \cup {cells[i].text : i \in 1 .. n}
           head == [i \in 1 .. FirstField(log) |-> Text("header")]
           rest == [i \in 1 .. n |-> IF i = blank THEN Text("") ELSE cells[i].text]
           line == Fields(log, cells, n, blank)
<1>1. FirstField(log) \in {1, 9} BY DEF FirstField
<1>2. PICK k \in Nat : k = FirstField(log) BY <1>1
<1>3. head \in Seq(T) /\ Len(head) = k
  <2>1. head \in [1 .. k -> T] BY <1>2
  <2> HIDE DEF T, head
  <2>2. QED BY <2>1, FunctionIsSeq
<1>4. rest \in Seq(T) /\ Len(rest) = n
  <2>1. rest \in [1 .. n -> T] OBVIOUS
  <2> HIDE DEF T, rest
  <2>2. QED BY <2>1, FunctionIsSeq
<1>5. line = head \o rest BY DEF Fields
<1>6. \A i \in 1 .. n : rest[i] = IF i = blank THEN Text("") ELSE cells[i].text OBVIOUS
<1> HIDE DEF T, head, rest
<1>7. PICK a \in Seq(T), b \in Seq(T) : a = head /\ b = rest BY <1>3, <1>4
<1>8. Len(a \o b) = Len(a) + Len(b) /\ \A i \in 1 .. Len(b) : (a \o b)[Len(a) + i] = b[i]
  BY ConcatParts
<1>9. Len(line) = k + n /\ \A i \in 1 .. n : line[k + i] = rest[i]
  BY <1>3, <1>4, <1>5, <1>7, <1>8
<1> HIDE DEF line
<1>10. ASSUME NEW i \in 1 .. n PROVE At(line, k + i - 1) = rest[i]
  <2>1. k + i - 1 < Len(line) /\ (k + i - 1) + 1 = k + i BY <1>2, <1>9
  <2>2. QED BY <1>9, <2>1 DEF At
<1>11. AreFields(line, k, cells, n, blank) BY <1>6, <1>9, <1>10 DEF AreFields
<1>12. QED BY <1>1, <1>2, <1>11 DEF line

\* What a reader of a message should come to: all of it, if it came whole, and
\* nothing that was not sent.
Understood(got, told, whole) ==
    /\ whole => got # None
    /\ got # None =>
          \A name \in DOMAIN got :
             \/ got[name] = told[name]
             \/ ~ whole /\ got[name] = None
             \/ ~ whole /\ name = "type" /\ got[name] = 0

\* A name stands for one cell of a layout.
IsCell(log, name, i) ==
    /\ i \in DOMAIN Layout(log) /\ Layout(log)[i].name = name /\ name # "-"
    /\ \A j \in DOMAIN Layout(log) : Layout(log)[j].name = name => j = i

\* The word for the position type means the same as its number.
LEMMA QualityAgrees ==
    ASSUME NEW v \in DOMAIN PositionTypeName
    PROVE  /\ AsciiQuality(Number(v)) = BinaryQuality(v)
           /\ AsciiQuality(Text(PositionTypeName[v])) = BinaryQuality(v)
           /\ AsciiQuality(Text("")) = 0
<1>1. v \in {0, 1, 2, 8, 16, 17, 18, 32, 33, 34, 48, 49, 50, 52, 53, 54, 55, 56, 68, 69}
  BY DEF PositionTypeName
<1>2. \A w : AsciiQuality(Number(w)) = BinaryQuality(w)
  BY DEF AsciiQuality, BinaryQuality, Number, IsNumber
<1>3. \A t : ~ IsNumber(Text(t)) /\ Text(t)[2] = t BY DEF IsNumber, Text
<1>4. AsciiQuality(Text("")) = 0 BY ZenonT(30), <1>3 DEF AsciiQuality
<1>5. CASE v \in {0, 8}
  <2>1. PositionTypeName[v] \in {"NONE", "DOPPLER_VELOCITY"} BY <1>5 DEF PositionTypeName
  <2>2. AsciiQuality(Text(PositionTypeName[v])) = 0 BY <1>3, <2>1 DEF AsciiQuality
  <2>3. BinaryQuality(v) = 0 BY <1>5 DEF BinaryQuality
  <2>4. QED BY <1>2, <1>4, <2>2, <2>3
<1>6. CASE v \in {1, 2, 16, 52, 53, 68, 69}
  <2>1. PositionTypeName[v] \in {"FIXEDPOS", "FIXEDHEIGHT", "SINGLE", "INS", "INS_PSRSP",
                                 "PPP_CONVERGING", "PPP"}
    BY <1>6 DEF PositionTypeName
  <2>2. AsciiQuality(Text(PositionTypeName[v])) = 1 BY <1>3, <2>1 DEF AsciiQuality
  <2>3. BinaryQuality(v) = 1 BY <1>6 DEF BinaryQuality
  <2>4. QED BY <1>2, <1>4, <2>2, <2>3
<1>7. CASE v \in {17, 54}
  <2>1. PositionTypeName[v] \in {"PSRDIFF", "INS_PSRDIFF"} BY <1>7 DEF PositionTypeName
  <2>2. AsciiQuality(Text(PositionTypeName[v])) = 2 BY <1>3, <2>1 DEF AsciiQuality
  <2>3. BinaryQuality(v) = 2 BY <1>7 DEF BinaryQuality
  <2>4. QED BY <1>2, <1>4, <2>2, <2>3
<1>8. CASE v = 18
  <2>1. PositionTypeName[v] = "SBAS" BY <1>8 DEF PositionTypeName
  <2>2. AsciiQuality(Text(PositionTypeName[v])) = 9 BY <1>3, <2>1 DEF AsciiQuality
  <2>3. BinaryQuality(v) = 9 BY <1>8 DEF BinaryQuality
  <2>4. QED BY <1>2, <1>4, <2>2, <2>3
<1>9. CASE v \in {32, 33, 34, 55}
  <2>1. PositionTypeName[v] \in {"L1_FLOAT", "IONOFREE_FLOAT", "NARROW_FLOAT", "INS_RTKFLOAT"}
    BY <1>9 DEF PositionTypeName
  <2>2. AsciiQuality(Text(PositionTypeName[v])) = 5 BY <1>3, <2>1 DEF AsciiQuality
  <2>3. BinaryQuality(v) = 5 BY <1>9 DEF BinaryQuality
  <2>4. QED BY <1>2, <1>4, <2>2, <2>3
<1>10. CASE v \in {48, 49, 50, 56}
  <2>1. PositionTypeName[v] \in {"L1_INT", "WIDE_INT", "NARROW_INT", "INS_RTKFIXED"}
    BY <1>10 DEF PositionTypeName
  <2>2. AsciiQuality(Text(PositionTypeName[v])) = 4 BY <1>3, <2>1 DEF AsciiQuality
  <2>3. BinaryQuality(v) = 4 BY <1>10 DEF BinaryQuality
  <2>4. QED BY <1>2, <1>4, <2>2, <2>3
<1>11. QED BY ZenonT(30), <1>1, <1>5, <1>6, <1>7, <1>8, <1>9, <1>10

\* What a log of fixed layout tells under a name is in the cell of that name.
LEMMA ToldIs ==
    ASSUME NEW log, NEW cells, IsFixedLog(log, cells), NEW name, NEW i, IsCell(log, name, i)
    PROVE  /\ name \in DOMAIN Told(log, cells)
           /\ Told(log, cells)[name] = CASE name = "type" -> BinaryQuality(cells[i].value)
                                         [] name \in {"ns", "ew"} -> cells[i].text[2]
                                         [] OTHER -> cells[i].value
<1>1. DOMAIN cells = DOMAIN Layout(log) BY Zenon DEF IsFixedLog
<1>2. (CHOOSE k \in DOMAIN cells : Layout(log)[k].name = name) = i BY <1>1 DEF IsCell
<1>3. name \in {Layout(log)[k].name : k \in DOMAIN Layout(log)} \ {"-"} BY DEF IsCell
<1>4. QED BY <1>2, <1>3, Zenon DEF Told

\* A parser of lines looks for each member in the field of its cell, finds every
\* member there that it does not accept to be last, and insists on all that have
\* another meaning when they are blank.
LineTable(log, min, index, optional, last) ==
    /\ \A name \in DOMAIN index :
          /\ IsCell(log, name, index[name] - FirstField(log) + 1) /\ index[name] \in Int
          /\ name \notin last => index[name] < min
    /\ \A name \in {"ns", "ew"} : name \notin optional /\ name \notin last
    /\ "type" \notin last /\ ("type" \in DOMAIN index => "type" \in optional)
    /\ \A name \in Coded : name \notin last /\ (name \in DOMAIN index => name \in optional)

\* A word of a line gives a member its value.
Tells(f, name, told) ==
    /\ name = "type" => AsciiQuality(f) = told
    /\ name \in {"ns", "ew"} =>
          f[2] = told /\ f \in {Text("N"), Text("S"), Text("E"), Text("W")}
    /\ name \in Coded => f # Text("") /\ f[2] = told
    /\ name \notin {"type", "ns", "ew"} \cup Coded => IsNumber(f) /\ f[2] = told

\* The word of a cell, in its field, gives the member.
LEMMA WordTells ==
    ASSUME NEW log, NEW cells, IsFixedLog(log, cells), NEW name, NEW i, IsCell(log, name, i)
    PROVE  Tells(cells[i].text, name, Told(log, cells)[name])
<1> DEFINE told == Told(log, cells)[name]
<1>1. i \in DOMAIN Layout(log) /\ Layout(log)[i].name = name BY DEF IsCell
<1>2. /\ name = "type" => cells[i].value \in DOMAIN PositionTypeName
      /\ cells[i].text \in Wording(name, cells[i].value)
  BY <1>1, Zenon DEF IsFixedLog
<1>3. told = CASE name = "type" -> BinaryQuality(cells[i].value)
               [] name \in {"ns", "ew"} -> cells[i].text[2]
               [] OTHER -> cells[i].value
  BY ToldIs
<1> HIDE DEF told, Tells
<1>4. CASE name = "type"
  <2>1. cells[i].text \in {Number(cells[i].value), Text(PositionTypeName[cells[i].value])}
    BY <1>2, <1>4 DEF Wording, Coded
  <2>2. AsciiQuality(cells[i].text) = BinaryQuality(cells[i].value)
    BY <1>2, <1>4, <2>1, QualityAgrees
  <2>3. told = BinaryQuality(cells[i].value) BY <1>3, <1>4
  <2>4. name \notin {"ns", "ew"} /\ name \notin Coded BY <1>4 DEF Coded
  <2>5. QED BY <1>4, <2>2, <2>3, <2>4 DEF told, Tells
<1>5. CASE name \in {"ns", "ew"}
  <2>1. cells[i].text \in {Text("N"), Text("S"), Text("E"), Text("W")}
    BY <1>2, <1>5 DEF Wording, Coded
  <2>2. told = cells[i].text[2] BY <1>3, <1>5
  <2>3. name # "type" /\ name \notin Coded BY <1>5 DEF Coded
  <2>4. QED BY <1>5, <2>1, <2>2, <2>3 DEF told, Tells
<1>6. CASE name \in Coded
  <2>1. name \notin {"type", "ns", "ew", "-"} BY <1>6 DEF Coded
  <2>2. cells[i].text = Code(cells[i].value) BY <1>2, <1>6, <2>1 DEF Wording
  <2>3. told = cells[i].value BY <1>3, <2>1
  <2>4. cells[i].text[2] = cells[i].value /\ cells[i].text # Text("") BY <2>2 DEF Code, Text
  <2>5. QED BY <1>6, <2>1, <2>3, <2>4 DEF told, Tells
<1>7. CASE name \notin {"type", "ns", "ew"} \cup Coded
  <2> name # "-" BY DEF IsCell
  <2>1. cells[i].text = Number(cells[i].value) BY <1>2, <1>7 DEF Wording
  <2>2. told = cells[i].value BY <1>3, <1>7
  <2>3. IsNumber(cells[i].text) /\ cells[i].text[2] = cells[i].value
    BY <2>1 DEF IsNumber, Number
  <2>4. QED BY <1>7, <2>2, <2>3 DEF told, Tells
<1>8. QED BY <1>4, <1>5, <1>6, <1>7

\* What FixedLine makes of a field, and its verdict on the line.
Member(fields, index, last, name) ==
    CASE name \in last /\ index[name] >= Len(fields) -> None
      [] name = "type" -> AsciiQuality(At(fields, index[name]))
      [] name \in {"ns", "ew"} -> At(fields, index[name])[2]
      [] name \in Coded -> IF At(fields, index[name]) = Text("") THEN None
                          ELSE At(fields, index[name])[2]
      [] OTHER -> IF IsNumber(At(fields, index[name])) THEN At(fields, index[name])[2]
                  ELSE None

IsRefused(fields, min, index, optional) ==
    \/ Len(fields) < min
    \/ \E name \in DOMAIN index \ optional : ~ Legible(name, At(fields, index[name]))

\* FixedLine, by these names.
LEMMA FixedLineIs ==
    ASSUME NEW fields, NEW min, NEW index, NEW optional, NEW last
    PROVE  FixedLine(fields, min, index, optional, last) =
              IF IsRefused(fields, min, index, optional) THEN None
              ELSE [name \in DOMAIN index |-> Member(fields, index, last, name)]
  BY DEF FixedLine, IsRefused, Member

\* Where a member is, and what it is.
LEMMA MemberIs ==
    ASSUME NEW log, NEW cells, IsFixedLog(log, cells),
           NEW m \in Nat, DOMAIN Layout(log) = 1 .. m,
           NEW n \in Nat, n <= m, NEW blank \in 0 .. m,
           NEW min \in Nat, NEW index, NEW optional, NEW last,
           LineTable(log, min, index, optional, last),
           NEW fields, fields = Fields(log, cells, n, blank),
           NEW told, told = Told(log, cells),
           NEW name \in DOMAIN index
    PROVE  /\ name \in DOMAIN told
           /\ n = m => index[name] < Len(fields)
           /\ n = m /\ blank = 0 =>
                 Legible(name, At(fields, index[name]))
                 \/ name \in optional
           /\ Len(fields) < min \/ Member(fields, index, last, name) = told[name]
              \/ (~ (blank = 0 /\ n = m) /\ Member(fields, index, last, name) = None)
              \/ (~ (blank = 0 /\ n = m) /\ name = "type"
                  /\ Member(fields, index, last, name) = 0)
              \/ (name \notin optional /\ ~ Legible(name, At(fields, index[name])))
           /\ n = m /\ blank = 0 => Member(fields, index, last, name) = told[name]
<1>1. PICK first \in {1, 9} : first = FirstField(log) BY FieldsAre
<1>2. AreFields(fields, first, cells, n, blank)
  <2>1. blank \in Nat OBVIOUS
  <2>2. QED BY <1>1, <2>1, FieldsAre
<1>3. PICK x \in Int : x = index[name] BY DEF LineTable
<1>4. PICK i \in Int : i = x - first + 1 BY <1>3
<1>5. IsCell(log, name, i) BY <1>1, <1>3, <1>4 DEF LineTable
<1>6. i \in 1 .. m BY <1>5 DEF IsCell
<1>7. /\ x = first + i - 1 /\ Len(fields) = first + n
      /\ x < Len(fields) <=> i <= n
      /\ x < Len(fields) <=> ~ (x >= Len(fields))
  <2>1. Len(fields) = first + n BY <1>2 DEF AreFields
  <2>2. QED BY <1>4, <1>6, <2>1
<1>8. PICK w : w = cells[i].text OBVIOUS
<1>9. name \in DOMAIN told BY <1>5, ToldIs
<1>10. /\ name = "type" => AsciiQuality(w) = told[name]
       /\ name \in {"ns", "ew"} =>
             w[2] = told[name] /\ w \in {Text("N"), Text("S"), Text("E"), Text("W")}
       /\ name \in Coded => w # Text("") /\ w[2] = told[name]
       /\ name \notin {"type", "ns", "ew"} \cup Coded => IsNumber(w) /\ w[2] = told[name]
  <2>1. Tells(cells[i].text, name, Told(log, cells)[name]) BY <1>5, WordTells
  <2>2. Tells(w, name, told[name]) BY <1>8, <2>1
  <2>3. QED BY <2>2 DEF Tells
<1>11. PICK f : f = At(fields, x) OBVIOUS
<1>12. i <= n => f = IF i = blank THEN Text("") ELSE w
  <2>1. ASSUME i <= n PROVE f = IF i = blank THEN Text("") ELSE w
    <3>1. i \in 1 .. n /\ f = At(fields, first + i - 1) BY <1>6, <1>7, <1>11, <2>1
    <3>2. QED BY <1>2, <1>8, <3>1 DEF AreFields
  <2>2. QED BY <2>1
<1>13. ~ IsNumber(Text("")) /\ Text("") \notin {Text("N"), Text("S"), Text("E"), Text("W")}
       /\ AsciiQuality(Text("")) = 0
  BY DEF IsNumber, Text, AsciiQuality
<1>14. /\ name \notin last => x < min
       /\ name \in {"ns", "ew"} => name \notin optional /\ name \notin last
       /\ name = "type" => name \in optional /\ name \notin last
       /\ name \in Coded => name \in optional /\ name \notin last
  BY <1>3 DEF LineTable
<1> DEFINE got == Member(fields, index, last, name)
<1>15. got = CASE name \in last /\ x >= Len(fields) -> None
               [] name = "type" -> AsciiQuality(f)
               [] name \in {"ns", "ew"} -> f[2]
               [] name \in Coded -> IF f = Text("") THEN None ELSE f[2]
               [] OTHER -> IF IsNumber(f) THEN f[2] ELSE None
  BY <1>3, <1>11 DEF Member
<1>16. Legible(name, f) <=> IF name \in {"ns", "ew"}
                            THEN f \in {Text("N"), Text("S"), Text("E"), Text("W")}
                            ELSE IsNumber(f)
  BY DEF Legible
<1> HIDE DEF got
\* The field is there, and not blank.
<1>17. CASE i <= n /\ i # blank
  <2>1. f = w /\ x < Len(fields) BY <1>7, <1>12, <1>17
  <2>2. ~ (x >= Len(fields)) BY <1>7, <2>1
  <2>3. got = told[name] BY <1>10, <1>15, <2>1, <2>2, Zenon
  <2>4. name \notin {"type"} \cup Coded => Legible(name, f) BY <1>10, <1>16, <2>1
  <2>5. QED BY <1>3, <1>9, <1>11, <1>14, <2>1, <2>3, <2>4 DEF got
\* It is blank.
<1>18. CASE i <= n /\ i = blank
  <2>1. f = Text("") /\ x < Len(fields) BY <1>7, <1>12, <1>18
  <2>2. ~ (x >= Len(fields)) BY <1>7, <2>1
  <2>3. blank # 0 BY <1>6, <1>18
  <2>4. CASE name = "type"
    <3> name \notin {"ns", "ew"} /\ name \notin Coded BY <2>4 DEF Coded
    <3>1. got = 0 BY <1>13, <1>15, <2>1, <2>2, <2>4, Zenon
    <3>2. QED BY <1>3, <1>9, <2>1, <2>3, <2>4, <3>1 DEF got
  <2>5. CASE name \in {"ns", "ew"}
    <3>1. ~ Legible(name, f) BY <1>13, <1>16, <2>1, <2>5
    <3>2. QED BY <1>3, <1>9, <1>11, <1>14, <2>1, <2>3, <2>5, <3>1
  <2>6. CASE name \notin {"type", "ns", "ew"}
    <3>1. got = None BY <1>13, <1>15, <2>1, <2>2, <2>6, Zenon
    <3>2. QED BY <1>3, <1>9, <2>1, <2>3, <3>1 DEF got
  <2>7. QED BY <2>4, <2>5, <2>6
\* The line ends before it.
<1>19. CASE ~ (i <= n)
  <2>1. n # m /\ ~ (x < Len(fields)) BY <1>6, <1>7, <1>19
  <2>2. x >= Len(fields) BY <1>7, <2>1
  <2>3. CASE name \in last
    <3>1. name \notin {"type", "ns", "ew"} /\ name \notin Coded BY <1>14, <2>3
    <3>2. got = None BY <1>15, <2>2, <2>3, <3>1, Zenon
    <3>3. QED BY <1>9, <2>1, <3>2 DEF got
  <2>4. CASE name \notin last
    <3>1. Len(fields) < min BY <1>7, <1>14, <2>2, <2>4
    <3>2. QED BY <1>9, <2>1, <3>1
  <2>5. QED BY <2>3, <2>4
<1>20. QED BY <1>17, <1>18, <1>19

\* A line of fixed layout is understood.
LEMMA FixedLineTells ==
    ASSUME NEW log, NEW cells, IsFixedLog(log, cells),
           NEW m \in Nat, DOMAIN Layout(log) = 1 .. m,
           NEW n \in 0 .. m, NEW blank \in 0 .. m,
           NEW min \in Nat, NEW index, NEW optional, NEW last,
           LineTable(log, min, index, optional, last), min <= FirstField(log) + m,
           None # [name \in DOMAIN index |-> Told(log, cells)[name]]
    PROVE  Understood(FixedLine(Fields(log, cells, n, blank), min, index, optional, last),
                      Told(log, cells), blank = 0 /\ n = m)
<1>1. PICK fields : fields = Fields(log, cells, n, blank) OBVIOUS
<1>2. PICK told : told = Told(log, cells) OBVIOUS
<1>3. n \in Nat /\ n <= m OBVIOUS
<1>4. PICK first \in {1, 9} : first = FirstField(log) BY FieldsAre
<1>5. Len(fields) = first + n
  <2>1. blank \in Nat OBVIOUS
  <2>2. AreFields(fields, first, cells, n, blank) BY <1>1, <1>3, <1>4, <2>1, FieldsAre
  <2>3. QED BY <2>2 DEF AreFields
<1>6. PICK got : got = FixedLine(fields, min, index, optional, last) OBVIOUS
<1>7. got = IF IsRefused(fields, min, index, optional) THEN None
            ELSE [name \in DOMAIN index |-> Member(fields, index, last, name)]
  BY <1>6, FixedLineIs
<1>8. PICK whole \in BOOLEAN : whole <=> blank = 0 /\ n = m OBVIOUS
<1>9. ASSUME NEW name \in DOMAIN index
      PROVE  /\ whole => Legible(name, At(fields, index[name])) \/ name \in optional
             /\ Len(fields) < min \/ Member(fields, index, last, name) = told[name]
                \/ (~ whole /\ Member(fields, index, last, name) = None)
                \/ (~ whole /\ name = "type" /\ Member(fields, index, last, name) = 0)
                \/ (name \notin optional /\ ~ Legible(name, At(fields, index[name])))
             /\ whole => Member(fields, index, last, name) = told[name]
  BY <1>1, <1>2, <1>3, <1>8, MemberIs
<1>10. ASSUME whole PROVE got # None
  <2>1. ~ (Len(fields) < min) BY <1>4, <1>5, <1>8, <1>10
  <2>2. ~ IsRefused(fields, min, index, optional) BY <1>9, <1>10, <2>1 DEF IsRefused
  <2>3. got = [name \in DOMAIN index |-> told[name]] BY <1>7, <1>9, <1>10, <2>2
  <2>4. QED BY <1>2, <2>3
<1>11. ASSUME got # None, NEW name \in DOMAIN got
       PROVE  \/ got[name] = told[name]
              \/ ~ whole /\ got[name] = None
              \/ ~ whole /\ name = "type" /\ got[name] = 0
  <2>1. ~ IsRefused(fields, min, index, optional) BY <1>7, <1>11
  <2>2. name \in DOMAIN index /\ got[name] = Member(fields, index, last, name)
    BY <1>7, <1>11, <2>1
  <2>3. ~ (Len(fields) < min)
        /\ ~ (name \notin optional /\ ~ Legible(name, At(fields, index[name])))
    BY <2>1, <2>2 DEF IsRefused
  <2>4. QED BY <1>9, <2>2, <2>3
<1>12. Understood(got, told, whole) BY <1>10, <1>11 DEF Understood
<1>13. whole = (blank = 0 /\ n = m) BY <1>8
<1>14. QED BY <1>1, <1>2, <1>6, <1>12, <1>13

-----------------------------------------------------------------------------
(* The parsers of lines of fixed layout, and their tables *)

Names(log) == {Layout(log)[i].name : i \in DOMAIN Layout(log)} \ {"-"}

\* A parser reads a log of m words by a table, all of it but what is not read.
ReadsLine(log, parsed, fields, m, unread) ==
    \E min, index, optional, last :
        /\ min \in Nat /\ min <= FirstField(log) + m /\ DOMAIN Layout(log) = 1 .. m
        /\ LineTable(log, min, index, optional, last)
        /\ DOMAIN index = Names(log) \ unread
        /\ parsed = FixedLine(fields, min, index, optional, last)

\* A log read so is understood.
LEMMA ReadsLineTells ==
    ASSUME NEW log, NEW cells, IsFixedLog(log, cells), NEW m \in Nat,
           NEW n \in 0 .. m, NEW blank \in 0 .. m, NEW unread, NEW got,
           ReadsLine(log, got, Fields(log, cells, n, blank), m, unread),
           None # [name \in DOMAIN Told(log, cells) \ unread |-> Told(log, cells)[name]]
    PROVE  Understood(got, Told(log, cells), blank = 0 /\ n = m)
<1>1. PICK min, index, optional, last :
        /\ min \in Nat /\ min <= FirstField(log) + m /\ DOMAIN Layout(log) = 1 .. m
        /\ LineTable(log, min, index, optional, last)
        /\ DOMAIN index = Names(log) \ unread
        /\ got = FixedLine(Fields(log, cells, n, blank), min, index, optional, last)
  BY SMTT(30) DEF ReadsLine
<1>2. DOMAIN Told(log, cells) = Names(log) BY DEF Told, Names
<1>3. None # [name \in DOMAIN index |-> Told(log, cells)[name]] BY <1>1, <1>2
<1>4. QED BY <1>1, <1>3, FixedLineTells

\* parse_gga looks for each member in the field of its cell.
LEMMA GgaLine ==
    ASSUME NEW fields
    PROVE  ReadsLine("GGA", parse_gga(fields), fields, 11, Unread)
<1> DEFINE index == [latitude |-> 2, ns |-> 3, longitude |-> 4, ew |-> 5, quality |-> 6,
                    satellites |-> 7, hdop |-> 8, altitude |-> 9, separation |-> 11]
           optional == {"quality", "satellites", "hdop", "altitude", "separation"}
           last == {"satellites", "hdop", "separation"}
           names == <<"time", "latitude", "ns", "longitude", "ew", "quality", "satellites",
                      "hdop", "altitude", "-", "separation">>
<1>1. DOMAIN Layout("GGA") = 1 .. 11 BY DEF Layout, Words
<1>2. \A i \in 1 .. 11 : Layout("GGA")[i].name = names[i] BY DEF Layout, Words
<1>3. FirstField("GGA") = 1 BY DEF FirstField, Nmea
<1>4. LineTable("GGA", 10, index, optional, last) BY <1>1, <1>2, <1>3 DEF LineTable, IsCell, Coded
<1>5. DOMAIN index = Names("GGA") \ Unread BY <1>1, <1>2 DEF Names, Unread
<1>6. parse_gga(fields) = FixedLine(fields, 10, index, optional, last) BY DEF parse_gga
<1> HIDE DEF index, optional, last
<1>7. QED BY <1>1, <1>3, <1>4, <1>5, <1>6 DEF ReadsLine

\* parse_hdt looks for each member in the field of its cell.
LEMMA HdtLine ==
    ASSUME NEW fields
    PROVE  ReadsLine("HDT", parse_hdt(fields), fields, 1, {})
<1> DEFINE index == [heading |-> 1]
           optional == {}
           last == {}
           names == <<"heading">>
<1>1. DOMAIN Layout("HDT") = 1 .. 1 BY DEF Layout, Words
<1>2. \A i \in 1 .. 1 : Layout("HDT")[i].name = names[i] BY DEF Layout, Words
<1>3. FirstField("HDT") = 1 BY DEF FirstField, Nmea
<1>4. LineTable("HDT", 2, index, optional, last) BY <1>1, <1>2, <1>3 DEF LineTable, IsCell, Coded
<1>5. DOMAIN index = Names("HDT") \ {} BY <1>1, <1>2 DEF Names
<1>6. parse_hdt(fields) = FixedLine(fields, 2, index, optional, last) BY DEF parse_hdt
<1> HIDE DEF index, optional, last
<1>7. QED BY <1>1, <1>3, <1>4, <1>5, <1>6 DEF ReadsLine

\* parse_hpr looks for each member in the field of its cell.
LEMMA HprLine ==
    ASSUME NEW fields
    PROVE  ReadsLine("HPR", parse_hpr(fields), fields, 4, Unread)
<1> DEFINE index == [heading |-> 2, pitch |-> 3, roll |-> 4]
           optional == {}
           last == {}
           names == <<"time", "heading", "pitch", "roll">>
<1>1. DOMAIN Layout("HPR") = 1 .. 4 BY DEF Layout, Words
<1>2. \A i \in 1 .. 4 : Layout("HPR")[i].name = names[i] BY DEF Layout, Words
<1>3. FirstField("HPR") = 1 BY DEF FirstField, Nmea
<1>4. LineTable("HPR", 5, index, optional, last) BY <1>1, <1>2, <1>3 DEF LineTable, IsCell, Coded
<1>5. DOMAIN index = Names("HPR") \ Unread BY <1>1, <1>2 DEF Names, Unread
<1>6. parse_hpr(fields) = FixedLine(fields, 5, index, optional, last) BY DEF parse_hpr
<1> HIDE DEF index, optional, last
<1>7. QED BY <1>1, <1>3, <1>4, <1>5, <1>6 DEF ReadsLine

\* parse_gsv looks for each member in the field of its cell.
LEMMA GsvLine ==
    ASSUME NEW fields
    PROVE  ReadsLine("GSV", parse_gsv(fields), fields, 3, Unread)
<1> DEFINE index == [in_view |-> 3]
           optional == {}
           last == {}
           names == <<"messages", "message", "in_view">>
<1>1. DOMAIN Layout("GSV") = 1 .. 3 BY DEF Layout, Words
<1>2. \A i \in 1 .. 3 : Layout("GSV")[i].name = names[i] BY DEF Layout, Words
<1>3. FirstField("GSV") = 1 BY DEF FirstField, Nmea
<1>4. LineTable("GSV", 4, index, optional, last) BY <1>1, <1>2, <1>3 DEF LineTable, IsCell, Coded
<1>5. DOMAIN index = Names("GSV") \ Unread BY <1>1, <1>2 DEF Names, Unread
<1>6. parse_gsv(fields) = FixedLine(fields, 4, index, optional, last) BY DEF parse_gsv
<1> HIDE DEF index, optional, last
<1>7. QED BY <1>1, <1>3, <1>4, <1>5, <1>6 DEF ReadsLine

\* PvtslnaFields looks for each member in the field of its cell.
LEMMA PvtslnLine ==
    ASSUME NEW fields
    PROVE  ReadsLine("PVTSLN", PvtslnaFields(fields), fields, 34, Unread)
<1> DEFINE index == [type |-> 9, height |-> 10, latitude |-> 11, longitude |-> 12,
                    height_std |-> 13, latitude_std |-> 14, longitude_std |-> 15,
                    undulation |-> 21, tracked |-> 22, solution |-> 23, hdop |-> 39]
           optional == {"type", "undulation", "tracked", "solution", "hdop"}
           last == {"undulation", "tracked", "solution", "hdop"}
           names == <<"type", "height", "latitude", "longitude", "height_std", "latitude_std",
                      "longitude_std", "-", "-", "-", "-", "-", "undulation", "tracked",
                      "solution", "-", "-", "-", "-", "-", "heading_type", "heading_length",
                      "heading_degree", "heading_pitch", "-", "-", "-", "-", "-", "-", "hdop",
                      "-", "-", "-">>
<1>1. DOMAIN Layout("PVTSLN") = 1 .. 34 BY DEF Layout, Mixed
<1>2. \A i \in 1 .. 34 : Layout("PVTSLN")[i].name = names[i] BY DEF Layout, Mixed
<1>3. FirstField("PVTSLN") = 9 BY DEF FirstField, Nmea
<1>4. LineTable("PVTSLN", 16, index, optional, last)
  BY <1>1, <1>2, <1>3 DEF LineTable, IsCell, Coded
<1>5. DOMAIN index = Names("PVTSLN") \ Unread BY <1>1, <1>2 DEF Names, Unread
<1>6. PvtslnaFields(fields) = FixedLine(fields, 16, index, optional, last)
  BY DEF PvtslnaFields
<1> HIDE DEF index, optional, last
<1>7. QED BY <1>1, <1>3, <1>4, <1>5, <1>6 DEF ReadsLine

\* parse_rtkstatusa looks for each member in the field of its cell.
LEMMA RtkstatusLine ==
    ASSUME NEW fields
    PROVE  ReadsLine("RTKSTATUS", parse_rtkstatusa(fields), fields, 17, {})
<1> DEFINE index == [gps |-> 9, bds1 |-> 11, bds2 |-> 12, glonass |-> 14, galileo1 |-> 16,
                    galileo2 |-> 17, qzss |-> 18, type |-> 20, calculate |-> 21, ion |-> 22,
                    dual |-> 23, adr |-> 24]
           optional == {"type"}
           last == {}
           names == <<"gps", "-", "bds1", "bds2", "-", "glonass", "-", "galileo1", "galileo2",
                      "qzss", "-", "type", "calculate", "ion", "dual", "adr", "-">>
<1>1. DOMAIN Layout("RTKSTATUS") = 1 .. 17 BY DEF Layout, Mixed
<1>2. \A i \in 1 .. 17 : Layout("RTKSTATUS")[i].name = names[i] BY DEF Layout, Mixed
<1>3. FirstField("RTKSTATUS") = 9 BY DEF FirstField, Nmea
<1>4. LineTable("RTKSTATUS", 25, index, optional, last)
  BY <1>1, <1>2, <1>3 DEF LineTable, IsCell, Coded
<1>5. DOMAIN index = Names("RTKSTATUS") \ {} BY <1>1, <1>2 DEF Names
<1>6. parse_rtkstatusa(fields) = FixedLine(fields, 25, index, optional, last)
  BY DEF parse_rtkstatusa
<1> HIDE DEF index, optional, last
<1>7. QED BY <1>1, <1>3, <1>4, <1>5, <1>6 DEF ReadsLine

\* parse_rtcmstatusa looks for each member in the field of its cell.
LEMMA RtcmstatusLine ==
    ASSUME NEW fields
    PROVE  ReadsLine("RTCMSTATUS", parse_rtcmstatusa(fields), fields, 10, {})
<1> DEFINE index == [id |-> 9, count |-> 10, base |-> 11, satellites |-> 12, L1 |-> 13, L2 |-> 14,
                    L3 |-> 15, L4 |-> 16, L5 |-> 17, L6 |-> 18]
           optional == {}
           last == {}
           names == <<"id", "count", "base", "satellites", "L1", "L2", "L3", "L4", "L5", "L6">>
<1>1. DOMAIN Layout("RTCMSTATUS") = 1 .. 10 BY DEF Layout, Mixed
<1>2. \A i \in 1 .. 10 : Layout("RTCMSTATUS")[i].name = names[i] BY DEF Layout, Mixed
<1>3. FirstField("RTCMSTATUS") = 9 BY DEF FirstField, Nmea
<1>4. LineTable("RTCMSTATUS", 19, index, optional, last)
  BY <1>1, <1>2, <1>3 DEF LineTable, IsCell, Coded
<1>5. DOMAIN index = Names("RTCMSTATUS") \ {} BY <1>1, <1>2 DEF Names
<1>6. parse_rtcmstatusa(fields) = FixedLine(fields, 19, index, optional, last)
  BY DEF parse_rtcmstatusa
<1> HIDE DEF index, optional, last
<1>7. QED BY <1>1, <1>3, <1>4, <1>5, <1>6 DEF ReadsLine

\* parse_agca looks for each member in the field of its cell.
LEMMA AgcLine ==
    ASSUME NEW fields
    PROVE  ReadsLine("AGC", parse_agca(fields), fields, 10, {})
<1> DEFINE index == [ant1_l1 |-> 9, ant1_l2 |-> 10, ant1_l5 |-> 11, ant2_l1 |-> 14,
                    ant2_l2 |-> 15, ant2_l5 |-> 16]
           optional == {}
           last == {}
           names == <<"ant1_l1", "ant1_l2", "ant1_l5", "-", "-", "ant2_l1", "ant2_l2", "ant2_l5",
                      "-", "-">>
<1>1. DOMAIN Layout("AGC") = 1 .. 10 BY DEF Layout, Words
<1>2. \A i \in 1 .. 10 : Layout("AGC")[i].name = names[i] BY DEF Layout, Words
<1>3. FirstField("AGC") = 9 BY DEF FirstField, Nmea
<1>4. LineTable("AGC", 17, index, optional, last) BY <1>1, <1>2, <1>3 DEF LineTable, IsCell, Coded
<1>5. DOMAIN index = Names("AGC") \ {} BY <1>1, <1>2 DEF Names
<1>6. parse_agca(fields) = FixedLine(fields, 17, index, optional, last) BY DEF parse_agca
<1> HIDE DEF index, optional, last
<1>7. QED BY <1>1, <1>3, <1>4, <1>5, <1>6 DEF ReadsLine

\* parse_hwstatusa looks for each member in the field of its cell.
LEMMA HwstatusLine ==
    ASSUME NEW fields
    PROVE  ReadsLine("HWSTATUS", parse_hwstatusa(fields), fields, 12, {})
<1> DEFINE index == [dc09 |-> 10, dc10 |-> 11, dc18 |-> 12, clock |-> 13, drift |-> 14, hw |-> 16,
                    pll |-> 18]
           optional == {}
           last == {}
           names == <<"-", "dc09", "dc10", "dc18", "clock", "drift", "-", "hw", "-", "pll", "-",
                      "-">>
<1>1. DOMAIN Layout("HWSTATUS") = 1 .. 12 BY DEF Layout, Mixed
<1>2. \A i \in 1 .. 12 : Layout("HWSTATUS")[i].name = names[i] BY DEF Layout, Mixed
<1>3. FirstField("HWSTATUS") = 9 BY DEF FirstField, Nmea
<1>4. LineTable("HWSTATUS", 19, index, optional, last)
  BY <1>1, <1>2, <1>3 DEF LineTable, IsCell, Coded
<1>5. DOMAIN index = Names("HWSTATUS") \ {} BY <1>1, <1>2 DEF Names
<1>6. parse_hwstatusa(fields) = FixedLine(fields, 19, index, optional, last)
  BY DEF parse_hwstatusa
<1> HIDE DEF index, optional, last
<1>7. QED BY <1>1, <1>3, <1>4, <1>5, <1>6 DEF ReadsLine

\* parse_jamstatusa looks for each member in the field of its cell.
LEMMA JamstatusLine ==
    ASSUME NEW fields
    PROVE  ReadsLine("JAMSTATUS", parse_jamstatusa(fields), fields, 5, {})
<1> DEFINE index == [ratio |-> 10, flag |-> 11]
           optional == {}
           last == {}
           names == <<"-", "ratio", "flag", "-", "-">>
<1>1. DOMAIN Layout("JAMSTATUS") = 1 .. 5 BY DEF Layout, Mixed
<1>2. \A i \in 1 .. 5 : Layout("JAMSTATUS")[i].name = names[i] BY DEF Layout, Mixed
<1>3. FirstField("JAMSTATUS") = 9 BY DEF FirstField, Nmea
<1>4. LineTable("JAMSTATUS", 12, index, optional, last)
  BY <1>1, <1>2, <1>3 DEF LineTable, IsCell, Coded
<1>5. DOMAIN index = Names("JAMSTATUS") \ {} BY <1>1, <1>2 DEF Names
<1>6. parse_jamstatusa(fields) = FixedLine(fields, 12, index, optional, last)
  BY DEF parse_jamstatusa
<1> HIDE DEF index, optional, last
<1>7. QED BY <1>1, <1>3, <1>4, <1>5, <1>6 DEF ReadsLine

\* parse_freqjamstatusa looks for each member in the field of its cell.
LEMMA FreqjamstatusLine ==
    ASSUME NEW fields
    PROVE  ReadsLine("FREQJAMSTATUS", parse_freqjamstatusa(fields), fields, 9, {})
<1> DEFINE index == [ratio1 |-> 10, flag1 |-> 11, ratio2 |-> 12, flag2 |-> 13, ratio5 |-> 14,
                    flag5 |-> 15]
           optional == {}
           last == {}
           names == <<"-", "ratio1", "flag1", "ratio2", "flag2", "ratio5", "flag5", "-", "-">>
<1>1. DOMAIN Layout("FREQJAMSTATUS") = 1 .. 9 BY DEF Layout, Mixed
<1>2. \A i \in 1 .. 9 : Layout("FREQJAMSTATUS")[i].name = names[i] BY DEF Layout, Mixed
<1>3. FirstField("FREQJAMSTATUS") = 9 BY DEF FirstField, Nmea
<1>4. LineTable("FREQJAMSTATUS", 16, index, optional, last)
  BY <1>1, <1>2, <1>3 DEF LineTable, IsCell, Coded
<1>5. DOMAIN index = Names("FREQJAMSTATUS") \ {} BY <1>1, <1>2 DEF Names
<1>6. parse_freqjamstatusa(fields) = FixedLine(fields, 16, index, optional, last)
  BY DEF parse_freqjamstatusa
<1> HIDE DEF index, optional, last
<1>7. QED BY <1>1, <1>3, <1>4, <1>5, <1>6 DEF ReadsLine

\* parse_bestnava looks for each member in the field of its cell, in a long enough line.
LEMMA BestnavLine ==
    ASSUME NEW fields
    PROVE  Len(fields) >= 39 => ReadsLine("BESTNAV", parse_bestnava(fields), fields, 30, {})
<1> DEFINE index == [status |-> 9, type |-> 10, latitude |-> 11, longitude |-> 12, height |-> 13,
                    undulation |-> 14, latitude_std |-> 16, longitude_std |-> 17,
                    height_std |-> 18, base_station_id |-> 19, diff_age |-> 20, sol_age |-> 21,
                    tracked |-> 22, used |-> 23, extended |-> 27, mask1 |-> 28, mask2 |-> 29,
                    velocity_status |-> 30, velocity_type |-> 31, latency |-> 32,
                    velocity_age |-> 33, speed |-> 34, track |-> 35, up_speed |-> 36,
                    up_speed_std |-> 37, speed_std |-> 38]
           optional == {"status", "type", "base_station_id", "mask1", "mask2", "velocity_status",
                        "velocity_type"}
           last == {}
           names == <<"status", "type", "latitude", "longitude", "height", "undulation", "-",
                      "latitude_std", "longitude_std", "height_std", "base_station_id",
                      "diff_age", "sol_age", "tracked", "used", "-", "-", "-", "extended",
                      "mask1", "mask2", "velocity_status", "velocity_type", "latency",
                      "velocity_age", "speed", "track", "up_speed", "up_speed_std", "speed_std">>
<1>1. DOMAIN Layout("BESTNAV") = 1 .. 30 BY DEF Layout, Mixed
<1>2. \A i \in 1 .. 30 : Layout("BESTNAV")[i].name = names[i] BY DEF Layout, Mixed
<1>3. FirstField("BESTNAV") = 9 BY DEF FirstField, Nmea
<1>4. LineTable("BESTNAV", 39, index, optional, last)
  BY <1>1, <1>2, <1>3 DEF LineTable, IsCell, Coded
<1>5. DOMAIN index = Names("BESTNAV") \ {} BY <1>1, <1>2 DEF Names
<1>6. Len(fields) >= 39 =>
         parse_bestnava(fields) = FixedLine(fields, 39, index, optional, last)
  BY DEF parse_bestnava
<1> HIDE DEF index, optional, last
<1>7. ReadsLine("BESTNAV", FixedLine(fields, 39, index, optional, last), fields, 30, {})
  BY <1>1, <1>3, <1>4, <1>5 DEF ReadsLine
<1>8. QED BY <1>6, <1>7, Zenon

-----------------------------------------------------------------------------
(* Frames of fixed layout *)

\* Each cell has some width.
AreCells(cells, m) ==
    m \in Nat /\ Len(cells) = m /\ \A i \in 1 .. m : cells[i].width \in Nat \ {0}

\* A cell that came is read by its place and its width, and one that did not is
\* out of range.
LEMMA FrameValue ==
    ASSUME NEW cells, NEW m \in Nat, AreCells(cells, m), NEW n \in Nat, n <= m,
           NEW i \in 1 .. m
    PROVE  ReadAt(Payload(cells, n), Offset(cells, i), cells[i].width) =
              IF i <= n THEN cells[i].value ELSE None
<1> DEFINE payload == Payload(cells, n)
<1>1. /\ \A k \in 1 .. m + 1 : Offset(cells, k) \in Nat
      /\ \A k \in 1 .. m : Offset(cells, k + 1) = Offset(cells, k) + cells[k].width
      /\ \A k, j \in 1 .. m + 1 : k < j => Offset(cells, k) < Offset(cells, j)
  BY OffsetIs DEF AreCells
<1>2. payload.size = Offset(cells, n + 1)
      /\ payload.begins = [o \in {Offset(cells, k) : k \in 1 .. n} |->
                              cells[CHOOSE k \in 1 .. n : Offset(cells, k) = o]]
  BY DEF Payload
<1>3. PICK o \in Nat : o = Offset(cells, i) BY <1>1
<1>4. PICK w \in Nat : w = cells[i].width /\ o + w = Offset(cells, i + 1)
  BY <1>1, <1>3 DEF AreCells
<1>5. has_range(payload, o, w) <=> o + w <= Offset(cells, n + 1) BY <1>2 DEF has_range
<1> HIDE DEF payload
<1>6. CASE i <= n
  <2>1. has_range(payload, o, w)
    <3>1. i = n \/ i + 1 < n + 1 BY <1>6
    <3>2. i + 1 \in 1 .. m + 1 /\ n + 1 \in 1 .. m + 1 BY <1>6
    <3>3. CASE i = n BY <1>1, <1>3, <1>4, <1>5, <3>2, <3>3
    <3>4. CASE i + 1 < n + 1
      <4>1. Offset(cells, i + 1) < Offset(cells, n + 1) BY <1>1, <3>2, <3>4
      <4>2. Offset(cells, n + 1) \in Nat BY <1>1, <3>2
      <4>3. QED BY <1>3, <1>4, <1>5, <4>1, <4>2
    <3>5. QED BY <3>1, <3>3, <3>4
  <2>2. i \in 1 .. n BY <1>6
  <2>3. \A k \in 1 .. n : Offset(cells, k) = o => k = i
    <3>1. SUFFICES ASSUME NEW k \in 1 .. n, Offset(cells, k) = o, k # i PROVE FALSE OBVIOUS
    <3>2. k \in 1 .. m + 1 /\ i \in 1 .. m + 1 /\ (k < i \/ i < k) BY <3>1
    <3>3. Offset(cells, k) < Offset(cells, i) \/ Offset(cells, i) < Offset(cells, k)
      BY <1>1, <3>2
    <3>4. QED BY <1>3, <3>1, <3>3
  <2>4. (CHOOSE k \in 1 .. n : Offset(cells, k) = o) = i BY <1>3, <2>2, <2>3
  <2>5. o \in DOMAIN payload.begins /\ payload.begins[o] = cells[i]
    BY <1>2, <1>3, <2>2, <2>4
  <2>6. ReadAt(payload, o, w) = cells[i].value BY <1>4, <2>1, <2>5 DEF ReadAt
  <2>7. QED BY <1>3, <1>4, <1>6, <2>6 DEF payload
<1>7. CASE ~ (i <= n)
  <2>1. ~ has_range(payload, o, w)
    <3>1. n + 1 < i + 1 /\ n + 1 \in 1 .. m + 1 /\ i + 1 \in 1 .. m + 1 BY <1>7
    <3>2. Offset(cells, n + 1) < Offset(cells, i + 1) BY <1>1, <3>1
    <3>3. Offset(cells, n + 1) \in Nat BY <1>1, <3>1
    <3>4. QED BY <1>3, <1>4, <1>5, <3>2, <3>3
  <2>2. ReadAt(payload, o, w) = None BY <2>1 DEF ReadAt
  <2>3. QED BY <1>3, <1>4, <1>7, <2>2 DEF payload
<1>8. QED BY <1>6, <1>7

\* The places of the words of a layout: each begins where the one before it ends.
AreBegins(log, m, begins) ==
    /\ DOMAIN Layout(log) = 1 .. m
    /\ \A i \in 1 .. m : Layout(log)[i].width \in Nat \ {0}
    /\ begins[1] = 0
    /\ \A i \in 1 .. m : begins[i + 1] = begins[i] + Layout(log)[i].width

\* The cells of a log begin where the words of its layout do.
LEMMA BeginsAre ==
    ASSUME NEW log, NEW cells, IsFixedLog(log, cells), NEW m \in Nat, NEW begins,
           AreBegins(log, m, begins)
    PROVE  /\ AreCells(cells, m)
           /\ \A i \in 1 .. m : cells[i].width = Layout(log)[i].width /\ cells[i].value \in Int
           /\ \A i \in 1 .. m + 1 : Offset(cells, i) = begins[i]
<1>1. cells = [i \in 1 .. m |-> cells[i]] BY DEF IsFixedLog, AreBegins
<1>2. Len(cells) = m
  <2>1. PICK c : c = [i \in 1 .. m |-> cells[i]] OBVIOUS
  <2>2. c \in [1 .. m -> {cells[i] : i \in 1 .. m}] BY <2>1
  <2>3. Len(c) = m BY <2>2, FunctionIsSeq
  <2>4. QED BY <1>1, <2>1, <2>3
<1>3. \A i \in 1 .. m : cells[i].width = Layout(log)[i].width /\ cells[i].value \in Int
  BY DEF IsFixedLog, AreBegins
<1>4. AreCells(cells, m) BY <1>2, <1>3 DEF AreCells, AreBegins
<1>5. /\ Offset(cells, 1) = 0
      /\ \A i \in 1 .. m : Offset(cells, i + 1) = Offset(cells, i) + cells[i].width
  BY <1>4, OffsetIs DEF AreCells
<1> DEFINE bad == {i \in 1 .. m + 1 : Offset(cells, i) # begins[i]}
<1>6. bad = {}
  <2>1. SUFFICES ASSUME bad # {} PROVE FALSE OBVIOUS
  <2>2. PICK j \in bad : \A y \in bad : j <= y
    <3>1. bad \in SUBSET Nat OBVIOUS
    <3> HIDE DEF bad
    <3>2. QED BY <2>1, <3>1, LeastNat
  <2>3. j \in 1 .. m + 1 /\ Offset(cells, j) # begins[j] OBVIOUS
  <2>4. j # 1 BY <1>5, <2>3 DEF AreBegins
  <2>5. PICK k \in 1 .. m : j = k + 1
    <3>1. j - 1 \in 1 .. m BY <2>3, <2>4
    <3>2. QED BY <2>3, <3>1
  <2>6. Offset(cells, k) = begins[k]
    <3>1. k \in 1 .. m + 1 /\ ~ (j <= k) BY <2>5
    <3>2. QED BY <2>2, <3>1
  <2>7. QED BY <1>3, <1>5, <2>3, <2>5, <2>6 DEF AreBegins
<1>7. QED BY <1>3, <1>4, <1>6

\* A parser of frames looks for each member at the place of its cell.
FrameTable(log, begins, place) ==
    \A name \in DOMAIN place : \E i \in DOMAIN Layout(log) :
       IsCell(log, name, i) /\ place[name] = <<begins[i], Layout(log)[i].width>>

ReadsFrame(log, parsed, payload, m) ==
    \E min, place, begins :
        /\ AreBegins(log, m, begins) /\ min \in Int /\ min <= begins[m + 1]
        /\ FrameTable(log, begins, place) /\ DOMAIN place = Names(log)
        /\ \A name \in DOMAIN place : name \notin {"ns", "ew"}
        /\ parsed = FixedFrame(payload, min, place)

\* FixedFrame, by the values it reads.
LEMMA FixedFrameIs ==
    ASSUME NEW payload, NEW min, NEW place, NEW v,
           \A name \in DOMAIN place :
              v[name] = ReadAt(payload, place[name][1], place[name][2])
    PROVE  FixedFrame(payload, min, place) =
              IF payload.size < min \/ \E name \in DOMAIN place : v[name] = None THEN None
              ELSE [name \in DOMAIN place |->
                       IF name = "type" THEN BinaryQuality(v[name]) ELSE v[name]]
  BY DEF FixedFrame

\* A frame of fixed layout is understood.
LEMMA ReadsFrameTells ==
    ASSUME NEW log, NEW cells, IsFixedLog(log, cells), NEW m \in Nat, NEW n \in 0 .. m,
           None \notin Int, NEW got, ReadsFrame(log, got, Payload(cells, n), m),
           None # [name \in DOMAIN Told(log, cells) |-> Told(log, cells)[name]]
    PROVE  Understood(got, Told(log, cells), n = m)
<1>1. PICK min, place, begins :
        /\ AreBegins(log, m, begins) /\ min \in Int /\ min <= begins[m + 1]
        /\ FrameTable(log, begins, place) /\ DOMAIN place = Names(log)
        /\ \A name \in DOMAIN place : name \notin {"ns", "ew"}
        /\ got = FixedFrame(Payload(cells, n), min, place)
  BY DEF ReadsFrame
<1>2. PICK told : told = Told(log, cells) BY SMTT(30)
<1>3. DOMAIN told = DOMAIN place BY <1>1, <1>2 DEF Told, Names
<1>4. n \in Nat /\ n <= m OBVIOUS
<1>5. PICK payload : payload = Payload(cells, n) OBVIOUS
<1>6. /\ AreCells(cells, m)
      /\ \A i \in 1 .. m : cells[i].width = Layout(log)[i].width /\ cells[i].value \in Int
      /\ \A i \in 1 .. m + 1 : Offset(cells, i) = begins[i]
  BY <1>1, BeginsAre
<1> DEFINE v == [name \in DOMAIN place |-> ReadAt(payload, place[name][1], place[name][2])]
\* What is read under a name.
<1>7. ASSUME NEW name \in DOMAIN place
      PROVE  /\ v[name] # None =>
                    (IF name = "type" THEN BinaryQuality(v[name]) ELSE v[name]) = told[name]
             /\ n = m => v[name] # None
  <2>1. PICK i \in DOMAIN Layout(log) :
           IsCell(log, name, i) /\ place[name] = <<begins[i], Layout(log)[i].width>>
    BY <1>1 DEF FrameTable
  <2>2. i \in 1 .. m BY <1>1 DEF AreBegins
  <2>3. place[name][1] = Offset(cells, i) /\ place[name][2] = cells[i].width
    <3>1. i \in 1 .. m + 1 BY <2>2
    <3>2. QED BY <1>6, <2>1, <2>2, <3>1
  <2>4. v[name] = IF i <= n THEN cells[i].value ELSE None
    BY <1>4, <1>5, <1>6, <2>2, <2>3, FrameValue
  <2>5. told[name] = CASE name = "type" -> BinaryQuality(cells[i].value)
                       [] name \in {"ns", "ew"} -> cells[i].text[2]
                       [] OTHER -> cells[i].value
    BY <1>2, <2>1, ToldIs
  <2>6. told[name] = IF name = "type" THEN BinaryQuality(cells[i].value) ELSE cells[i].value
    BY <1>1, <2>5, Zenon
  <2>7. cells[i].value # None BY <1>6, <2>2
  <2>8. n = m => i <= n BY <2>2
  <2> HIDE DEF v
  <2>9. QED BY <2>4, <2>6, <2>7, <2>8
<1>8. got = IF payload.size < min \/ \E name \in DOMAIN place : v[name] = None THEN None
            ELSE [name \in DOMAIN place |->
                     IF name = "type" THEN BinaryQuality(v[name]) ELSE v[name]]
  <2>1. \A name \in DOMAIN place :
           v[name] = ReadAt(payload, place[name][1], place[name][2])
    OBVIOUS
  <2> HIDE DEF v
  <2>2. QED BY <1>1, <1>5, <2>1, FixedFrameIs
<1>9. payload.size = Offset(cells, n + 1) BY <1>5 DEF Payload
<1> HIDE DEF v
<1>10. ASSUME n = m PROVE got # None
  <2>1. ~ (payload.size < min)
    <3>1. payload.size = begins[m + 1] /\ payload.size \in Nat
      <4>1. n + 1 \in 1 .. m + 1 /\ n + 1 = m + 1 BY <1>10
      <4>2. Offset(cells, n + 1) \in Nat BY <1>6, <4>1, OffsetIs DEF AreCells
      <4>3. QED BY <1>6, <1>9, <4>1, <4>2
    <3>2. QED BY <1>1, <3>1
  <2>2. got = [name \in DOMAIN place |->
                  IF name = "type" THEN BinaryQuality(v[name]) ELSE v[name]]
    BY <1>7, <1>8, <1>10, <2>1
  <2>3. got = [name \in DOMAIN told |-> told[name]] BY <1>3, <1>7, <1>10, <2>2
  <2>4. QED BY <1>2, <2>3
<1>11. ASSUME got # None, NEW name \in DOMAIN got PROVE got[name] = told[name]
  <2>1. got = [x \in DOMAIN place |-> IF x = "type" THEN BinaryQuality(v[x]) ELSE v[x]]
        /\ \A x \in DOMAIN place : v[x] # None
    BY <1>8, <1>11
  <2>2. name \in DOMAIN place
        /\ got[name] = IF name = "type" THEN BinaryQuality(v[name]) ELSE v[name]
    BY <1>11, <2>1
  <2>3. QED BY <1>7, <2>1, <2>2
<1>12. QED BY <1>2, <1>10, <1>11 DEF Understood

-----------------------------------------------------------------------------
(* The parsers of frames of fixed layout, and their tables *)

\* PvtslnbBytes looks for each member at the place of its cell.
LEMMA PvtslnFrame ==
    ASSUME NEW payload
    PROVE  ReadsFrame("PVTSLN", PvtslnbBytes(payload), payload, 34)
<1> DEFINE place == [type |-> <<0, 4>>, height |-> <<4, 4>>, latitude |-> <<8, 8>>,
                    longitude |-> <<16, 8>>, height_std |-> <<24, 4>>, latitude_std |-> <<28, 4>>,
                    longitude_std |-> <<32, 4>>, undulation |-> <<64, 4>>, tracked |-> <<68, 1>>,
                    solution |-> <<69, 1>>, heading_type |-> <<96, 4>>,
                    heading_length |-> <<100, 4>>, heading_degree |-> <<104, 4>>,
                    heading_pitch |-> <<108, 4>>, hdop |-> <<124, 4>>]
           names == <<"type", "height", "latitude", "longitude", "height_std", "latitude_std",
                      "longitude_std", "-", "-", "-", "-", "-", "undulation", "tracked",
                      "solution", "-", "-", "-", "-", "-", "heading_type", "heading_length",
                      "heading_degree", "heading_pitch", "-", "-", "-", "-", "-", "-", "hdop",
                      "-", "-", "-">>
           widths == <<4, 4, 8, 8, 4, 4, 4, 4, 4, 4, 8, 8, 4, 1, 1, 1, 1, 8, 8, 8, 4, 4, 4, 4, 1,
                       1, 1, 1, 4, 4, 4, 4, 4, 4>>
           begins == <<0, 4, 8, 16, 24, 28, 32, 36, 40, 44, 48, 56, 64, 68, 69, 70, 71, 72, 80,
                       88, 96, 100, 104, 108, 112, 113, 114, 115, 116, 120, 124, 128, 132, 136,
                       140>>
           at == [type |-> 1, height |-> 2, latitude |-> 3, longitude |-> 4, height_std |-> 5,
                 latitude_std |-> 6, longitude_std |-> 7, undulation |-> 13, tracked |-> 14,
                 solution |-> 15, heading_type |-> 21, heading_length |-> 22,
                 heading_degree |-> 23, heading_pitch |-> 24, hdop |-> 31]
<1>1. DOMAIN Layout("PVTSLN") = 1 .. 34 BY DEF Layout, Mixed
<1>2. \A i \in 1 .. 34 : Layout("PVTSLN")[i].name = names[i] BY DEF Layout, Mixed
<1>3. \A i \in 1 .. 34 : Layout("PVTSLN")[i].width = widths[i] BY DEF Layout, Mixed
<1>4. AreBegins("PVTSLN", 34, begins) BY <1>1, <1>3 DEF AreBegins
<1>5. FrameTable("PVTSLN", begins, place)
  <2>1. \A name \in DOMAIN place : at[name] \in 1 .. 34 OBVIOUS
  <2>2. \A name \in DOMAIN place : names[at[name]] = name /\ name # "-" OBVIOUS
  <2>3. \A name \in DOMAIN place : place[name] = <<begins[at[name]], widths[at[name]]>>
    OBVIOUS
  <2>4. \A name \in DOMAIN place : \A j \in 1 .. 34 : names[j] = name => j = at[name]
    OBVIOUS
  <2> HIDE DEF place, names, widths, begins, at
  <2>5. ASSUME NEW name \in DOMAIN place
        PROVE  \E i \in DOMAIN Layout("PVTSLN") :
                  /\ IsCell("PVTSLN", name, i)
                  /\ place[name] = <<begins[i], Layout("PVTSLN")[i].width>>
    <3>1. PICK i \in 1 .. 34 : i = at[name] BY <2>1
    <3>2. names[i] = name /\ name # "-" BY <2>2, <3>1
    <3>3. place[name] = <<begins[i], widths[i]>> BY <2>3, <3>1
    <3>4. \A j \in 1 .. 34 : names[j] = name => j = i BY <2>4, <3>1
    <3>5. IsCell("PVTSLN", name, i) BY <1>1, <1>2, <3>2, <3>4 DEF IsCell
    <3>6. place[name] = <<begins[i], Layout("PVTSLN")[i].width>> BY <1>3, <3>3
    <3>7. QED BY <1>1, <3>5, <3>6
  <2>6. QED BY <2>5 DEF FrameTable
<1>6. DOMAIN place = Names("PVTSLN") BY <1>1, <1>2 DEF Names
<1>7. \A name \in DOMAIN place : name \notin {"ns", "ew"} OBVIOUS
<1>8. 140 <= begins[35] OBVIOUS
<1>9. PvtslnbBytes(payload) = FixedFrame(payload, 140, place) BY DEF PvtslnbBytes
<1> HIDE DEF place, begins
<1>10. QED BY <1>4, <1>5, <1>6, <1>7, <1>8, <1>9 DEF ReadsFrame

\* parse_bestnavb looks for each member at the place of its cell.
LEMMA BestnavFrame ==
    ASSUME NEW payload
    PROVE  ReadsFrame("BESTNAV", parse_bestnavb(payload), payload, 30)
<1> DEFINE place == [status |-> <<0, 4>>, type |-> <<4, 4>>, latitude |-> <<8, 8>>,
                    longitude |-> <<16, 8>>, height |-> <<24, 8>>, undulation |-> <<32, 4>>,
                    latitude_std |-> <<40, 4>>, longitude_std |-> <<44, 4>>,
                    height_std |-> <<48, 4>>, base_station_id |-> <<52, 4>>,
                    diff_age |-> <<56, 4>>, sol_age |-> <<60, 4>>, tracked |-> <<64, 1>>,
                    used |-> <<65, 1>>, extended |-> <<69, 1>>, mask1 |-> <<70, 1>>,
                    mask2 |-> <<71, 1>>, velocity_status |-> <<72, 4>>,
                    velocity_type |-> <<76, 4>>, latency |-> <<80, 4>>,
                    velocity_age |-> <<84, 4>>, speed |-> <<88, 8>>, track |-> <<96, 8>>,
                    up_speed |-> <<104, 4>>, up_speed_std |-> <<108, 4>>, speed_std |-> <<112, 4>>]
           names == <<"status", "type", "latitude", "longitude", "height", "undulation", "-",
                      "latitude_std", "longitude_std", "height_std", "base_station_id",
                      "diff_age", "sol_age", "tracked", "used", "-", "-", "-", "extended",
                      "mask1", "mask2", "velocity_status", "velocity_type", "latency",
                      "velocity_age", "speed", "track", "up_speed", "up_speed_std", "speed_std">>
           widths == <<4, 4, 8, 8, 8, 4, 4, 4, 4, 4, 4, 4, 4, 1, 1, 1, 1, 1, 1, 1, 1, 4, 4, 4, 4,
                       8, 8, 4, 4, 4>>
           begins == <<0, 4, 8, 16, 24, 32, 36, 40, 44, 48, 52, 56, 60, 64, 65, 66, 67, 68, 69,
                       70, 71, 72, 76, 80, 84, 88, 96, 104, 108, 112, 116>>
           at == [status |-> 1, type |-> 2, latitude |-> 3, longitude |-> 4, height |-> 5,
                 undulation |-> 6, latitude_std |-> 8, longitude_std |-> 9, height_std |-> 10,
                 base_station_id |-> 11, diff_age |-> 12, sol_age |-> 13, tracked |-> 14,
                 used |-> 15, extended |-> 19, mask1 |-> 20, mask2 |-> 21, velocity_status |-> 22,
                 velocity_type |-> 23, latency |-> 24, velocity_age |-> 25, speed |-> 26,
                 track |-> 27, up_speed |-> 28, up_speed_std |-> 29, speed_std |-> 30]
<1>1. DOMAIN Layout("BESTNAV") = 1 .. 30 BY DEF Layout, Mixed
<1>2. \A i \in 1 .. 30 : Layout("BESTNAV")[i].name = names[i] BY DEF Layout, Mixed
<1>3. \A i \in 1 .. 30 : Layout("BESTNAV")[i].width = widths[i] BY DEF Layout, Mixed
<1>4. AreBegins("BESTNAV", 30, begins) BY <1>1, <1>3 DEF AreBegins
<1>5. FrameTable("BESTNAV", begins, place)
  <2>1. \A name \in DOMAIN place : at[name] \in 1 .. 30 OBVIOUS
  <2>2. \A name \in DOMAIN place : names[at[name]] = name /\ name # "-" OBVIOUS
  <2>3. \A name \in DOMAIN place : place[name] = <<begins[at[name]], widths[at[name]]>>
    OBVIOUS
  <2>4. \A name \in DOMAIN place : \A j \in 1 .. 30 : names[j] = name => j = at[name]
    OBVIOUS
  <2> HIDE DEF place, names, widths, begins, at
  <2>5. ASSUME NEW name \in DOMAIN place
        PROVE  \E i \in DOMAIN Layout("BESTNAV") :
                  /\ IsCell("BESTNAV", name, i)
                  /\ place[name] = <<begins[i], Layout("BESTNAV")[i].width>>
    <3>1. PICK i \in 1 .. 30 : i = at[name] BY <2>1
    <3>2. names[i] = name /\ name # "-" BY <2>2, <3>1
    <3>3. place[name] = <<begins[i], widths[i]>> BY <2>3, <3>1
    <3>4. \A j \in 1 .. 30 : names[j] = name => j = i BY <2>4, <3>1
    <3>5. IsCell("BESTNAV", name, i) BY <1>1, <1>2, <3>2, <3>4 DEF IsCell
    <3>6. place[name] = <<begins[i], Layout("BESTNAV")[i].width>> BY <1>3, <3>3
    <3>7. QED BY <1>1, <3>5, <3>6
  <2>6. QED BY <2>5 DEF FrameTable
<1>6. DOMAIN place = Names("BESTNAV") BY <1>1, <1>2 DEF Names
<1>7. \A name \in DOMAIN place : name \notin {"ns", "ew"} OBVIOUS
<1>8. 116 <= begins[31] OBVIOUS
<1>9. parse_bestnavb(payload) = FixedFrame(payload, 116, place) BY DEF parse_bestnavb
<1> HIDE DEF place, begins
<1>10. QED BY <1>4, <1>5, <1>6, <1>7, <1>8, <1>9 DEF ReadsFrame

\* parse_rtkstatusb looks for each member at the place of its cell.
LEMMA RtkstatusFrame ==
    ASSUME NEW payload
    PROVE  ReadsFrame("RTKSTATUS", parse_rtkstatusb(payload), payload, 17)
<1> DEFINE place == [gps |-> <<0, 4>>, bds1 |-> <<8, 4>>, bds2 |-> <<12, 4>>,
                    glonass |-> <<20, 4>>, galileo1 |-> <<28, 4>>, galileo2 |-> <<32, 4>>,
                    qzss |-> <<36, 4>>, type |-> <<44, 4>>, calculate |-> <<48, 4>>,
                    ion |-> <<52, 1>>, dual |-> <<53, 1>>, adr |-> <<54, 1>>]
           names == <<"gps", "-", "bds1", "bds2", "-", "glonass", "-", "galileo1", "galileo2",
                      "qzss", "-", "type", "calculate", "ion", "dual", "adr", "-">>
           widths == <<4, 4, 4, 4, 4, 4, 4, 4, 4, 4, 4, 4, 4, 1, 1, 1, 1>>
           begins == <<0, 4, 8, 12, 16, 20, 24, 28, 32, 36, 40, 44, 48, 52, 53, 54, 55, 56>>
<1>1. DOMAIN Layout("RTKSTATUS") = 1 .. 17 BY DEF Layout, Mixed
<1>2. \A i \in 1 .. 17 : Layout("RTKSTATUS")[i].name = names[i] BY DEF Layout, Mixed
<1>3. \A i \in 1 .. 17 : Layout("RTKSTATUS")[i].width = widths[i] BY DEF Layout, Mixed
<1>4. AreBegins("RTKSTATUS", 17, begins) BY <1>1, <1>3 DEF AreBegins
<1>5. FrameTable("RTKSTATUS", begins, place)
  BY SMTT(30), <1>1, <1>2, <1>3 DEF FrameTable, IsCell
<1>6. DOMAIN place = Names("RTKSTATUS") BY <1>1, <1>2 DEF Names
<1>7. \A name \in DOMAIN place : name \notin {"ns", "ew"} OBVIOUS
<1>8. 56 <= begins[18] OBVIOUS
<1>9. parse_rtkstatusb(payload) = FixedFrame(payload, 56, place) BY DEF parse_rtkstatusb
<1> HIDE DEF place, begins
<1>10. QED BY <1>4, <1>5, <1>6, <1>7, <1>8, <1>9 DEF ReadsFrame

\* parse_rtcmstatusb looks for each member at the place of its cell.
LEMMA RtcmstatusFrame ==
    ASSUME NEW payload
    PROVE  ReadsFrame("RTCMSTATUS", parse_rtcmstatusb(payload), payload, 10)
<1> DEFINE place == [id |-> <<0, 4>>, count |-> <<4, 4>>, base |-> <<8, 4>>,
                    satellites |-> <<12, 4>>, L1 |-> <<16, 1>>, L2 |-> <<17, 1>>,
                    L3 |-> <<18, 1>>, L4 |-> <<19, 1>>, L5 |-> <<20, 1>>, L6 |-> <<21, 1>>]
           names == <<"id", "count", "base", "satellites", "L1", "L2", "L3", "L4", "L5", "L6">>
           widths == <<4, 4, 4, 4, 1, 1, 1, 1, 1, 1>>
           begins == <<0, 4, 8, 12, 16, 17, 18, 19, 20, 21, 22>>
<1>1. DOMAIN Layout("RTCMSTATUS") = 1 .. 10 BY DEF Layout, Mixed
<1>2. \A i \in 1 .. 10 : Layout("RTCMSTATUS")[i].name = names[i] BY DEF Layout, Mixed
<1>3. \A i \in 1 .. 10 : Layout("RTCMSTATUS")[i].width = widths[i] BY DEF Layout, Mixed
<1>4. AreBegins("RTCMSTATUS", 10, begins) BY <1>1, <1>3 DEF AreBegins
<1>5. FrameTable("RTCMSTATUS", begins, place)
  BY SMTT(30), <1>1, <1>2, <1>3 DEF FrameTable, IsCell
<1>6. DOMAIN place = Names("RTCMSTATUS") BY <1>1, <1>2 DEF Names
<1>7. \A name \in DOMAIN place : name \notin {"ns", "ew"} OBVIOUS
<1>8. 22 <= begins[11] OBVIOUS
<1>9. parse_rtcmstatusb(payload) = FixedFrame(payload, 22, place) BY DEF parse_rtcmstatusb
<1> HIDE DEF place, begins
<1>10. QED BY <1>4, <1>5, <1>6, <1>7, <1>8, <1>9 DEF ReadsFrame

\* parse_agcb looks for each member at the place of its cell.
LEMMA AgcFrame ==
    ASSUME NEW payload
    PROVE  ReadsFrame("AGC", parse_agcb(payload), payload, 10)
<1> DEFINE place == [ant1_l1 |-> <<0, 2>>, ant1_l2 |-> <<2, 2>>, ant1_l5 |-> <<4, 2>>,
                    ant2_l1 |-> <<10, 2>>, ant2_l2 |-> <<12, 2>>, ant2_l5 |-> <<14, 2>>]
           names == <<"ant1_l1", "ant1_l2", "ant1_l5", "-", "-", "ant2_l1", "ant2_l2", "ant2_l5",
                      "-", "-">>
           widths == <<2, 2, 2, 2, 2, 2, 2, 2, 2, 2>>
           begins == <<0, 2, 4, 6, 8, 10, 12, 14, 16, 18, 20>>
<1>1. DOMAIN Layout("AGC") = 1 .. 10 BY DEF Layout, Words
<1>2. \A i \in 1 .. 10 : Layout("AGC")[i].name = names[i] BY DEF Layout, Words
<1>3. \A i \in 1 .. 10 : Layout("AGC")[i].width = widths[i] BY DEF Layout, Words
<1>4. AreBegins("AGC", 10, begins) BY <1>1, <1>3 DEF AreBegins
<1>5. FrameTable("AGC", begins, place) BY <1>1, <1>2, <1>3 DEF FrameTable, IsCell
<1>6. DOMAIN place = Names("AGC") BY <1>1, <1>2 DEF Names
<1>7. \A name \in DOMAIN place : name \notin {"ns", "ew"} OBVIOUS
<1>8. 20 <= begins[11] OBVIOUS
<1>9. parse_agcb(payload) = FixedFrame(payload, 20, place) BY DEF parse_agcb
<1> HIDE DEF place, begins
<1>10. QED BY <1>4, <1>5, <1>6, <1>7, <1>8, <1>9 DEF ReadsFrame

\* parse_hwstatusb looks for each member at the place of its cell.
LEMMA HwstatusFrame ==
    ASSUME NEW payload
    PROVE  ReadsFrame("HWSTATUS", parse_hwstatusb(payload), payload, 12)
<1> DEFINE place == [dc09 |-> <<4, 4>>, dc10 |-> <<8, 4>>, dc18 |-> <<12, 4>>,
                    clock |-> <<16, 4>>, drift |-> <<20, 4>>, hw |-> <<28, 1>>, pll |-> <<30, 2>>]
           names == <<"-", "dc09", "dc10", "dc18", "clock", "drift", "-", "hw", "-", "pll", "-",
                      "-">>
           widths == <<4, 4, 4, 4, 4, 4, 4, 1, 1, 2, 4, 4>>
           begins == <<0, 4, 8, 12, 16, 20, 24, 28, 29, 30, 32, 36, 40>>
<1>1. DOMAIN Layout("HWSTATUS") = 1 .. 12 BY DEF Layout, Mixed
<1>2. \A i \in 1 .. 12 : Layout("HWSTATUS")[i].name = names[i] BY DEF Layout, Mixed
<1>3. \A i \in 1 .. 12 : Layout("HWSTATUS")[i].width = widths[i] BY DEF Layout, Mixed
<1>4. AreBegins("HWSTATUS", 12, begins) BY <1>1, <1>3 DEF AreBegins
<1>5. FrameTable("HWSTATUS", begins, place) BY <1>1, <1>2, <1>3 DEF FrameTable, IsCell
<1>6. DOMAIN place = Names("HWSTATUS") BY <1>1, <1>2 DEF Names
<1>7. \A name \in DOMAIN place : name \notin {"ns", "ew"} OBVIOUS
<1>8. 40 <= begins[13] OBVIOUS
<1>9. parse_hwstatusb(payload) = FixedFrame(payload, 40, place) BY DEF parse_hwstatusb
<1> HIDE DEF place, begins
<1>10. QED BY <1>4, <1>5, <1>6, <1>7, <1>8, <1>9 DEF ReadsFrame

\* parse_jamstatusb looks for each member at the place of its cell.
LEMMA JamstatusFrame ==
    ASSUME NEW payload
    PROVE  ReadsFrame("JAMSTATUS", parse_jamstatusb(payload), payload, 5)
<1> DEFINE place == [ratio |-> <<4, 1>>, flag |-> <<5, 1>>]
           names == <<"-", "ratio", "flag", "-", "-">>
           widths == <<4, 1, 1, 1, 1>>
           begins == <<0, 4, 5, 6, 7, 8>>
<1>1. DOMAIN Layout("JAMSTATUS") = 1 .. 5 BY DEF Layout, Mixed
<1>2. \A i \in 1 .. 5 : Layout("JAMSTATUS")[i].name = names[i] BY DEF Layout, Mixed
<1>3. \A i \in 1 .. 5 : Layout("JAMSTATUS")[i].width = widths[i] BY DEF Layout, Mixed
<1>4. AreBegins("JAMSTATUS", 5, begins) BY <1>1, <1>3 DEF AreBegins
<1>5. FrameTable("JAMSTATUS", begins, place) BY <1>1, <1>2, <1>3 DEF FrameTable, IsCell
<1>6. DOMAIN place = Names("JAMSTATUS") BY <1>1, <1>2 DEF Names
<1>7. \A name \in DOMAIN place : name \notin {"ns", "ew"} OBVIOUS
<1>8. 8 <= begins[6] OBVIOUS
<1>9. parse_jamstatusb(payload) = FixedFrame(payload, 8, place) BY DEF parse_jamstatusb
<1> HIDE DEF place, begins
<1>10. QED BY <1>4, <1>5, <1>6, <1>7, <1>8, <1>9 DEF ReadsFrame

\* parse_freqjamstatusb looks for each member at the place of its cell.
LEMMA FreqjamstatusFrame ==
    ASSUME NEW payload
    PROVE  ReadsFrame("FREQJAMSTATUS", parse_freqjamstatusb(payload), payload, 9)
<1> DEFINE place == [ratio1 |-> <<4, 1>>, flag1 |-> <<5, 1>>, ratio2 |-> <<6, 1>>,
                    flag2 |-> <<7, 1>>, ratio5 |-> <<8, 1>>, flag5 |-> <<9, 1>>]
           names == <<"-", "ratio1", "flag1", "ratio2", "flag2", "ratio5", "flag5", "-", "-">>
           widths == <<4, 1, 1, 1, 1, 1, 1, 1, 1>>
           begins == <<0, 4, 5, 6, 7, 8, 9, 10, 11, 12>>
<1>1. DOMAIN Layout("FREQJAMSTATUS") = 1 .. 9 BY DEF Layout, Mixed
<1>2. \A i \in 1 .. 9 : Layout("FREQJAMSTATUS")[i].name = names[i] BY DEF Layout, Mixed
<1>3. \A i \in 1 .. 9 : Layout("FREQJAMSTATUS")[i].width = widths[i] BY DEF Layout, Mixed
<1>4. AreBegins("FREQJAMSTATUS", 9, begins) BY <1>1, <1>3 DEF AreBegins
<1>5. FrameTable("FREQJAMSTATUS", begins, place) BY <1>1, <1>2, <1>3 DEF FrameTable, IsCell
<1>6. DOMAIN place = Names("FREQJAMSTATUS") BY <1>1, <1>2 DEF Names
<1>7. \A name \in DOMAIN place : name \notin {"ns", "ew"} OBVIOUS
<1>8. 12 <= begins[10] OBVIOUS
<1>9. parse_freqjamstatusb(payload) = FixedFrame(payload, 12, place)
  BY DEF parse_freqjamstatusb
<1> HIDE DEF place, begins
<1>10. QED BY <1>4, <1>5, <1>6, <1>7, <1>8, <1>9 DEF ReadsFrame

-----------------------------------------------------------------------------
(* Cells of one width *)

\* Where cells have one width, they begin at equal distances.
AsWide(cells, m, a, b, w) == \A i \in 1 .. m : a <= i /\ i < b => cells[i].width = w

InStep(cells, m, a, b, w) ==
    \A i \in 1 .. m + 1 :
       a <= i /\ i <= b => Offset(cells, i) = Offset(cells, a) + w * (i - a)

\* Cells of one width begin in step.
LEMMA Spaced ==
    ASSUME NEW cells, NEW m \in Nat, AreCells(cells, m), NEW w \in Nat,
           NEW a \in 1 .. m + 1, NEW b \in 1 .. m + 1,
           AsWide(cells, m, a, b, w)
    PROVE  InStep(cells, m, a, b, w)
<1>1. /\ \A i \in 1 .. m + 1 : Offset(cells, i) \in Nat
      /\ \A i \in 1 .. m : Offset(cells, i + 1) = Offset(cells, i) + cells[i].width
  BY OffsetIs DEF AreCells
<1> DEFINE Good(i) == a <= i /\ i <= b => Offset(cells, i) = Offset(cells, a) + w * (i - a)
           bad == {i \in 1 .. m + 1 : ~ Good(i)}
<1>2. bad = {}
  <2>1. SUFFICES ASSUME bad # {} PROVE FALSE OBVIOUS
  <2>2. PICK j \in bad : \A y \in bad : j <= y
    <3>1. bad \in SUBSET Nat OBVIOUS
    <3> HIDE DEF bad
    <3>2. QED BY <2>1, <3>1, LeastNat
  <2>3. j \in 1 .. m + 1 /\ ~ Good(j) OBVIOUS
  <2>4. a <= j /\ j <= b /\ Offset(cells, j) # Offset(cells, a) + w * (j - a) BY <2>3
  <2>5. j # a
    <3>1. w * (a - a) = 0 OBVIOUS
    <3>2. Offset(cells, a) \in Nat BY <1>1
    <3>3. QED BY <2>4, <3>1, <3>2
  <2>6. PICK k \in 1 .. m : j = k + 1 /\ a <= k /\ k < b
    <3>1. j - 1 \in 1 .. m /\ a <= j - 1 /\ j - 1 < b BY <2>3, <2>4, <2>5
    <3>2. QED BY <2>3, <3>1
  <2>7. Offset(cells, k) = Offset(cells, a) + w * (k - a)
    <3>1. k \in 1 .. m + 1 /\ ~ (j <= k) BY <2>6
    <3>2. k \notin bad BY <2>2, <3>1
    <3>3. QED BY <2>6, <3>1, <3>2
  <2>8. Offset(cells, j) = Offset(cells, k) + w BY <1>1, <2>6 DEF AsWide
  <2>9. w * (j - a) = w * (k - a) + w BY <2>6
  <2>10. PICK p \in Nat : p = Offset(cells, a) BY <1>1
  <2>11. PICK q \in Int : q = w * (k - a) OBVIOUS
  <2>12. QED BY <2>4, <2>7, <2>8, <2>9, <2>10, <2>11
<1>3. QED BY <1>2 DEF InStep

\* A log that is refused or understood completely.
LEMMA AllOrNothing ==
    ASSUME NEW got, NEW told, NEW whole \in BOOLEAN, None # told,
           got = told \/ (~ whole /\ got = None)
    PROVE  Understood(got, told, whole)
  BY DEF Understood

-----------------------------------------------------------------------------
(* OBSVMCMP *)

IsObsvmcmp(cells, says, L) ==
    /\ AreCells(cells, L + 1) /\ cells[1] = Cell(4, L)
    /\ \A i \in 1 .. L : cells[i + 1] = Cell(24, says[i])

\* The cells of an OBSVMCMP: their number, then one per observation.
LEMMA ObsvmcmpCellsAre ==
    ASSUME NEW says \in Seq(Int), NEW L \in Nat, L = Len(says),
           NEW cells, cells = ObsvmcmpCells(says)
    PROVE  IsObsvmcmp(cells, says, L)
<1> DEFINE T == {Cell(4, L)} \cup {Cell(24, o) : o \in Int}
           head == <<Cell(4, L)>>
           rest == [i \in 1 .. L |-> Cell(24, says[i])]
<1>1. head \in Seq(T) /\ Len(head) = 1 /\ head[1] = Cell(4, L) OBVIOUS
<1>2. rest \in Seq(T) /\ Len(rest) = L
  <2>1. rest \in [1 .. L -> T] OBVIOUS
  <2> HIDE DEF T, rest
  <2>2. QED BY <2>1, FunctionIsSeq
<1>3. \A i \in 1 .. L : rest[i] = Cell(24, says[i]) OBVIOUS
<1>4. cells = head \o rest
  <2>1. DOMAIN says = 1 .. L OBVIOUS
  <2>2. QED BY <2>1 DEF ObsvmcmpCells
<1> HIDE DEF T, head, rest
<1>5. PICK s \in Seq(T), t \in Seq(T) : s = head /\ t = rest BY <1>1, <1>2
<1>6. /\ Len(s \o t) = Len(s) + Len(t)
      /\ \A i \in 1 .. Len(s) : (s \o t)[i] = s[i]
      /\ \A i \in 1 .. Len(t) : (s \o t)[Len(s) + i] = t[i]
  BY ConcatParts
<1>7. Len(cells) = 1 + L /\ cells[1] = Cell(4, L)
  <2>1. Len(s) = 1 BY <1>1, <1>5, Zenon
  <2>2. (s \o t)[1] = s[1]
    <3>1. 1 \in 1 .. Len(s) BY <2>1
    <3>2. QED BY <1>6, <3>1
  <2>3. QED BY <1>1, <1>2, <1>4, <1>5, <1>6, <2>2
<1>8. \A i \in 1 .. L : cells[1 + i] = Cell(24, says[i])
  BY <1>1, <1>2, <1>3, <1>4, <1>5, <1>6
<1>9. ASSUME NEW i \in 1 .. L + 1 PROVE cells[i].width \in Nat \ {0}
  <2>1. CASE i = 1 BY <1>7, <2>1 DEF Cell
  <2>2. CASE i # 1
    <3>1. i - 1 \in 1 .. L /\ 1 + (i - 1) = i BY <2>2
    <3>2. cells[i] = Cell(24, says[i - 1]) BY <1>8, <3>1
    <3>3. QED BY <3>2 DEF Cell
  <2>3. QED BY <2>1, <2>2
<1>10. QED BY <1>7, <1>8, <1>9 DEF AreCells, IsObsvmcmp

\* parse_obsvmcmpb understands the frame of any observations, cut anywhere.
LEMMA ObsvmcmpFrame ==
    ASSUME NEW says \in Seq(Int), NEW cells, cells = ObsvmcmpCells(says),
           NEW n \in 0 .. Len(cells), None \notin Int,
           NEW told, told = [observations |-> says], None # told
    PROVE  Understood(parse_obsvmcmpb(Payload(cells, n)), told, n = Len(cells))
<1>1. PICK L \in Nat : L = Len(says) OBVIOUS
<1>2. /\ AreCells(cells, L + 1) /\ cells[1] = Cell(4, L)
      /\ \A i \in 1 .. L : cells[i + 1] = Cell(24, says[i])
  <2>1. IsObsvmcmp(cells, says, L) BY <1>1, ObsvmcmpCellsAre
  <2>2. QED BY <2>1 DEF IsObsvmcmp
<1>3. PICK m \in Nat : m = L + 1 /\ m = Len(cells) BY <1>2 DEF AreCells
<1>4. PICK k \in Nat : k = n /\ k <= m BY <1>3
<1>5. PICK payload : payload = Payload(cells, k) OBVIOUS
<1>6. PICK got : got = parse_obsvmcmpb(payload) OBVIOUS
<1> DEFINE whole == n = Len(cells)
<1> whole \in BOOLEAN OBVIOUS
<1> HIDE DEF whole
<1>7. /\ Offset(cells, 1) = 0
      /\ \A i \in 1 .. m + 1 : Offset(cells, i) \in Nat
      /\ \A i \in 1 .. m : Offset(cells, i + 1) = Offset(cells, i) + cells[i].width
      /\ \A i, j \in 1 .. m + 1 : i < j => Offset(cells, i) < Offset(cells, j)
  BY <1>2, <1>3, OffsetIs DEF AreCells
<1>8. \A i \in 2 .. m + 1 : Offset(cells, i) = 4 + 24 * (i - 2)
  <2>1. Offset(cells, 2) = 4
    <3>1. 1 \in 1 .. m /\ 1 + 1 = 2 /\ cells[1].width = 4 BY <1>2, <1>3 DEF Cell
    <3>2. QED BY <1>7, <3>1
  <2>2. ASSUME NEW i \in 1 .. m, 2 <= i PROVE cells[i].width = 24
    <3>1. i - 1 \in 1 .. L /\ (i - 1) + 1 = i BY <1>3, <2>2
    <3>2. cells[i] = Cell(24, says[i - 1]) BY <1>2, <3>1
    <3>3. QED BY <3>2 DEF Cell
  <2>3. PICK a \in 1 .. m + 1, b \in 1 .. m + 1, w \in Nat : a = 2 /\ b = m + 1 /\ w = 24
    BY <1>3
  <2>4. AsWide(cells, m, a, b, w) BY <2>2, <2>3 DEF AsWide
  <2>5. InStep(cells, m, a, b, w) BY <1>2, <1>3, <2>4, Spaced
  <2>6. QED BY <2>1, <2>3, <2>5 DEF InStep
<1>9. \A i \in 1 .. m : ReadAt(payload, Offset(cells, i), cells[i].width) =
                           IF i <= k THEN cells[i].value ELSE None
  BY SMTT(30), <1>2, <1>3, <1>4, <1>5, FrameValue
<1>10. ReadAt(payload, 0, 4) = IF 1 <= k THEN L ELSE None
  <2>1. 1 \in 1 .. m /\ cells[1].width = 4 /\ cells[1].value = L BY <1>2, <1>3 DEF Cell
  <2>2. QED BY <1>7, <1>9, <2>1
<1>11. payload.size = Offset(cells, k + 1) BY <1>5 DEF Payload
<1>12. payload.size < 4 + 24 * L <=> k < m
  <2>1. Offset(cells, m + 1) = 4 + 24 * L BY <1>3, <1>8
  <2>2. CASE k < m
    <3>1. k + 1 \in 1 .. m + 1 /\ m + 1 \in 1 .. m + 1 /\ k + 1 < m + 1 BY <2>2
    <3>2. Offset(cells, k + 1) < Offset(cells, m + 1) BY <1>7, <3>1
    <3>3. QED BY <1>11, <2>1, <2>2, <3>2
  <2>3. CASE ~ (k < m)
    <3>1. k + 1 = m + 1 BY <1>4, <2>3
    <3>2. QED BY <1>11, <2>1, <2>3, <3>1
  <2>4. QED BY <2>2, <2>3
<1>13. CASE k = 0
  <2>1. got = None BY <1>6, <1>10, <1>13 DEF parse_obsvmcmpb
  <2>2. ~ whole BY <1>3, <1>4, <1>13 DEF whole
  <2>3. Understood(got, told, whole) BY <2>1, <2>2, AllOrNothing
  <2>4. QED BY <1>4, <1>5, <1>6, <2>3 DEF whole
<1>14. CASE k # 0 /\ k < m
  <2>1. ReadAt(payload, 0, 4) = L BY <1>10, <1>14
  <2>2. got = None BY <1>6, <1>12, <1>14, <2>1 DEF parse_obsvmcmpb
  <2>3. ~ whole BY <1>3, <1>4, <1>14 DEF whole
  <2>4. Understood(got, told, whole) BY <2>2, <2>3, AllOrNothing
  <2>5. QED BY <1>4, <1>5, <1>6, <2>4 DEF whole
<1>15. CASE k = m
  <2>1. ReadAt(payload, 0, 4) = L /\ L # None BY <1>3, <1>10, <1>15
  <2>2. got = [observations |-> [i \in 1 .. L |-> ReadAt(payload, 4 + 24 * (i - 1), 24)]]
    BY <1>6, <1>12, <1>15, <2>1 DEF parse_obsvmcmpb
  <2>3. ASSUME NEW i \in 1 .. L PROVE ReadAt(payload, 4 + 24 * (i - 1), 24) = says[i]
    <3>1. i + 1 \in 1 .. m /\ i + 1 \in 2 .. m + 1 /\ i + 1 <= k BY <1>3, <1>15
    <3>2. Offset(cells, i + 1) = 4 + 24 * (i - 1) BY <1>8, <3>1
    <3>3. cells[i + 1].width = 24 /\ cells[i + 1].value = says[i]
      <4>1. cells[i + 1] = Cell(24, says[i]) BY <1>2
      <4>2. QED BY <4>1 DEF Cell
    <3>4. QED BY <1>9, <3>1, <3>2, <3>3
  <2>4. [i \in 1 .. L |-> ReadAt(payload, 4 + 24 * (i - 1), 24)] = [i \in 1 .. L |-> says[i]]
    BY <2>3
  <2>5. says = [i \in 1 .. L |-> says[i]] BY <1>1
  <2>6. got = told BY <2>2, <2>4, <2>5
  <2>7. Understood(got, told, whole) BY <2>6, Zenon DEF Understood
  <2>8. QED BY <1>4, <1>5, <1>6, <2>7 DEF whole
<1>16. QED BY <1>4, <1>13, <1>14, <1>15

-----------------------------------------------------------------------------
(* BESTSAT *)

\* The identifier and the channel in one word.
Raw(channel, id) == <<channel % 65536, id>>

\* The cells of one satellite of a BESTSAT.
BestsatBlock(s) ==
    <<Named(4, s.system, SystemName[s.system]),
      Named(4, Raw(s.channel, s.id), <<s.id, s.channel>>),
      Named(4, 0, "GOOD"), Cell(4, s.mask)>>

IsBestsat(cells, says, L) ==
    /\ Len(cells) = 1 + 4 * L /\ cells[1] = Cell(4, L)
    /\ \A i \in 1 .. 1 + 4 * L : cells[i].width = 4
    /\ \A i \in 1 .. L : \A j \in 1 .. 4 : cells[4 * i - 3 + j] = BestsatBlock(says[i])[j]

\* The cells of a BESTSAT: their number, then four per satellite.
LEMMA BestsatCellsAre ==
    ASSUME NEW says, NEW L \in Nat, L = Len(says), DOMAIN says = 1 .. L,
           NEW cells, cells = BestsatCells(says)
    PROVE  IsBestsat(cells, says, L)
<1> DEFINE ss == [i \in 1 .. L |-> BestsatBlock(says[i])]
           T == {Cell(4, L)} \cup {BestsatBlock(says[i])[j] : i \in 1 .. L, j \in 1 .. 4}
           head == <<Cell(4, L)>>
           rest == FlattenSeq(ss)
<1>1. cells = head \o rest BY DEF BestsatCells, BestsatBlock, Raw
<1>2. \A s : \A j \in 1 .. 4 : BestsatBlock(s)[j].width = 4 BY DEF BestsatBlock, Cell, Named
<1>3. ASSUME NEW i \in 1 .. L PROVE ss[i] \in Seq(T) /\ Len(ss[i]) = 4
  <2>1. PICK b : b = BestsatBlock(says[i]) OBVIOUS
  <2>2. b = [j \in 1 .. 4 |-> b[j]] BY <2>1 DEF BestsatBlock
  <2>3. \A j \in 1 .. 4 : b[j] \in T BY <2>1
  <2>4. ss[i] = b BY <2>1
  <2> HIDE DEF T, ss
  <2>5. PICK n \in Nat : n = 4 OBVIOUS
  <2>6. PICK f \in [1 .. n -> T] : f = b BY <2>2, <2>3, <2>5
  <2>7. f \in Seq(T) /\ Len(f) = n BY FunctionIsSeq
  <2>8. QED BY <2>4, <2>5, <2>6, <2>7
<1>4. \A c \in T : c.width = 4 BY <1>2 DEF Cell
<1>5. head \in Seq(T) /\ Len(head) = 1 /\ head[1] = Cell(4, L) OBVIOUS
<1>6. ss \in [1 .. L -> Seq(T)] BY <1>3
<1>7. \A i \in 1 .. L : ss[i] = BestsatBlock(says[i]) OBVIOUS
<1> HIDE DEF T, ss, head
<1>8. \E at : Stacked(rest, at, ss, L, T) BY <1>6, FlattenIs
<1> HIDE DEF rest
<1>9. PICK at : Stacked(rest, at, ss, L, T) BY <1>8
<1>10. /\ at[1] = 0 /\ \A i \in 1 .. L : at[i + 1] = at[i] + Len(ss[i])
       /\ rest \in Seq(T) /\ Len(rest) = at[L + 1]
       /\ \A i \in 1 .. L : \A j \in 1 .. Len(ss[i]) : rest[at[i] + j] = ss[i][j]
  BY <1>9 DEF Stacked
<1> DEFINE bad == {i \in 1 .. L + 1 : at[i] # 4 * (i - 1)}
<1>11. bad = {}
  <2>1. SUFFICES ASSUME bad # {} PROVE FALSE OBVIOUS
  <2>2. PICK j \in bad : \A y \in bad : j <= y
    <3>1. bad \in SUBSET Nat OBVIOUS
    <3> HIDE DEF bad
    <3>2. QED BY <2>1, <3>1, LeastNat
  <2>3. j \in 1 .. L + 1 /\ at[j] # 4 * (j - 1) OBVIOUS
  <2>4. j # 1 BY <1>10, <2>3
  <2>5. PICK k \in 1 .. L : j = k + 1
    <3>1. j - 1 \in 1 .. L BY <2>3, <2>4
    <3>2. QED BY <2>3, <3>1
  <2>6. at[k] = 4 * (k - 1)
    <3>1. k \in 1 .. L + 1 /\ ~ (j <= k) BY <2>5
    <3>2. QED BY <2>2, <3>1
  <2>7. at[j] = at[k] + 4 BY <1>3, <1>10, <2>5
  <2>8. QED BY <2>3, <2>5, <2>6, <2>7
<1>12. \A i \in 1 .. L + 1 : at[i] = 4 * (i - 1) BY <1>11
<1>13. PICK s \in Seq(T), t \in Seq(T) : s = head /\ t = rest BY <1>5, <1>10
<1>14. Len(s) = 1 /\ Len(t) = 4 * L
  <2>1. L + 1 \in 1 .. L + 1 OBVIOUS
  <2>2. at[L + 1] = 4 * L BY <1>12, <2>1
  <2>3. Len(s) = 1 BY <1>5, <1>13, Zenon
  <2>4. Len(t) = 4 * L BY <1>10, <1>13, <2>2
  <2>5. QED BY <2>3, <2>4
<1>15. /\ s \o t \in Seq(T) /\ Len(s \o t) = Len(s) + Len(t)
       /\ \A i \in 1 .. Len(s) : (s \o t)[i] = s[i]
       /\ \A i \in 1 .. Len(t) : (s \o t)[Len(s) + i] = t[i]
  BY ConcatParts
<1>16. PICK c \in Seq(T) : c = cells /\ c = s \o t BY <1>1, <1>13, <1>15
<1>17. Len(c) = 1 + 4 * L BY <1>14, <1>15, <1>16
<1>18. c[1] = Cell(4, L)
  <2>1. 1 \in 1 .. Len(s) BY <1>14
  <2>2. (s \o t)[1] = s[1] BY <1>15, <2>1
  <2>3. QED BY <1>5, <1>13, <1>16, <2>2
<1>19. \A i \in 1 .. 1 + 4 * L : c[i].width = 4 BY <1>4, <1>17
<1>20. ASSUME NEW i \in 1 .. L, NEW j \in 1 .. 4
       PROVE  c[4 * i - 3 + j] = BestsatBlock(says[i])[j]
  <2>1. at[i] = 4 * (i - 1) BY <1>12
  <2>2. t[at[i] + j] = BestsatBlock(says[i])[j]
    <3>1. j \in 1 .. Len(ss[i]) BY <1>3
    <3>2. rest[at[i] + j] = ss[i][j] BY <1>10, <3>1
    <3>3. QED BY <1>7, <1>13, <3>2
  <2>3. PICK x \in 1 .. Len(t) : x = at[i] + j BY <1>14, <2>1
  <2>4. 4 * i - 3 + j = Len(s) + x BY <1>14, <2>1, <2>3
  <2>5. QED BY <1>15, <1>16, <2>2, <2>3, <2>4
<1>21. QED BY ZenonT(30), <1>16, <1>17, <1>18, <1>19, <1>20 DEF IsBestsat

\* The channel survives two's complement.
LEMMA SatelliteId ==
    ASSUME NEW system, NEW id, NEW channel, channel \in Int16, system # 1 => channel = 0
    PROVE  bestsat_satellite_id(system, Raw(channel, id)) = <<id, channel>>
<1>1. channel \in Int /\ -32768 <= channel /\ channel <= 32767 BY DEF Int16
<1> DEFINE ch == channel
<1>2. PICK raw \in Int : raw = ch % 65536 BY <1>1, SMT
<1>3. raw = IF ch < 0 THEN ch + 65536 ELSE ch BY <1>1, <1>2, SMT
<1>4. (IF raw >= 32768 THEN raw - 65536 ELSE raw) = ch BY <1>1, <1>2, <1>3, SMT
<1>5. bestsat_satellite_id(system, Raw(channel, id))
         = <<id, IF system # 1 THEN 0 ELSE IF raw >= 32768 THEN raw - 65536 ELSE raw>>
  BY <1>2, SMT DEF bestsat_satellite_id, Raw
<1>6. CASE system = 1 BY <1>1, <1>2, <1>4, <1>5, <1>6, SMT
<1>7. CASE system # 1 BY <1>1, <1>2, <1>5, <1>7, SMT
<1>8. QED BY <1>6, <1>7

\* The two parsers name a satellite system alike.
LEMMA SystemNames ==
    ASSUME NEW system \in DOMAIN SystemName
    PROVE  bestsat_constellation_name_from_system_id(system)
              = normalize_constellation_name(SystemName[system])
<1>1. system \in {0, 1, 2, 5, 6, 7, 9} BY DEF SystemName
<1>2. /\ SystemName[0] = "GPS" /\ SystemName[1] = "GLONASS" /\ SystemName[2] = "SBAS"
      /\ SystemName[5] = "GALILEO" /\ SystemName[6] = "BEIDOU" /\ SystemName[7] = "QZSS"
      /\ SystemName[9] = "NAVIC"
  BY DEF SystemName
<1>3. QED BY <1>1, <1>2 DEF bestsat_constellation_name_from_system_id,
                            normalize_constellation_name

\* What a satellite is known by.
BestsatTold(s) ==
    [constellation |-> normalize_constellation_name(SystemName[s.system]),
     id |-> <<s.id, s.channel>>, mask |-> s.mask]

\* Its four cells tell a satellite the same way in a line and in a frame.
LEMMA BestsatBlockTells ==
    ASSUME NEW s \in BestsatSatellite, NEW b, b = BestsatBlock(s)
    PROVE  /\ [constellation |-> normalize_constellation_name(b[1].text[2]),
               id |-> b[2].text[2], mask |-> b[4].text[2]] = BestsatTold(s)
           /\ IsNumber(b[4].text) /\ \A j \in 1 .. 3 : ~ IsNumber(b[j].text)
           /\ [constellation |-> bestsat_constellation_name_from_system_id(b[1].value),
               id |-> bestsat_satellite_id(b[1].value, b[2].value),
               mask |-> b[4].value] = BestsatTold(s)
<1>1. /\ s \in [system : DOMAIN SystemName, id : Int, channel : Int16, mask : Int]
      /\ s.system # 1 => s.channel = 0
  BY Zenon DEF BestsatSatellite
<1>2. s.system \in DOMAIN SystemName /\ s.channel \in Int16 BY <1>1, Zenon
<1>3. PICK raw : raw = Raw(s.channel, s.id) OBVIOUS
<1>4. bestsat_satellite_id(s.system, raw) = <<s.id, s.channel>>
  BY <1>1, <1>2, <1>3, SatelliteId
<1>5. bestsat_constellation_name_from_system_id(s.system)
         = normalize_constellation_name(SystemName[s.system])
  BY <1>2, SystemNames
<1>6. /\ b[1].text = Text(SystemName[s.system]) /\ b[2].text = Text(<<s.id, s.channel>>)
      /\ b[3].text = Text("GOOD") /\ b[4].text = Number(s.mask)
      /\ b[1].value = s.system /\ b[2].value = raw /\ b[4].value = s.mask
  BY <1>3 DEF BestsatBlock, Named, Cell
<1>7. \A t : Text(t)[2] = t /\ ~ IsNumber(Text(t)) BY DEF Text, IsNumber
<1>8. Number(s.mask)[2] = s.mask /\ IsNumber(Number(s.mask)) BY DEF Number, IsNumber
<1>9. \A j \in 1 .. 3 : ~ IsNumber(b[j].text) BY <1>6, <1>7
<1>10. [constellation |-> normalize_constellation_name(b[1].text[2]),
        id |-> b[2].text[2], mask |-> b[4].text[2]] = BestsatTold(s)
  BY <1>6, <1>7, <1>8 DEF BestsatTold
<1>11. [constellation |-> bestsat_constellation_name_from_system_id(b[1].value),
        id |-> bestsat_satellite_id(b[1].value, b[2].value), mask |-> b[4].value]
           = BestsatTold(s)
  BY <1>4, <1>5, <1>6 DEF BestsatTold
<1>12. QED BY <1>6, <1>8, <1>9, <1>10, <1>11

\* parse_bestsatb understands the frame of any satellites, cut anywhere.
LEMMA BestsatFrame ==
    ASSUME NEW says \in Seq(BestsatSatellite), NEW cells, cells = BestsatCells(says),
           NEW n \in 0 .. Len(cells), None \notin Int,
           NEW told, told = [satellites |-> ToldSatellites(says)], None # told
    PROVE  Understood(parse_bestsatb(Payload(cells, n)), told, n = Len(cells))
<1>1. PICK L \in Nat : L = Len(says) /\ DOMAIN says = 1 .. L OBVIOUS
<1>2. /\ Len(cells) = 1 + 4 * L /\ cells[1] = Cell(4, L)
      /\ \A i \in 1 .. 1 + 4 * L : cells[i].width = 4
      /\ \A i \in 1 .. L : \A j \in 1 .. 4 : cells[4 * i - 3 + j] = BestsatBlock(says[i])[j]
  <2>1. IsBestsat(cells, says, L) BY <1>1, BestsatCellsAre
  <2>2. QED BY <2>1 DEF IsBestsat
<1>3. PICK m \in Nat : m = 1 + 4 * L /\ m = Len(cells) BY <1>2
<1>4. AreCells(cells, m) BY <1>2, <1>3 DEF AreCells
<1>5. PICK k \in Nat : k = n /\ k <= m BY <1>3
<1>6. PICK payload : payload = Payload(cells, k) OBVIOUS
<1>7. PICK got : got = parse_bestsatb(payload) OBVIOUS
<1> DEFINE whole == n = Len(cells)
<1> whole \in BOOLEAN OBVIOUS
<1> HIDE DEF whole
<1>8. \A i \in 1 .. m + 1 : Offset(cells, i) = 4 * (i - 1)
  <2>1. PICK a \in 1 .. m + 1, b \in 1 .. m + 1, w \in Nat : a = 1 /\ b = m + 1 /\ w = 4
    BY <1>3
  <2>2. AsWide(cells, m, a, b, w) BY <1>2, <1>3, <2>1 DEF AsWide
  <2>3. InStep(cells, m, a, b, w) BY <1>4, <2>2, Spaced
  <2>4. Offset(cells, 1) = 0 BY <1>4, OffsetIs DEF AreCells
  <2>5. QED BY <2>1, <2>3, <2>4 DEF InStep
<1>9. ASSUME NEW x \in 1 .. m
      PROVE  ReadAt(payload, 4 * (x - 1), 4) = IF x <= k THEN cells[x].value ELSE None
  <2>1. ReadAt(payload, Offset(cells, x), cells[x].width) =
           IF x <= k THEN cells[x].value ELSE None
    BY <1>4, <1>5, <1>6, FrameValue
  <2>2. x \in 1 .. m + 1 /\ cells[x].width = 4 BY <1>2, <1>3
  <2>3. QED BY <1>8, <2>1, <2>2
<1>10. payload.size = 4 * k
  <2>1. payload.size = Offset(cells, k + 1) BY <1>6 DEF Payload
  <2>2. k + 1 \in 1 .. m + 1 BY <1>5
  <2>3. QED BY <1>8, <2>1, <2>2
<1>11. ReadAt(payload, 0, 4) = IF 1 <= k THEN L ELSE None
  <2>1. PICK x \in 1 .. m : x = 1 BY <1>3
  <2>2. 4 * (x - 1) = 0 /\ cells[x].value = L BY <1>2, <2>1 DEF Cell
  <2>3. QED BY <1>9, <2>1, <2>2
<1>12. payload.size < 4 + 16 * L <=> k < m BY <1>3, <1>10
<1>13. CASE k = 0
  <2>1. got = None BY <1>7, <1>11, <1>13 DEF parse_bestsatb
  <2>2. ~ whole BY <1>3, <1>5, <1>13 DEF whole
  <2>3. Understood(got, told, whole) BY <2>1, <2>2, AllOrNothing
  <2>4. QED BY <1>5, <1>6, <1>7, <2>3 DEF whole
<1>14. CASE k # 0 /\ k < m
  <2>1. ReadAt(payload, 0, 4) = L BY <1>11, <1>14
  <2>2. got = None BY <1>7, <1>12, <1>14, <2>1 DEF parse_bestsatb
  <2>3. ~ whole BY <1>3, <1>5, <1>14 DEF whole
  <2>4. Understood(got, told, whole) BY <2>2, <2>3, AllOrNothing
  <2>5. QED BY <1>5, <1>6, <1>7, <2>4 DEF whole
<1>15. CASE k = m
  <2>1. ReadAt(payload, 0, 4) = L /\ L # None BY <1>3, <1>11, <1>15
  <2> DEFINE v(i, offset) == ReadAt(payload, 4 + 16 * (i - 1) + offset, 4)
             Entry(i) ==
                [constellation |-> bestsat_constellation_name_from_system_id(v(i, 0)),
                 id |-> bestsat_satellite_id(v(i, 0), v(i, 4)), mask |-> v(i, 12)]
  <2>2. got = [satellites |-> [i \in 1 .. L |-> Entry(i)]]
    <3>1. ~ (payload.size < 4 + 16 * ReadAt(payload, 0, 4)) BY <1>12, <1>15, <2>1
    <3>2. got = [satellites |-> [i \in 1 .. ReadAt(payload, 0, 4) |-> Entry(i)]]
      BY <1>7, <2>1, <3>1, Zenon DEF parse_bestsatb
    <3>3. QED BY <2>1, <3>2, Zenon
  <2>3. ASSUME NEW i \in 1 .. L PROVE Entry(i) = BestsatTold(says[i])
    <3>1. PICK b : b = BestsatBlock(says[i]) OBVIOUS
    <3>2. says[i] \in BestsatSatellite BY <1>1
    <3>3. [constellation |-> bestsat_constellation_name_from_system_id(b[1].value),
           id |-> bestsat_satellite_id(b[1].value, b[2].value), mask |-> b[4].value]
              = BestsatTold(says[i])
      BY <3>1, <3>2, BestsatBlockTells
    <3>4. ASSUME NEW j \in 1 .. 4
          PROVE  ReadAt(payload, 4 + 16 * (i - 1) + 4 * (j - 1), 4) = b[j].value
      <4>1. PICK x \in 1 .. m : x = 4 * i - 3 + j BY <1>3
      <4>2. 4 * (x - 1) = 4 + 16 * (i - 1) + 4 * (j - 1)
        <5>1. i \in Int /\ j \in Int /\ x \in Int OBVIOUS
        <5>2. QED BY <4>1, <5>1
      <4>3. cells[x] = b[j] BY <1>2, <3>1, <4>1
      <4>4. x <= k BY <1>15
      <4>5. QED BY <1>9, <4>2, <4>3, <4>4
    <3>5. v(i, 0) = b[1].value /\ v(i, 4) = b[2].value /\ v(i, 12) = b[4].value
      <4>1. v(i, 0) = b[1].value
        <5>1. PICK j \in 1 .. 4 : j = 1 OBVIOUS
        <5>2. 4 + 16 * (i - 1) + 0 = 4 + 16 * (i - 1) + 4 * (j - 1) BY <5>1
        <5>3. QED BY <3>4, <5>1, <5>2
      <4>2. v(i, 4) = b[2].value
        <5>1. PICK j \in 1 .. 4 : j = 2 OBVIOUS
        <5>2. 4 + 16 * (i - 1) + 4 = 4 + 16 * (i - 1) + 4 * (j - 1) BY <5>1
        <5>3. QED BY <3>4, <5>1, <5>2
      <4>3. v(i, 12) = b[4].value
        <5>1. PICK j \in 1 .. 4 : j = 4 OBVIOUS
        <5>2. 4 + 16 * (i - 1) + 12 = 4 + 16 * (i - 1) + 4 * (j - 1) BY <5>1
        <5>3. QED BY <3>4, <5>1, <5>2
      <4>4. QED BY <4>1, <4>2, <4>3
    <3> HIDE DEF v
    <3>6. QED BY <3>3, <3>5, Zenon
  <2> HIDE DEF Entry
  <2>4. ToldSatellites(says) = [i \in 1 .. L |-> BestsatTold(says[i])]
    BY <1>1 DEF ToldSatellites, BestsatTold
  <2>5. [i \in 1 .. L |-> Entry(i)] = [i \in 1 .. L |-> BestsatTold(says[i])] BY <2>3
  <2>6. got = told BY <2>2, <2>4, <2>5, Zenon
  <2>7. Understood(got, told, whole) BY <2>6, Zenon DEF Understood
  <2>8. QED BY <1>5, <1>6, <1>7, <2>7 DEF whole
<1>16. QED BY <1>5, <1>13, <1>14, <1>15

\* Division by four.
LEMMA Quarters ==
    ASSUME NEW y \in Nat
    PROVE  \E q \in Nat, p \in 0 .. 3 : y = 4 * q + p
<1>1. PICK q \in Nat : q = y \div 4 OBVIOUS
<1>2. PICK p \in 0 .. 3 : p = y % 4 OBVIOUS
<1>3. y = 4 * q + p BY <1>1, <1>2
<1>4. QED BY <1>3

\* A line of a BESTSAT is understood.
LEMMA BestsatLine ==
    ASSUME NEW says \in Seq(BestsatSatellite), NEW cells, cells = BestsatCells(says),
           NEW n \in 0 .. Len(cells), NEW blank \in 0 .. Len(cells),
           blank # 0 => IsNumber(cells[blank].text),
           NEW told, told = [satellites |-> ToldSatellites(says)], None # told
    PROVE  Understood(parse_bestsata(Fields("BESTSAT", cells, n, blank)), told,
                      blank = 0 /\ n = Len(cells))
<1>1. PICK L \in Nat : L = Len(says) /\ DOMAIN says = 1 .. L OBVIOUS
<1>2. /\ Len(cells) = 1 + 4 * L /\ cells[1] = Cell(4, L)
      /\ \A i \in 1 .. 1 + 4 * L : cells[i].width = 4
      /\ \A i \in 1 .. L : \A j \in 1 .. 4 : cells[4 * i - 3 + j] = BestsatBlock(says[i])[j]
  <2>1. IsBestsat(cells, says, L) BY <1>1, BestsatCellsAre
  <2>2. QED BY <2>1 DEF IsBestsat
<1>3. PICK m \in Nat : m = 1 + 4 * L /\ m = Len(cells) BY <1>2
<1>4. PICK k \in Nat, l \in Nat : k = n /\ k <= m /\ l = blank /\ l <= m BY <1>3
<1>5. PICK fields : fields = Fields("BESTSAT", cells, k, l) OBVIOUS
<1>6. PICK got : got = parse_bestsata(fields) OBVIOUS
<1> DEFINE whole == blank = 0 /\ n = Len(cells)
<1> whole \in BOOLEAN OBVIOUS
<1> HIDE DEF whole
<1>7. /\ Len(fields) = 9 + k
      /\ \A x \in 1 .. k : At(fields, 8 + x) = IF x = l THEN Text("") ELSE cells[x].text
  <2>1. FirstField("BESTSAT") = 9 BY DEF FirstField, Nmea
  <2>2. AreFields(fields, 9, cells, k, l) BY <1>5, <2>1, FieldsAre
  <2>3. \A x \in 1 .. k : 9 + x - 1 = 8 + x OBVIOUS
  <2>4. QED BY <2>2, <2>3 DEF AreFields
<1>8. ~ IsNumber(Text("")) BY DEF IsNumber, Text
<1>9. ASSUME got = None, ~ whole PROVE Understood(got, told, whole)
  BY <1>9, AllOrNothing
<1>10. CASE k = 0
  <2>1. Len(fields) <= 9 BY <1>7, <1>10
  <2>2. got = None BY <1>6, <2>1 DEF parse_bestsata
  <2>3. ~ whole BY <1>3, <1>4, <1>10 DEF whole
  <2>4. QED BY <1>4, <1>5, <1>6, <1>9, <2>2, <2>3 DEF whole
<1>11. CASE k # 0 /\ l = 1
  <2>1. ~ IsNumber(At(fields, 9))
    <3>1. PICK x \in 1 .. k : x = 1 BY <1>11
    <3>2. At(fields, 8 + x) = Text("") BY <1>7, <1>11, <3>1
    <3>3. 8 + x = 9 BY <3>1
    <3>4. QED BY <1>8, <3>2, <3>3
  <2>2. got = None BY <1>6, <2>1, Zenon DEF parse_bestsata
  <2>3. ~ whole BY <1>4, <1>11 DEF whole
  <2>4. QED BY <1>4, <1>5, <1>6, <1>9, <2>2, <2>3 DEF whole
<1>12. CASE k # 0 /\ l # 1
  <2>1. At(fields, 9) = Number(L)
    <3>1. PICK x \in 1 .. k : x = 1 BY <1>12
    <3>2. At(fields, 8 + x) = cells[x].text BY <1>7, <1>12, <3>1
    <3>3. 8 + x = 9 /\ cells[x].text = Number(L) BY <1>2, <3>1 DEF Cell
    <3>4. QED BY <3>2, <3>3
  <2>2. IsNumber(At(fields, 9)) /\ At(fields, 9)[2] = L BY <2>1 DEF IsNumber, Number
  <2>3. ~ (Len(fields) <= 9) /\ ~ (L < 0) /\ (Len(fields) < 10 + 4 * L <=> k < m)
    <3>1. PICK size : size = Len(fields) OBVIOUS
    <3>2. size = 9 + k BY <1>7, <3>1
    <3>3. ~ (size <= 9) /\ ~ (L < 0) /\ (size < 10 + 4 * L <=> k < m) BY <1>3, <1>12, <3>2
    <3>4. QED BY <3>1, <3>3
  <2>4. Len(fields) < 10 + 4 * L <=> k < m BY <2>3
  <2>5. CASE k < m
    <3>1. got = None BY <1>6, <2>2, <2>3, <2>4, <2>5 DEF parse_bestsata
    <3>2. ~ whole BY <1>3, <1>4, <2>5 DEF whole
    <3>3. QED BY <1>4, <1>5, <1>6, <1>9, <3>1, <3>2 DEF whole
  <2>6. CASE k = m
    <3> DEFINE f(i, j) == At(fields, 10 + 4 * (i - 1) + j)
               first(i) == At(fields, 10 + 4 * (i - 1))
               Entry(i) == [constellation |-> normalize_constellation_name(first(i)[2]),
                            id |-> f(i, 1)[2], mask |-> f(i, 3)[2]]
    <3>1. got = IF \E i \in 1 .. L : ~ IsNumber(f(i, 3)) THEN None
                ELSE [satellites |-> [i \in 1 .. L |-> Entry(i)]]
      <4>1. ~ (At(fields, 9)[2] < 0) /\ ~ (Len(fields) < 10 + 4 * At(fields, 9)[2])
        BY <2>2, <2>3, <2>6
      <4>2. got = IF \E i \in 1 .. At(fields, 9)[2] : ~ IsNumber(f(i, 3)) THEN None
                  ELSE [satellites |-> [i \in 1 .. At(fields, 9)[2] |-> Entry(i)]]
        BY <1>6, <2>2, <2>3, <4>1, Zenon DEF parse_bestsata
      <4>3. QED BY <2>2, <4>2, Zenon
    <3>2. ASSUME NEW i \in 1 .. L, NEW j \in 1 .. 4
          PROVE  \E x \in 1 .. m :
                    /\ x = 4 * i - 3 + j
                    /\ f(i, j - 1) = IF x = l THEN Text("")
                                     ELSE BestsatBlock(says[i])[j].text
                    /\ cells[x] = BestsatBlock(says[i])[j]
      <4>1. PICK x \in 1 .. m : x = 4 * i - 3 + j BY <1>3
      <4>2. 8 + x = 10 + 4 * (i - 1) + (j - 1) BY <4>1
      <4>3. cells[x] = BestsatBlock(says[i])[j] BY <1>2, <4>1
      <4>4. At(fields, 8 + x) = IF x = l THEN Text("") ELSE cells[x].text BY <1>7, <2>6
      <4>5. QED BY <4>1, <4>2, <4>3, <4>4
    <3>3. ASSUME NEW i \in 1 .. L
          PROVE  LET b == BestsatBlock(says[i])
                 IN  /\ IsNumber(b[4].text) /\ \A j \in 1 .. 3 : ~ IsNumber(b[j].text)
                     /\ [constellation |-> normalize_constellation_name(b[1].text[2]),
                         id |-> b[2].text[2], mask |-> b[4].text[2]] = BestsatTold(says[i])
      <4>1. says[i] \in BestsatSatellite BY <1>1
      <4>2. QED BY <4>1, BestsatBlockTells
    <3> HIDE DEF f
\* A blank mask.
    <3>4. CASE l # 0
      <4>1. PICK i \in 1 .. L, j \in 1 .. 4 : l = 4 * i - 3 + j
        <5>1. PICK y \in Nat : l = y + 2 BY <1>4, <2>6, <1>12, <3>4
        <5>2. PICK q \in Nat, p \in 0 .. 3 : y = 4 * q + p BY Quarters
        <5>3. q + 1 \in 1 .. L /\ p + 1 \in 1 .. 4 /\ l = 4 * (q + 1) - 3 + (p + 1)
          BY <1>3, <1>4, <5>1, <5>2
        <5>4. QED BY <5>3
      <4>2. cells[l] = BestsatBlock(says[i])[j] BY <3>2, <4>1
      <4>3. IsNumber(BestsatBlock(says[i])[j].text) BY <1>4, <3>4, <4>2
      <4>4. j = 4
        <5>1. \A p \in 1 .. 3 : ~ IsNumber(BestsatBlock(says[i])[p].text) BY <3>3
        <5>2. j \notin 1 .. 3 BY <4>3, <5>1
        <5>3. QED BY <5>2
      <4>5. f(i, 3) = Text("")
        <5>1. f(i, j - 1) = Text("") BY <3>2, <4>1
        <5>2. j - 1 = 3 BY <4>4
        <5>3. QED BY <5>1, <5>2
      <4>6. got = None BY <1>8, <3>1, <4>5
      <4>7. ~ whole BY <1>4, <3>4 DEF whole
      <4>8. QED BY <1>4, <1>5, <1>6, <1>9, <4>6, <4>7 DEF whole
    <3>5. CASE l = 0
      <4>1. ASSUME NEW i \in 1 .. L
            PROVE  /\ first(i) = BestsatBlock(says[i])[1].text
                   /\ f(i, 1) = BestsatBlock(says[i])[2].text
                   /\ f(i, 3) = BestsatBlock(says[i])[4].text
        <5>1. ASSUME NEW j \in 1 .. 4 PROVE f(i, j - 1) = BestsatBlock(says[i])[j].text
          <6>1. PICK x \in 1 .. m :
                   f(i, j - 1) = IF x = l THEN Text("") ELSE BestsatBlock(says[i])[j].text
            BY <3>2
          <6>2. x # l BY <3>5
          <6>3. QED BY <6>1, <6>2
        <5>2. PICK a \in 1 .. 4, b \in 1 .. 4, c \in 1 .. 4 : a = 1 /\ b = 2 /\ c = 4
          OBVIOUS
        <5>3. a - 1 = 0 /\ b - 1 = 1 /\ c - 1 = 3 BY <5>2
        <5>4. f(i, 0) = first(i) BY DEF f
        <5>5. QED BY <5>1, <5>2, <5>3, <5>4
      <4>2. \A i \in 1 .. L : Entry(i) = BestsatTold(says[i]) /\ IsNumber(f(i, 3))
        BY <3>3, <4>1
      <4> HIDE DEF Entry
      <4>3. got = [satellites |-> [i \in 1 .. L |-> BestsatTold(says[i])]] BY <3>1, <4>2
      <4>4. ToldSatellites(says) = [i \in 1 .. L |-> BestsatTold(says[i])]
        BY <1>1 DEF ToldSatellites, BestsatTold
      <4>5. got = told BY <4>3, <4>4, Zenon
      <4>6. Understood(got, told, whole) BY <4>5, Zenon DEF Understood
      <4>7. QED BY <1>4, <1>5, <1>6, <4>6 DEF whole
    <3>6. QED BY <3>4, <3>5
  <2>7. QED BY <1>4, <2>5, <2>6
<1>13. QED BY <1>10, <1>11, <1>12

-----------------------------------------------------------------------------
(* SATSINFO *)

\* Pieces of four.
InFours(whole, ss, n, T) ==
    /\ whole \in Seq(T) /\ Len(whole) = 4 * n
    /\ \A i \in 1 .. n : \A j \in 1 .. 4 : whole[4 * (i - 1) + j] = ss[i][j]

\* Sequences of four, one behind the other, are in fours.
LEMMA FlattenFours ==
    ASSUME NEW T, NEW n \in Nat, NEW ss \in [1 .. n -> Seq(T)],
           \A i \in 1 .. n : Len(ss[i]) = 4
    PROVE  InFours(FlattenSeq(ss), ss, n, T)
<1>1. \E at : Stacked(FlattenSeq(ss), at, ss, n, T) BY FlattenIs
<1>2. PICK whole : whole = FlattenSeq(ss) OBVIOUS
<1>3. PICK at : Stacked(whole, at, ss, n, T) BY <1>1, <1>2
<1>4. /\ at[1] = 0 /\ \A i \in 1 .. n : at[i + 1] = at[i] + Len(ss[i])
      /\ whole \in Seq(T) /\ Len(whole) = at[n + 1]
      /\ \A i \in 1 .. n : \A j \in 1 .. Len(ss[i]) : whole[at[i] + j] = ss[i][j]
  BY <1>3 DEF Stacked
<1> DEFINE bad == {i \in 1 .. n + 1 : at[i] # 4 * (i - 1)}
<1>5. bad = {}
  <2>1. SUFFICES ASSUME bad # {} PROVE FALSE OBVIOUS
  <2>2. PICK j \in bad : \A y \in bad : j <= y
    <3>1. bad \in SUBSET Nat OBVIOUS
    <3> HIDE DEF bad
    <3>2. QED BY <2>1, <3>1, LeastNat
  <2>3. j \in 1 .. n + 1 /\ at[j] # 4 * (j - 1) OBVIOUS
  <2>4. j # 1 BY <1>4, <2>3
  <2>5. PICK k \in 1 .. n : j = k + 1
    <3>1. j - 1 \in 1 .. n BY <2>3, <2>4
    <3>2. QED BY <2>3, <3>1
  <2>6. at[k] = 4 * (k - 1)
    <3>1. k \in 1 .. n + 1 /\ ~ (j <= k) BY <2>5
    <3>2. QED BY <2>2, <3>1
  <2>7. at[j] = at[k] + 4 BY <1>4, <2>5
  <2>8. QED BY <2>3, <2>5, <2>6, <2>7
<1>6. \A i \in 1 .. n + 1 : at[i] = 4 * (i - 1) BY <1>5
<1>7. Len(whole) = 4 * n
  <2>1. n + 1 \in 1 .. n + 1 OBVIOUS
  <2>2. QED BY <1>4, <1>6, <2>1
<1>8. ASSUME NEW i \in 1 .. n, NEW j \in 1 .. 4 PROVE whole[4 * (i - 1) + j] = ss[i][j]
  <2>1. at[i] = 4 * (i - 1) BY <1>6
  <2>2. j \in 1 .. Len(ss[i]) OBVIOUS
  <2>3. whole[at[i] + j] = ss[i][j] BY <1>4, <2>2
  <2>4. QED BY <2>1, <2>3
<1>9. QED BY <1>2, <1>4, <1>7, <1>8 DEF InFours

\* The cells of one satellite of a SATSINFO.
SignalBlock(s, j) ==
    <<Cell(1, s.signals[j].system), Cell(1, s.signals[j].cn0), Cell(1, s.signals[j].frequency),
      Cell(1, Len(s.signals))>>

SatsinfoBlock(s) ==
    <<Cell(1, s.prn), Cell(2, s.azimuth), Cell(1, s.elevation)>>
    \o FlattenSeq([j \in DOMAIN s.signals |-> SignalBlock(s, j)])

IntCells == {Cell(w, v) : w \in {1, 2}, v \in Int}

IsSatsinfoBlock(b, s, K) ==
    /\ b \in Seq(IntCells) /\ Len(b) = 3 + 4 * K
    /\ b[1] = Cell(1, s.prn) /\ b[2] = Cell(2, s.azimuth) /\ b[3] = Cell(1, s.elevation)
    /\ \A j \in 1 .. K : \A p \in 1 .. 4 : b[3 + 4 * (j - 1) + p] = SignalBlock(s, j)[p]

\* A satellite, and how many signals it has.
IsSatellite(s, K) ==
    /\ K \in Nat \ {0} /\ Len(s.signals) = K /\ DOMAIN s.signals = 1 .. K
    /\ s.prn \in Int /\ s.azimuth \in Int /\ s.elevation \in Int
    /\ \A j \in 1 .. K : /\ s.signals[j].system \in Int /\ s.signals[j].cn0 \in Int
                         /\ s.signals[j].frequency \in Int

\* The cells of a satellite: three, and four per signal.
LEMMA SatsinfoBlockIs ==
    ASSUME NEW s, NEW K, IsSatellite(s, K)
    PROVE  IsSatsinfoBlock(SatsinfoBlock(s), s, K)
<1> K \in Nat BY DEF IsSatellite
<1> DEFINE ss == [j \in 1 .. K |-> SignalBlock(s, j)]
           head == <<Cell(1, s.prn), Cell(2, s.azimuth), Cell(1, s.elevation)>>
           rest == FlattenSeq(ss)
           b == SatsinfoBlock(s)
<1>1. b = head \o rest BY DEF SatsinfoBlock, IsSatellite
<1>2. \A w \in {1, 2}, v \in Int : Cell(w, v) \in IntCells BY DEF IntCells
<1>3. ASSUME NEW j \in 1 .. K PROVE ss[j] \in Seq(IntCells) /\ Len(ss[j]) = 4
  <2>1. PICK c : c = SignalBlock(s, j) OBVIOUS
  <2>2. c = [p \in 1 .. 4 |-> c[p]] BY <2>1 DEF SignalBlock
  <2>3. \A p \in 1 .. 4 : c[p] \in IntCells BY SMTT(30), <1>2, <2>1 DEF SignalBlock, IsSatellite
  <2>4. ss[j] = c BY <2>1
  <2> HIDE DEF ss
  <2>5. PICK n \in Nat : n = 4 OBVIOUS
  <2>6. PICK f \in [1 .. n -> IntCells] : f = c BY <2>2, <2>3, <2>5
  <2>7. f \in Seq(IntCells) /\ Len(f) = n BY FunctionIsSeq
  <2>8. QED BY <2>4, <2>5, <2>6, <2>7
<1>4. ss \in [1 .. K -> Seq(IntCells)] BY <1>3
<1>5. \A j \in 1 .. K : ss[j] = SignalBlock(s, j) OBVIOUS
<1>6. head \in Seq(IntCells) /\ Len(head) = 3
  <2>1. s.prn \in Int /\ s.azimuth \in Int /\ s.elevation \in Int BY DEF IsSatellite
  <2>2. QED BY <1>2, <2>1
<1>7. head[1] = Cell(1, s.prn) /\ head[2] = Cell(2, s.azimuth) /\ head[3] = Cell(1, s.elevation)
  OBVIOUS
<1> HIDE DEF ss, head
<1>8. \A j \in 1 .. K : Len(ss[j]) = 4 BY <1>3
<1>9. InFours(rest, ss, K, IntCells) BY <1>4, <1>8, FlattenFours
<1> HIDE DEF rest, b
<1>10. /\ rest \in Seq(IntCells) /\ Len(rest) = 4 * K
       /\ \A i \in 1 .. K : \A j \in 1 .. 4 : rest[4 * (i - 1) + j] = ss[i][j]
  BY <1>9 DEF InFours
<1>11. PICK h \in Seq(IntCells), t \in Seq(IntCells) : h = head /\ t = rest BY <1>6, <1>10
<1>12. Len(h) = 3 /\ Len(t) = 4 * K BY <1>6, <1>10, <1>11, Zenon
<1>13. /\ h \o t \in Seq(IntCells) /\ Len(h \o t) = Len(h) + Len(t)
       /\ \A i \in 1 .. Len(h) : (h \o t)[i] = h[i]
       /\ \A i \in 1 .. Len(t) : (h \o t)[Len(h) + i] = t[i]
  BY ConcatParts
<1>14. PICK c \in Seq(IntCells) : c = b /\ c = h \o t BY <1>1, <1>11, <1>13
<1>15. Len(c) = 3 + 4 * K BY <1>12, <1>13, <1>14
<1>16. \A i \in 1 .. 3 : c[i] = head[i] BY <1>11, <1>12, <1>13, <1>14
<1>17. ASSUME NEW j \in 1 .. K, NEW p \in 1 .. 4
       PROVE  c[3 + 4 * (j - 1) + p] = SignalBlock(s, j)[p]
  <2>1. t[4 * (j - 1) + p] = SignalBlock(s, j)[p] BY <1>5, <1>10, <1>11
  <2>2. PICK x \in 1 .. Len(t) : x = 4 * (j - 1) + p BY <1>12
  <2>3. c[Len(h) + x] = t[x] BY <1>13, <1>14
  <2>4. 3 + 4 * (j - 1) + p = Len(h) + x BY <1>12, <2>2
  <2>5. QED BY <2>1, <2>2, <2>3, <2>4
<1>18. c[1] = head[1] /\ c[2] = head[2] /\ c[3] = head[3] BY <1>16
<1>19. IsSatsinfoBlock(c, s, K) BY Zenon, <1>7, <1>15, <1>17, <1>18 DEF IsSatsinfoBlock
<1>20. QED BY <1>14, <1>19 DEF b

\* Where the cells of each satellite are.
IsSatsinfo(cells, says, L, K, base) ==
    /\ cells \in Seq(IntCells)
    /\ base \in [1 .. L + 1 -> Nat] /\ base[1] = 6 /\ Len(cells) = base[L + 1]
    /\ \A i \in 1 .. L : IsSatellite(says[i], K[i]) /\ base[i + 1] = base[i] + 3 + 4 * K[i]
    /\ \A i \in 1 .. L + 1 : 6 <= base[i] /\ base[i] <= base[L + 1]
    /\ cells[1] = Cell(1, L) /\ cells[2] = Cell(1, 2) /\ cells[6] = Cell(1, 63)
    /\ \A x \in 1 .. 6 : cells[x].width = 1
    /\ \A i \in 1 .. L :
          /\ cells[base[i] + 1] = Cell(1, says[i].prn)
          /\ cells[base[i] + 2] = Cell(2, says[i].azimuth)
          /\ cells[base[i] + 3] = Cell(1, says[i].elevation)
          /\ \A j \in 1 .. K[i] : \A p \in 1 .. 4 :
                cells[base[i] + 3 + 4 * (j - 1) + p] = SignalBlock(says[i], j)[p]

\* The cells of a SATSINFO: six, and those of each satellite from its base on.
LEMMA SatsinfoCellsAre ==
    ASSUME NEW says, NEW L \in Nat, L = Len(says), DOMAIN says = 1 .. L,
           NEW K, \A i \in 1 .. L : IsSatellite(says[i], K[i]),
           NEW cells, cells = SatsinfoCells(says)
    PROVE  \E base : IsSatsinfo(cells, says, L, K, base)
<1> DEFINE ss == [i \in 1 .. L |-> SatsinfoBlock(says[i])]
           head == <<Cell(1, L), Cell(1, 2), Cell(1, 0), Cell(1, 0), Cell(1, 0), Cell(1, 63)>>
           rest == FlattenSeq(ss)
<1>1. cells = head \o rest BY Zenon DEF SatsinfoCells, SatsinfoBlock, SignalBlock
<1>2. \A w \in {1, 2}, v \in Int : Cell(w, v) \in IntCells BY DEF IntCells
<1>3. ASSUME NEW i \in 1 .. L PROVE IsSatsinfoBlock(ss[i], says[i], K[i])
  <2>1. IsSatsinfoBlock(SatsinfoBlock(says[i]), says[i], K[i]) BY SatsinfoBlockIs
  <2>2. QED BY <2>1
<1>4. ss \in [1 .. L -> Seq(IntCells)] BY <1>3 DEF IsSatsinfoBlock
<1>5. head \in Seq(IntCells) /\ Len(head) = 6 BY <1>2
<1>6. /\ head[1] = Cell(1, L) /\ head[2] = Cell(1, 2) /\ head[6] = Cell(1, 63)
      /\ \A x \in 1 .. 6 : head[x].width = 1
  BY DEF Cell
<1> HIDE DEF ss, head
<1>7. \E at : Stacked(rest, at, ss, L, IntCells) BY <1>4, FlattenIs
<1> HIDE DEF rest
<1>8. PICK at : Stacked(rest, at, ss, L, IntCells) BY <1>7
<1>9. /\ at \in [1 .. L + 1 -> Nat] /\ at[1] = 0
      /\ \A i \in 1 .. L : at[i + 1] = at[i] + Len(ss[i])
      /\ rest \in Seq(IntCells) /\ Len(rest) = at[L + 1]
      /\ \A i \in 1 .. L : \A j \in 1 .. Len(ss[i]) : rest[at[i] + j] = ss[i][j]
  BY <1>8 DEF Stacked
<1> \A i \in 1 .. L + 1 : at[i] \in Nat BY <1>9
<1>10. \A i \in 1 .. L : K[i] \in Nat \ {0} /\ Len(ss[i]) = 3 + 4 * K[i]
  BY <1>3 DEF IsSatsinfoBlock, IsSatellite
\* No satellite ends behind the last.
<1> DEFINE late == {d \in 0 .. L : ~ (at[L + 1 - d] <= at[L + 1])}
<1>11. late = {}
  <2>1. SUFFICES ASSUME late # {} PROVE FALSE OBVIOUS
  <2>2. PICK d \in late : \A y \in late : d <= y
    <3>1. late \in SUBSET Nat OBVIOUS
    <3> HIDE DEF late
    <3>2. QED BY <2>1, <3>1, LeastNat
  <2>3. d \in 0 .. L /\ ~ (at[L + 1 - d] <= at[L + 1]) OBVIOUS
  <2>4. d # 0
    <3>1. at[L + 1] \in Nat BY <1>9
    <3>2. QED BY <2>3, <3>1
  <2>5. PICK i \in 1 .. L : i = L + 1 - d BY <2>3, <2>4
  <2>6. at[i + 1] <= at[L + 1]
    <3>1. d - 1 \in 0 .. L /\ ~ (d <= d - 1) /\ L + 1 - (d - 1) = i + 1 BY <2>3, <2>4, <2>5
    <3>2. d - 1 \notin late BY <2>2, <3>1
    <3>3. QED BY <3>1, <3>2
  <2>7. at[i] \in Nat /\ at[i + 1] \in Nat /\ at[L + 1] \in Nat BY <1>9
  <2>8. at[i + 1] = at[i] + (3 + 4 * K[i]) BY <1>9, <1>10, <2>7
  <2>9. PICK a \in Nat, b \in Nat, z \in Nat, k \in Nat :
           a = at[i] /\ b = at[i + 1] /\ z = at[L + 1] /\ k = K[i]
    BY <1>10, <2>7
  <2>10. b = a + (3 + 4 * k) /\ b <= z BY <2>6, <2>8, <2>9, Zenon
  <2>11. a <= z BY <2>10
  <2>12. QED BY <2>3, <2>5, <2>9, <2>11
<1>12. ASSUME NEW i \in 1 .. L + 1 PROVE at[i] <= at[L + 1]
  <2>1. L + 1 - i \in 0 .. L /\ L + 1 - (L + 1 - i) = i OBVIOUS
  <2>2. QED BY <1>11, <2>1
<1> DEFINE base == [i \in 1 .. L + 1 |-> 6 + at[i]]
<1>13. PICK h \in Seq(IntCells), t \in Seq(IntCells) : h = head /\ t = rest BY <1>5, <1>9
<1>14. Len(h) = 6 /\ Len(t) = at[L + 1] BY <1>5, <1>9, <1>13, Zenon
<1>15. /\ h \o t \in Seq(IntCells) /\ Len(h \o t) = Len(h) + Len(t)
       /\ \A i \in 1 .. Len(h) : (h \o t)[i] = h[i]
       /\ \A i \in 1 .. Len(t) : (h \o t)[Len(h) + i] = t[i]
  BY ConcatParts
<1>16. PICK c \in Seq(IntCells) : c = cells /\ c = h \o t BY <1>1, <1>13, <1>15
<1>17. base \in [1 .. L + 1 -> Nat] /\ base[1] = 6 BY <1>9
<1>18. Len(c) = base[L + 1] BY <1>9, <1>14, <1>15, <1>16
<1>19. ASSUME NEW i \in 1 .. L PROVE base[i + 1] = base[i] + 3 + 4 * K[i]
  <2>1. i \in 1 .. L + 1 /\ i + 1 \in 1 .. L + 1 OBVIOUS
  <2>2. at[i] \in Nat /\ at[i + 1] = at[i] + (3 + 4 * K[i]) BY <1>9, <1>10, <2>1
  <2>3. base[i] = 6 + at[i] /\ base[i + 1] = 6 + at[i + 1] BY <2>1
  <2>4. PICK a \in Nat, k \in Nat : a = at[i] /\ k = K[i] BY <1>10, <2>2
  <2>5. at[i + 1] = a + (3 + 4 * k) BY <2>2, <2>4
  <2>6. base[i + 1] = 6 + (a + (3 + 4 * k)) BY <2>3, <2>5
  <2>7. base[i] + 3 + 4 * K[i] = 6 + (a + (3 + 4 * k))
    <3>1. PICK e \in Nat : e = base[i] /\ e = 6 + a BY <2>3, <2>4
    <3>2. e + 3 + 4 * k = 6 + (a + (3 + 4 * k)) BY <3>1
    <3>3. QED BY <2>4, <3>1, <3>2
  <2>8. QED BY <2>6, <2>7
<1>20. ASSUME NEW i \in 1 .. L + 1 PROVE 6 <= base[i] /\ base[i] <= base[L + 1]
  <2>1. L + 1 \in 1 .. L + 1 /\ at[i] \in Nat OBVIOUS
  <2>2. at[L + 1] \in Nat BY <2>1
  <2>3. QED BY <1>12, <2>1, <2>2
<1>21. \A x \in 1 .. 6 : c[x] = head[x] BY <1>13, <1>14, <1>15, <1>16
<1>22. /\ c[1] = Cell(1, L) /\ c[2] = Cell(1, 2) /\ c[6] = Cell(1, 63)
       /\ \A x \in 1 .. 6 : c[x].width = 1
  BY SMTT(30), <1>6, <1>21
<1>23. ASSUME NEW i \in 1 .. L, NEW j \in 1 .. 3 + 4 * K[i] PROVE c[base[i] + j] = ss[i][j]
  <2>1. i \in 1 .. L + 1 /\ i + 1 \in 1 .. L + 1 /\ L + 1 \in 1 .. L + 1 OBVIOUS
  <2>2. at[i + 1] = at[i] + (3 + 4 * K[i]) BY <1>9, <1>10
  <2>3. at[i + 1] <= at[L + 1] BY <1>12, <2>1
  <2>4. PICK x \in 1 .. Len(t) : x = at[i] + j
    <3>1. PICK a \in Nat, z \in Nat, k \in Nat : a = at[i] /\ z = at[L + 1] /\ k = K[i]
      BY <1>10, <2>1
    <3>2. a + (3 + 4 * k) <= z BY <2>2, <2>3, <3>1
    <3>3. j \in 1 .. 3 + 4 * k BY <3>1
    <3>4. a + j \in 1 .. z BY <3>2, <3>3
    <3>5. QED BY <1>14, <3>1, <3>4
  <2>5. t[x] = ss[i][j] BY ZenonT(30), <1>9, <1>10, <1>13, <2>4
  <2>6. c[Len(h) + x] = t[x] BY <1>15, <1>16
  <2>7. base[i] + j = Len(h) + x
    <3>1. base[i] = 6 + at[i] /\ at[i] \in Nat BY <2>1
    <3>2. QED BY SMTT(30), <1>10, <1>14, <2>4, <3>1
  <2>8. QED BY <2>5, <2>6, <2>7
<1> HIDE DEF base
<1>24. ASSUME NEW i \in 1 .. L
       PROVE  /\ c[base[i] + 1] = Cell(1, says[i].prn)
              /\ c[base[i] + 2] = Cell(2, says[i].azimuth)
              /\ c[base[i] + 3] = Cell(1, says[i].elevation)
  <2>1. 1 \in 1 .. 3 + 4 * K[i] /\ 2 \in 1 .. 3 + 4 * K[i] /\ 3 \in 1 .. 3 + 4 * K[i]
    BY <1>10
  <2>2. c[base[i] + 1] = ss[i][1] /\ c[base[i] + 2] = ss[i][2] /\ c[base[i] + 3] = ss[i][3]
    BY <1>23, <2>1
  <2>3. QED BY <1>3, <2>2 DEF IsSatsinfoBlock
<1>25. ASSUME NEW i \in 1 .. L, NEW j \in 1 .. K[i], NEW p \in 1 .. 4
       PROVE  c[base[i] + 3 + 4 * (j - 1) + p] = SignalBlock(says[i], j)[p]
  <2>1. PICK y \in 1 .. 3 + 4 * K[i] : y = 3 + 4 * (j - 1) + p BY SMTT(30), <1>10
  <2>2. c[base[i] + y] = ss[i][y] BY <1>23
  <2>3. base[i] \in Nat
    <3>1. i \in 1 .. L + 1 OBVIOUS
    <3>2. QED BY <1>17, <3>1
  <2>4. base[i] + 3 + 4 * (j - 1) + p = base[i] + y BY <1>10, <2>1, <2>3
  <2>5. ss[i][y] = SignalBlock(says[i], j)[p] BY <1>3, <2>1 DEF IsSatsinfoBlock
  <2>6. QED BY <2>2, <2>4, <2>5
<1>26. IsSatsinfo(c, says, L, K, base)
  BY <1>17, <1>18, <1>19, <1>20, <1>22, <1>24, <1>25 DEF IsSatsinfo
<1>27. QED BY <1>16, <1>26

-----------------------------------------------------------------------------
(* The satellites of a SATSINFO, one found from the other *)

\* A satellite of a line, from its first field to that of the next one.
AllNumbers(fields, a, b) == b < Len(fields) /\ \A i \in a .. b : IsNumber(At(fields, i))

Extra(fields, c) == 4 * (At(fields, c + 6)[2] - 1)

NextStart(fields, c) ==
    IF c = None THEN None
    ELSE IF /\ AllNumbers(fields, c, c + 6) /\ At(fields, c + 6)[2] > 0
            /\ AllNumbers(fields, c + 7, c + 6 + Extra(fields, c))
         THEN c + 7 + Extra(fields, c) ELSE None

\* The same of a frame, in bytes.
NextOffset(payload, c) ==
    IF c = None THEN None
    ELSE IF /\ has_range(payload, c, 8) /\ ReadAt(payload, c + 7, 1) # 0
            /\ has_range(payload, c, 4 + 4 * ReadAt(payload, c + 7, 1))
         THEN c + 4 + 4 * ReadAt(payload, c + 7, 1) ELSE None

\* The places the code finds.
AreStarts(start, fields) ==
    start[0] = 15 /\ \A i \in Nat : start[i + 1] = NextStart(fields, start[i])

\* SatsinfoaStarts finds the satellites of a line one behind the other.
LEMMA StartsAre ==
    ASSUME NEW fields,
           \A c \in Nat : c >= 9 /\ NextStart(fields, c) # None =>
                             NextStart(fields, c) \in Nat /\ NextStart(fields, c) >= 9
    PROVE  AreStarts(SatsinfoaStarts(fields), fields)
<1> DEFINE S == {c \in Nat : c >= 9} \cup {None}
           next == [c \in S |-> NextStart(fields, c)]
           Equation(f) ==
              f = [i \in Nat |-> IF i = 0 THEN 15 ELSE NextStart(fields, f[i - 1])]
<1>1. 15 \in S OBVIOUS
<1>2. NextStart(fields, None) = None BY DEF NextStart
<1>3. ASSUME NEW c \in S PROVE NextStart(fields, c) \in S
  <2>1. CASE c = None BY <1>2, <2>1
  <2>2. CASE c # None BY <2>2
  <2>3. QED BY <2>1, <2>2
<1>4. next \in [S -> S] /\ \A c \in S : next[c] = NextStart(fields, c) BY <1>3
<1> HIDE DEF S, next
<1>5. PICK f : IsChain(f, S, 15, next) BY <1>1, <1>4, ChainExists
<1>6. f \in [Nat -> S] /\ f[0] = 15 /\ \A i \in Nat : f[i + 1] = next[f[i]]
  BY <1>5 DEF IsChain
<1>7. ASSUME NEW i \in Nat, i # 0 PROVE f[i] = NextStart(fields, f[i - 1])
  <2>1. PICK j \in Nat : i = j + 1 /\ i - 1 = j BY <1>7
  <2>2. f[j + 1] = next[f[j]] /\ f[j] \in S BY <1>6
  <2>3. QED BY <1>4, <2>1, <2>2
<1>8. Equation(f)
  <2>1. f = [i \in Nat |-> f[i]] BY <1>6
  <2>2. \A i \in Nat : f[i] = IF i = 0 THEN 15 ELSE NextStart(fields, f[i - 1]) BY <1>6, <1>7
  <2>3. [i \in Nat |-> f[i]] = [i \in Nat |-> IF i = 0 THEN 15 ELSE NextStart(fields, f[i - 1])]
    BY <2>2
  <2>4. QED BY <2>1, <2>3
<1>9. Equation(SatsinfoaStarts(fields))
  <2>1. SatsinfoaStarts(fields) = CHOOSE g : Equation(g)
    BY ZenonT(30) DEF SatsinfoaStarts, NextStart, AllNumbers, Extra
  <2>2. \E g : Equation(g) BY <1>8
  <2> HIDE DEF Equation
  <2>3. Equation(CHOOSE g : Equation(g)) BY <2>2, Zenon
  <2>4. QED BY <2>1, <2>3
<1>10. PICK start : start = SatsinfoaStarts(fields) OBVIOUS
<1>11. start = [i \in Nat |-> IF i = 0 THEN 15 ELSE NextStart(fields, start[i - 1])]
  BY <1>9, <1>10
<1>12. start[0] = 15 BY <1>11
<1>13. ASSUME NEW i \in Nat PROVE start[i + 1] = NextStart(fields, start[i])
  <2>1. i + 1 \in Nat /\ i + 1 # 0 /\ (i + 1) - 1 = i OBVIOUS
  <2>2. QED BY <1>11, <2>1
<1>14. QED BY <1>10, <1>12, <1>13 DEF AreStarts

AreOffsets(start, payload) ==
    start[0] = 6 /\ \A i \in Nat : start[i + 1] = NextOffset(payload, start[i])

\* SatsinfobStarts finds those of a frame likewise.
LEMMA OffsetsAre ==
    ASSUME NEW payload,
           \A c \in Int : NextOffset(payload, c) # None => NextOffset(payload, c) \in Int
    PROVE  AreOffsets(SatsinfobStarts(payload), payload)
<1> DEFINE S == Int \cup {None}
           next == [c \in S |-> NextOffset(payload, c)]
           Equation(f) ==
              f = [i \in Nat |-> IF i = 0 THEN 6 ELSE NextOffset(payload, f[i - 1])]
<1>1. 6 \in S OBVIOUS
<1>2. NextOffset(payload, None) = None BY DEF NextOffset
<1>3. ASSUME NEW c \in S PROVE NextOffset(payload, c) \in S
  <2>1. CASE c = None BY <1>2, <2>1
  <2>2. CASE c # None BY <2>2
  <2>3. QED BY <2>1, <2>2
<1>4. next \in [S -> S] /\ \A c \in S : next[c] = NextOffset(payload, c) BY <1>3
<1> HIDE DEF S, next
<1>5. PICK f : IsChain(f, S, 6, next) BY <1>1, <1>4, ChainExists
<1>6. f \in [Nat -> S] /\ f[0] = 6 /\ \A i \in Nat : f[i + 1] = next[f[i]]
  BY <1>5 DEF IsChain
<1>7. ASSUME NEW i \in Nat, i # 0 PROVE f[i] = NextOffset(payload, f[i - 1])
  <2>1. PICK j \in Nat : i = j + 1 /\ i - 1 = j BY <1>7
  <2>2. f[j + 1] = next[f[j]] /\ f[j] \in S BY <1>6
  <2>3. QED BY <1>4, <2>1, <2>2
<1>8. Equation(f)
  <2>1. f = [i \in Nat |-> f[i]] BY <1>6
  <2>2. \A i \in Nat : f[i] = IF i = 0 THEN 6 ELSE NextOffset(payload, f[i - 1]) BY <1>6, <1>7
  <2>3. [i \in Nat |-> f[i]] = [i \in Nat |-> IF i = 0 THEN 6 ELSE NextOffset(payload, f[i - 1])]
    BY <2>2
  <2>4. QED BY <2>1, <2>3
<1>9. Equation(SatsinfobStarts(payload)) BY ZenonT(30), <1>8 DEF SatsinfobStarts, NextOffset
<1>10. PICK start : start = SatsinfobStarts(payload) OBVIOUS
<1>11. start = [i \in Nat |-> IF i = 0 THEN 6 ELSE NextOffset(payload, start[i - 1])]
  BY <1>9, <1>10
<1>12. start[0] = 6 BY <1>11
<1>13. ASSUME NEW i \in Nat PROVE start[i + 1] = NextOffset(payload, start[i])
  <2>1. i + 1 \in Nat /\ i + 1 # 0 /\ (i + 1) - 1 = i OBVIOUS
  <2>2. QED BY <1>11, <2>1
<1>14. QED BY <1>10, <1>12, <1>13 DEF AreOffsets

-----------------------------------------------------------------------------
(* SATSINFO, the line *)

\* A line of numbers, the first k cells of a log, with one blank field or none.
IsNumberLine(fields, cells, k, l) ==
    /\ k \in Nat /\ l \in Nat /\ Len(fields) = 9 + k
    /\ \A x \in 1 .. k : /\ cells[x].value \in Int
                         /\ At(fields, 8 + x) = IF x = l THEN Text("")
                                                ELSE Number(cells[x].value)

ReadableUpTo(fields, k, l, a, b) ==
    AllNumbers(fields, 9 + a, 8 + b) <=> b <= k /\ ~ (a < l /\ l <= b)

\* Fields are numbers up to where the line ends or has a blank.
LEMMA NumbersAre ==
    ASSUME NEW fields, NEW cells, NEW k, NEW l, IsNumberLine(fields, cells, k, l),
           NEW a \in Nat, NEW b \in Nat, a <= b
    PROVE  ReadableUpTo(fields, k, l, a, b)
<1>1. k \in Nat /\ l \in Nat /\ Len(fields) = 9 + k BY DEF IsNumberLine
<1>2. ASSUME NEW x \in 1 .. k PROVE IsNumber(At(fields, 8 + x)) <=> x # l
  <2>1. At(fields, 8 + x) = IF x = l THEN Text("") ELSE Number(cells[x].value)
    BY DEF IsNumberLine
  <2>2. ~ IsNumber(Text("")) /\ IsNumber(Number(cells[x].value))
    BY DEF IsNumber, Number, Text
  <2>3. QED BY <2>1, <2>2
<1>3. 8 + b < Len(fields) <=> b <= k
  <2>1. PICK size \in Nat : size = Len(fields) /\ size = 9 + k BY <1>1
  <2>2. 8 + b < size <=> b <= k BY <1>1, <2>1
  <2>3. QED BY <2>1, <2>2
<1>4. ASSUME b <= k
      PROVE  (\A y \in 9 + a .. 8 + b : IsNumber(At(fields, y))) <=> ~ (a < l /\ l <= b)
  <2>1. ASSUME a < l, l <= b PROVE \E y \in 9 + a .. 8 + b : ~ IsNumber(At(fields, y))
    <3>1. l \in 1 .. k /\ 8 + l \in 9 + a .. 8 + b BY <1>1, <1>4, <2>1
    <3>2. ~ IsNumber(At(fields, 8 + l)) BY <1>2, <3>1
    <3>3. QED BY <3>1, <3>2
  <2>2. ASSUME NEW y \in 9 + a .. 8 + b, ~ (a < l /\ l <= b) PROVE IsNumber(At(fields, y))
    <3>1. PICK x \in 1 .. k : y = 8 + x /\ a < x /\ x <= b
      <4>1. y - 8 \in 1 .. k /\ y = 8 + (y - 8) /\ a < y - 8 /\ y - 8 <= b BY <1>1, <1>4
      <4>2. QED BY <4>1
    <3>2. x # l BY <2>2, <3>1
    <3>3. QED BY <1>2, <3>1, <3>2
  <2>3. QED BY <2>1, <2>2
<1>5. QED BY <1>3, <1>4 DEF AllNumbers, ReadableUpTo

\* The starts are numbers.
LEMMA LineHasStarts ==
    ASSUME NEW fields, NEW cells, NEW k, NEW l, IsNumberLine(fields, cells, k, l)
    PROVE  AreStarts(SatsinfoaStarts(fields), fields)
<1>1. k \in Nat /\ l \in Nat BY DEF IsNumberLine
<1>2. ASSUME NEW c \in Nat, c >= 9, NextStart(fields, c) # None
      PROVE  NextStart(fields, c) \in Nat /\ NextStart(fields, c) >= 9
  <2>1. /\ AllNumbers(fields, c, c + 6) /\ At(fields, c + 6)[2] > 0
        /\ NextStart(fields, c) = c + 7 + 4 * (At(fields, c + 6)[2] - 1)
    BY <1>2, Zenon DEF NextStart, Extra
  <2>2. PICK a \in Nat, b \in Nat : a = c - 9 /\ b = c - 2 /\ a <= b BY <1>2
  <2>3. 9 + a = c /\ 8 + b = c + 6 BY <2>2
  <2>4. b <= k /\ ~ (a < l /\ l <= b)
    <3>1. ReadableUpTo(fields, k, l, a, b) BY <2>2, NumbersAre
    <3>2. QED BY <2>1, <2>3, <3>1 DEF ReadableUpTo
  <2>5. b \in 1 .. k /\ b # l BY <1>1, <1>2, <2>2, <2>4
  <2>6. cells[b].value \in Int /\ At(fields, 8 + b) = Number(cells[b].value)
    BY <2>5 DEF IsNumberLine
  <2>7. PICK v \in Int : v = At(fields, c + 6)[2] BY <2>3, <2>6 DEF Number
  <2>8. v > 0 /\ NextStart(fields, c) = c + 7 + 4 * (v - 1) BY <2>1, <2>7
  <2>9. QED BY <1>2, <2>8
<1>3. QED BY <1>2, StartsAre

\* The place behind a satellite is that of the next, if all its fields came.
LEMMA NextStartIs ==
    ASSUME NEW fields, NEW cells, NEW k, NEW l, IsNumberLine(fields, cells, k, l),
           NEW says, NEW L \in Nat, NEW K, NEW base, IsSatsinfo(cells, says, L, K, base),
           None \notin Int, NEW i \in 1 .. L
    PROVE  NextStart(fields, 9 + base[i]) =
              IF base[i + 1] <= k /\ ~ (base[i] < l /\ l <= base[i + 1])
              THEN 9 + base[i + 1] ELSE None
<1>1. k \in Nat /\ l \in Nat BY DEF IsNumberLine
<1>2. PICK a \in Nat, q \in Nat \ {0} : a = base[i] /\ q = K[i] /\ 6 <= a
  <2>1. i \in 1 .. L + 1 OBVIOUS
  <2>2. base[i] \in Nat /\ 6 <= base[i] BY <2>1 DEF IsSatsinfo
  <2>3. K[i] \in Nat \ {0} BY DEF IsSatsinfo, IsSatellite
  <2>4. QED BY <2>2, <2>3
<1>3. PICK z \in Nat : z = base[i + 1] /\ z = a + 3 + 4 * q
  <2>1. base[i + 1] = a + 3 + 4 * q BY <1>2 DEF IsSatsinfo
  <2>2. QED BY <1>2, <2>1
<1>4. PICK c \in Nat : c = 9 + a BY <1>2
<1>5. PICK b \in Nat : b = a + 7 /\ b <= z /\ a <= b BY <1>2, <1>3
<1>6. AllNumbers(fields, c, c + 6) <=> b <= k /\ ~ (a < l /\ l <= b)
  <2>1. c + 6 = 8 + b BY <1>4, <1>5
  <2>2. ReadableUpTo(fields, k, l, a, b) BY <1>5, NumbersAre
  <2>3. QED BY <1>4, <2>1, <2>2 DEF ReadableUpTo
<1>7. CASE ~ AllNumbers(fields, c, c + 6)
  <2>1. NextStart(fields, c) = None BY <1>7, Zenon DEF NextStart
  <2>2. ~ (z <= k /\ ~ (a < l /\ l <= z)) BY <1>1, <1>5, <1>6, <1>7
  <2>3. QED BY <1>2, <1>3, <1>4, <2>1, <2>2
<1>8. CASE AllNumbers(fields, c, c + 6)
  <2>1. b <= k /\ ~ (a < l /\ l <= b) BY <1>6, <1>8
  <2>2. b \in 1 .. k /\ b # l BY <1>1, <1>5, <2>1
  <2>3. At(fields, 8 + b) = Number(cells[b].value) BY <2>2 DEF IsNumberLine
  <2>4. cells[b].value = q
    <3>1. 1 \in 1 .. K[i] BY <1>2
    <3>2. PICK j \in 1 .. K[i], p \in 1 .. 4 : j = 1 /\ p = 4 BY <3>1
    <3>3. cells[base[i] + 3 + 4 * (j - 1) + p] = SignalBlock(says[i], j)[p]
      BY DEF IsSatsinfo
    <3>4. base[i] + 3 + 4 * (j - 1) + p = b BY <1>2, <1>5, <3>2
    <3>5. SignalBlock(says[i], j)[4] = Cell(1, q)
      <4>1. Len(says[i].signals) = q BY <1>2 DEF IsSatsinfo, IsSatellite
      <4>2. QED BY <4>1 DEF SignalBlock
    <3>6. cells[b] = Cell(1, q) BY <3>2, <3>3, <3>4, <3>5
    <3>7. QED BY <3>6 DEF Cell
  <2>5. c + 6 = 8 + b BY <1>4, <1>5
  <2>6. At(fields, c + 6)[2] = q BY <2>3, <2>4, <2>5 DEF Number
  <2>7. c # None BY <1>4
  <2>8. PICK e \in Nat : e = 4 * (q - 1) BY <1>2
  <2>9. Extra(fields, c) = e BY <2>6, <2>8 DEF Extra
  <2>10. q > 0 BY <1>2
  <2>11. NextStart(fields, c) =
            IF AllNumbers(fields, c + 7, c + 6 + e) THEN c + 7 + e ELSE None
    BY <1>8, <2>6, <2>7, <2>9, <2>10, Zenon DEF NextStart
  <2>12. c + 7 = 9 + b /\ c + 6 + e = 8 + z /\ c + 7 + e = 9 + z
    BY <1>2, <1>3, <1>4, <1>5, <2>8
  <2>13. AllNumbers(fields, 9 + b, 8 + z) <=> z <= k /\ ~ (b < l /\ l <= z)
    <3>1. ReadableUpTo(fields, k, l, b, z) BY <1>5, NumbersAre
    <3>2. QED BY <3>1 DEF ReadableUpTo
  <2>14. AllNumbers(fields, 9 + b, 8 + z) <=> z <= k /\ ~ (a < l /\ l <= z)
    BY <1>1, <1>5, <2>1, <2>13
  <2>15. NextStart(fields, c) = IF AllNumbers(fields, 9 + b, 8 + z) THEN 9 + z ELSE None
    BY <2>11, <2>12, Zenon
  <2>16. QED BY <1>2, <1>3, <1>4, <2>14, <2>15
<1>9. QED BY <1>7, <1>8

\* The place of satellite i + 1, in a line.
StartIs(fields, base, k, l, i) ==
    SatsinfoaStarts(fields)[i] =
       IF base[i + 1] <= k /\ ~ (6 < l /\ l <= base[i + 1]) THEN 9 + base[i + 1] ELSE None

\* All the satellites are found if and only if all their fields came.
LEMMA LineStarts ==
    ASSUME NEW fields, NEW cells, NEW k, NEW l, IsNumberLine(fields, cells, k, l), 6 <= k,
           NEW says, NEW L \in Nat, NEW K, NEW base, IsSatsinfo(cells, says, L, K, base),
           None \notin Int, NEW i \in 0 .. L
    PROVE  StartIs(fields, base, k, l, i)
<1>1. k \in Nat /\ l \in Nat BY DEF IsNumberLine
<1>2. PICK start : start = SatsinfoaStarts(fields) OBVIOUS
<1>3. AreStarts(start, fields) BY <1>2, LineHasStarts
<1>4. start[0] = 15 /\ \A j \in Nat : start[j + 1] = NextStart(fields, start[j])
  BY <1>3 DEF AreStarts
<1>5. \A j \in 1 .. L + 1 : base[j] \in Nat /\ 6 <= base[j] BY DEF IsSatsinfo
<1> DEFINE Good(j) == start[j] = IF base[j + 1] <= k /\ ~ (6 < l /\ l <= base[j + 1])
                                 THEN 9 + base[j + 1] ELSE None
           bad == {j \in 0 .. L : ~ Good(j)}
<1>6. bad = {}
  <2>1. SUFFICES ASSUME bad # {} PROVE FALSE OBVIOUS
  <2>2. PICK j \in bad : \A y \in bad : j <= y
    <3>1. bad \in SUBSET Nat OBVIOUS
    <3> HIDE DEF bad
    <3>2. QED BY <2>1, <3>1, LeastNat
  <2>3. j \in 0 .. L /\ ~ Good(j) OBVIOUS
  <2>4. j # 0
    <3>1. base[0 + 1] = 6 BY DEF IsSatsinfo
    <3>2. Good(0) BY <1>1, <1>4, <3>1
    <3>3. QED BY <2>3, <3>2
  <2>5. PICK p \in 0 .. L, q \in 1 .. L : j = p + 1 /\ q = j /\ ~ (j <= p)
    <3>1. j - 1 \in 0 .. L /\ j \in 1 .. L /\ ~ (j <= j - 1) BY <2>3, <2>4
    <3>2. QED BY <2>3, <3>1
  <2>6. Good(p)
    <3>1. p \notin bad BY <2>2, <2>5
    <3> HIDE DEF Good
    <3>2. QED BY <3>1
  <2>7. PICK a \in Nat, z \in Nat : a = base[q] /\ z = base[q + 1] /\ 6 <= a /\ a < z
    <3>1. q \in 1 .. L + 1 /\ q + 1 \in 1 .. L + 1 OBVIOUS
    <3>2. base[q] \in Nat /\ base[q + 1] \in Nat /\ 6 <= base[q] BY <1>5, <3>1
    <3>3. PICK r \in Nat : r = K[q] BY DEF IsSatsinfo, IsSatellite
    <3>4. base[q + 1] = base[q] + 3 + 4 * r BY <3>3 DEF IsSatsinfo
    <3>5. QED BY <3>2, <3>3, <3>4
  <2>8. start[p] = IF a <= k /\ ~ (6 < l /\ l <= a) THEN 9 + a ELSE None
    BY <2>5, <2>6, <2>7
  <2>9. start[j] = NextStart(fields, start[p])
    <3>1. p \in Nat OBVIOUS
    <3>2. QED BY <1>4, <2>5, <3>1
  <2>10. CASE a <= k /\ ~ (6 < l /\ l <= a)
    <3>1. start[j] = NextStart(fields, 9 + base[q]) BY <2>7, <2>8, <2>9, <2>10
    <3>2. NextStart(fields, 9 + base[q]) =
             IF base[q + 1] <= k /\ ~ (base[q] < l /\ l <= base[q + 1])
             THEN 9 + base[q + 1] ELSE None
      BY NextStartIs
    <3>3. start[j] = IF z <= k /\ ~ (a < l /\ l <= z) THEN 9 + z ELSE None
      BY <2>7, <3>1, <3>2
    <3>4. (a < l /\ l <= z) <=> (6 < l /\ l <= z) BY <1>1, <2>7, <2>10
    <3>5. start[j] = IF z <= k /\ ~ (6 < l /\ l <= z) THEN 9 + z ELSE None
      BY <3>3, <3>4
    <3>6. Good(j) BY <2>5, <2>7, <3>5
    <3>7. QED BY <2>3, <3>6
  <2>11. CASE ~ (a <= k /\ ~ (6 < l /\ l <= a))
    <3>1. start[p] = None BY <2>8, <2>11
    <3>2. start[j] = None BY <2>9, <3>1 DEF NextStart
    <3>3. ~ (z <= k /\ ~ (6 < l /\ l <= z)) BY <1>1, <2>7, <2>11
    <3>4. Good(j) BY <2>5, <2>7, <3>2, <3>3
    <3>5. QED BY <2>3, <3>4
  <2>12. QED BY <2>10, <2>11
<1>7. QED BY <1>2, <1>6 DEF StartIs

\* A satellite as a parser builds it.
SatelliteOf(s, K) ==
    [prn |-> s.prn, azimuth |-> s.azimuth, elevation |-> s.elevation,
     signals |-> [j \in 1 .. K |-> [system |-> s.signals[j].system, cn0 |-> s.signals[j].cn0,
                                    frequency |-> s.signals[j].frequency]]]

\* Built of all its parts, it is the satellite.
LEMMA SatelliteIs ==
    ASSUME NEW s \in SatsinfoSatellite, NEW K, K = Len(s.signals)
    PROVE  IsSatellite(s, K) /\ SatelliteOf(s, K) = s
<1> DEFINE Signal == [system : Int, cn0 : Int, frequency : Int]
<1>1. s \in [prn : Int, azimuth : Int, elevation : Int, signals : Seq(Signal) \ {<<>>}]
  BY DEF SatsinfoSatellite
<1>2. PICK t \in Seq(Signal) : t = s.signals /\ t # <<>>
  <2> HIDE DEF Signal
  <2>1. s.signals \in Seq(Signal) \ {<<>>} BY <1>1, Zenon
  <2>2. QED BY <2>1
<1>3. Len(t) \in Nat \ {0} /\ DOMAIN t = 1 .. Len(t)
  <2> HIDE DEF Signal
  <2>1. QED BY <1>2, EmptySeq
<1>4. \A j \in 1 .. Len(t) : t[j] \in Signal
  <2> HIDE DEF Signal
  <2>1. QED OBVIOUS
<1>5. ASSUME NEW j \in 1 .. Len(t)
      PROVE  /\ t[j].system \in Int /\ t[j].cn0 \in Int /\ t[j].frequency \in Int
             /\ t[j] = [system |-> t[j].system, cn0 |-> t[j].cn0, frequency |-> t[j].frequency]
  BY <1>4
<1>6. s.prn \in Int /\ s.azimuth \in Int /\ s.elevation \in Int BY <1>1, Zenon
<1>7. s = [prn |-> s.prn, azimuth |-> s.azimuth, elevation |-> s.elevation,
           signals |-> s.signals]
  <2> HIDE DEF Signal
  <2>1. QED BY <1>1, Zenon
<1>8. IsSatellite(s, K) BY <1>2, <1>3, <1>5, <1>6 DEF IsSatellite
<1>9. t = [j \in 1 .. Len(t) |-> t[j]]
  <2> HIDE DEF Signal
  <2>1. QED OBVIOUS
<1>10. t = [j \in 1 .. K |-> [system |-> t[j].system, cn0 |-> t[j].cn0,
                              frequency |-> t[j].frequency]]
  <2>1. K = Len(t) BY <1>2
  <2> HIDE DEF Signal
  <2>2. \A j \in 1 .. K :
           t[j] = [system |-> t[j].system, cn0 |-> t[j].cn0, frequency |-> t[j].frequency]
    BY <1>5, <2>1
  <2>3. t = [j \in 1 .. K |-> t[j]] BY <1>9, <2>1
  <2>4. QED BY <2>2, <2>3
<1>11. SatelliteOf(s, K) = s BY <1>2, <1>7, <1>10, Zenon DEF SatelliteOf
<1>12. QED BY <1>8, <1>11

\* The cells of the message, and the message again.
SatsinfoTells(cells, says, L, K) ==
    /\ L \in Nat /\ \E base : IsSatsinfo(cells, says, L, K, base)
    /\ says = [i \in 1 .. L |-> SatelliteOf(says[i], K[i])]

\* So it is for every message.
LEMMA SatsinfoIs ==
    ASSUME NEW says \in Seq(SatsinfoSatellite), NEW cells, cells = SatsinfoCells(says),
           NEW L, L = Len(says), NEW K, K = [i \in 1 .. L |-> Len(says[i].signals)]
    PROVE  SatsinfoTells(cells, says, L, K)
<1>1. L \in Nat /\ DOMAIN says = 1 .. L /\ says = [i \in 1 .. L |-> says[i]] OBVIOUS
<1>2. ASSUME NEW i \in 1 .. L
      PROVE  IsSatellite(says[i], K[i]) /\ SatelliteOf(says[i], K[i]) = says[i]
  <2>1. says[i] \in SatsinfoSatellite OBVIOUS
  <2>2. K[i] = Len(says[i].signals) OBVIOUS
  <2>3. QED BY <2>1, <2>2, SatelliteIs
<1>3. \E base : IsSatsinfo(cells, says, L, K, base) BY <1>1, <1>2, SatsinfoCellsAre
<1>4. says = [i \in 1 .. L |-> SatelliteOf(says[i], K[i])] BY <1>1, <1>2
<1>5. QED BY <1>1, <1>3, <1>4 DEF SatsinfoTells

\* The fields of a SATSINFO are numbers, but for the blank one.
LEMMA SatsinfoFieldsAre ==
    ASSUME NEW cells \in Seq(IntCells), NEW k \in Nat, k <= Len(cells), NEW l \in Nat
    PROVE  IsNumberLine(Fields("SATSINFO", cells, k, l), cells, k, l)
<1>1. PICK fields : fields = Fields("SATSINFO", cells, k, l) OBVIOUS
<1>2. FirstField("SATSINFO") = 9 BY DEF FirstField, Nmea
<1>3. AreFields(fields, 9, cells, k, l) BY <1>1, <1>2, FieldsAre
<1>4. Len(fields) = 9 + k BY <1>3 DEF AreFields
<1>5. ASSUME NEW x \in 1 .. k
      PROVE  /\ cells[x].value \in Int
             /\ At(fields, 8 + x) = IF x = l THEN Text("") ELSE Number(cells[x].value)
  <2>1. 9 + x - 1 = 8 + x OBVIOUS
  <2>2. At(fields, 8 + x) = IF x = l THEN Text("") ELSE cells[x].text
    BY <1>3, <2>1 DEF AreFields
  <2>3. x \in 1 .. Len(cells) OBVIOUS
  <2>4. cells[x] \in IntCells BY <2>3
  <2>5. cells[x].value \in Int /\ cells[x].text = Number(cells[x].value)
    BY <2>4 DEF IntCells, Cell
  <2>6. QED BY <2>2, <2>5
<1>6. QED BY <1>1, <1>4, <1>5 DEF IsNumberLine

\* A satellite as it is read from the place c of a line.
LineSatellite(fields, c) ==
    [prn |-> At(fields, c)[2], azimuth |-> At(fields, c + 1)[2],
     elevation |-> At(fields, c + 2)[2],
     signals |-> [j \in 1 .. At(fields, c + 6)[2] |->
                    [system |-> At(fields, c + 3 + 4 * (j - 1))[2],
                     cn0 |-> At(fields, c + 3 + 4 * (j - 1) + 1)[2],
                     frequency |-> At(fields, c + 3 + 4 * (j - 1) + 2)[2]]]]

\* Where the cells of a satellite came, it is read as it was sent.
LEMMA LineSatelliteIs ==
    ASSUME NEW fields, NEW cells, NEW k, NEW l \in Nat, IsNumberLine(fields, cells, k, l),
           l <= 6, NEW says, NEW L \in Nat, NEW K, NEW base, IsSatsinfo(cells, says, L, K, base),
           NEW i \in 1 .. L, base[i + 1] <= k
    PROVE  LineSatellite(fields, 9 + base[i]) = SatelliteOf(says[i], K[i])
<1>1. PICK a \in Nat, q \in Nat \ {0} : a = base[i] /\ q = K[i] /\ 6 <= a
  <2>1. i \in 1 .. L + 1 OBVIOUS
  <2>2. base[i] \in Nat /\ 6 <= base[i] BY <2>1 DEF IsSatsinfo
  <2>3. K[i] \in Nat \ {0} BY DEF IsSatsinfo, IsSatellite
  <2>4. QED BY <2>2, <2>3
<1>2. k \in Nat BY DEF IsNumberLine
<1>3. a + 3 + 4 * q <= k
  <2>1. base[i + 1] = a + 3 + 4 * q BY <1>1 DEF IsSatsinfo
  <2>2. QED BY <2>1
<1>4. PICK c \in Nat : c = 9 + a OBVIOUS
<1>5. ASSUME NEW x \in 1 .. k, 6 < x PROVE At(fields, 8 + x)[2] = cells[x].value
  <2>1. At(fields, 8 + x) = Number(cells[x].value)
    <3>1. At(fields, 8 + x) = IF x = l THEN Text("") ELSE Number(cells[x].value)
      BY DEF IsNumberLine
    <3>2. x # l BY <1>5
    <3>3. QED BY <3>1, <3>2
  <2>2. QED BY <2>1 DEF Number
<1>6. /\ At(fields, c)[2] = says[i].prn /\ At(fields, c + 1)[2] = says[i].azimuth
      /\ At(fields, c + 2)[2] = says[i].elevation
  <2>1. PICK x \in 1 .. k, y \in 1 .. k, z \in 1 .. k :
           x = a + 1 /\ y = a + 2 /\ z = a + 3 /\ 6 < x /\ 6 < y /\ 6 < z
    BY <1>1, <1>2, <1>3
  <2>2. /\ cells[x] = Cell(1, says[i].prn) /\ cells[y] = Cell(2, says[i].azimuth)
        /\ cells[z] = Cell(1, says[i].elevation)
    BY <1>1, <2>1 DEF IsSatsinfo
  <2>3. 8 + x = c /\ 8 + y = c + 1 /\ 8 + z = c + 2 BY <1>4, <2>1
  <2>4. /\ cells[x].value = says[i].prn /\ cells[y].value = says[i].azimuth
        /\ cells[z].value = says[i].elevation
    BY <2>2 DEF Cell
  <2>5. QED BY <1>5, <2>1, <2>3, <2>4
<1>7. ASSUME NEW j \in 1 .. q, NEW p \in 1 .. 4
      PROVE  At(fields, c + 3 + 4 * (j - 1) + (p - 1))[2] = SignalBlock(says[i], j)[p].value
  <2>1. PICK x \in 1 .. k : x = a + 3 + 4 * (j - 1) + p /\ 6 < x
    BY <1>1, <1>2, <1>3
  <2>2. cells[x] = SignalBlock(says[i], j)[p] BY <1>1, <2>1 DEF IsSatsinfo
  <2>3. 8 + x = c + 3 + 4 * (j - 1) + (p - 1) BY <1>4, <2>1
  <2>4. QED BY <1>5, <2>1, <2>2, <2>3
<1>8. ASSUME NEW j \in 1 .. q
      PROVE  /\ At(fields, c + 3 + 4 * (j - 1))[2] = says[i].signals[j].system
             /\ At(fields, c + 3 + 4 * (j - 1) + 1)[2] = says[i].signals[j].cn0
             /\ At(fields, c + 3 + 4 * (j - 1) + 2)[2] = says[i].signals[j].frequency
             /\ At(fields, c + 3 + 4 * (j - 1) + 3)[2] = Len(says[i].signals)
  <2>1. PICK b \in Nat : b = c + 3 + 4 * (j - 1) OBVIOUS
  <2>2. \A p \in 1 .. 4 : At(fields, b + (p - 1))[2] = SignalBlock(says[i], j)[p].value
    BY <1>7, <2>1
  <2>3. PICK p1 \in 1 .. 4, p2 \in 1 .. 4, p3 \in 1 .. 4, p4 \in 1 .. 4 :
           p1 = 1 /\ p2 = 2 /\ p3 = 3 /\ p4 = 4
    OBVIOUS
  <2>4. b + (p1 - 1) = b /\ b + (p2 - 1) = b + 1 /\ b + (p3 - 1) = b + 2 /\ b + (p4 - 1) = b + 3
    BY <2>3
  <2>5. /\ At(fields, b)[2] = SignalBlock(says[i], j)[1].value
        /\ At(fields, b + 1)[2] = SignalBlock(says[i], j)[2].value
        /\ At(fields, b + 2)[2] = SignalBlock(says[i], j)[3].value
        /\ At(fields, b + 3)[2] = SignalBlock(says[i], j)[4].value
    BY <2>2, <2>3, <2>4
  <2>6. QED BY <2>1, <2>5 DEF SignalBlock, Cell
<1>9. At(fields, c + 6)[2] = q
  <2>1. PICK j \in 1 .. q : j = 1 OBVIOUS
  <2>2. c + 3 + 4 * (j - 1) + 3 = c + 6 BY <2>1
  <2>3. Len(says[i].signals) = q BY <1>1 DEF IsSatsinfo, IsSatellite
  <2>4. QED BY <1>8, <2>2, <2>3
<1>10. LineSatellite(fields, c) = SatelliteOf(says[i], q)
  <2> DEFINE signals ==
                [j \in 1 .. q |-> [system |-> At(fields, c + 3 + 4 * (j - 1))[2],
                                   cn0 |-> At(fields, c + 3 + 4 * (j - 1) + 1)[2],
                                   frequency |-> At(fields, c + 3 + 4 * (j - 1) + 2)[2]]]
             sent == [j \in 1 .. q |-> [system |-> says[i].signals[j].system,
                                        cn0 |-> says[i].signals[j].cn0,
                                        frequency |-> says[i].signals[j].frequency]]
  <2>1. signals = sent BY <1>8
  <2>2. LineSatellite(fields, c) =
           [prn |-> At(fields, c)[2], azimuth |-> At(fields, c + 1)[2],
            elevation |-> At(fields, c + 2)[2], signals |-> signals]
    BY <1>9, Zenon DEF LineSatellite
  <2>3. SatelliteOf(says[i], q) = [prn |-> says[i].prn, azimuth |-> says[i].azimuth,
                                   elevation |-> says[i].elevation, signals |-> sent]
    BY Zenon DEF SatelliteOf
  <2> HIDE DEF signals, sent
  <2>4. QED BY <1>6, <2>1, <2>2, <2>3, Zenon
<1>11. QED BY <1>1, <1>4, <1>10

\* A line of a SATSINFO is understood.
LEMMA SatsinfoLine ==
    ASSUME NEW says \in Seq(SatsinfoSatellite), NEW cells, cells = SatsinfoCells(says),
           NEW n \in 0 .. Len(cells), NEW blank \in 0 .. Len(cells), None \notin Int,
           NEW told, told = [version |-> 2, flag |-> 63, satellites |-> says], None # told
    PROVE  Understood(parse_satsinfoa(Fields("SATSINFO", cells, n, blank)), told,
                      blank = 0 /\ n = Len(cells))
<1>1. PICK L : L = Len(says) OBVIOUS
<1>2. PICK K : K = [i \in 1 .. L |-> Len(says[i].signals)] OBVIOUS
<1>3. /\ L \in Nat /\ \E base : IsSatsinfo(cells, says, L, K, base)
      /\ says = [i \in 1 .. L |-> SatelliteOf(says[i], K[i])]
  <2>1. SatsinfoTells(cells, says, L, K) BY <1>1, <1>2, SatsinfoIs
  <2>2. QED BY <2>1 DEF SatsinfoTells
<1>4. PICK base : IsSatsinfo(cells, says, L, K, base) BY <1>3
<1>5. PICK m \in Nat : m = Len(cells) /\ m = base[L + 1] /\ 6 <= m
  <2>1. L + 1 \in 1 .. L + 1 BY <1>3
  <2>2. base[L + 1] \in Nat /\ 6 <= base[L + 1] /\ Len(cells) = base[L + 1]
    BY <1>4, <2>1 DEF IsSatsinfo
  <2>3. QED BY <2>2
<1>6. PICK k \in Nat, l \in Nat : k = n /\ k <= m /\ l = blank /\ l <= m BY <1>5
<1>7. PICK fields : fields = Fields("SATSINFO", cells, k, l) OBVIOUS
<1>8. PICK got : got = parse_satsinfoa(fields) OBVIOUS
<1> DEFINE whole == blank = 0 /\ n = Len(cells)
<1> whole \in BOOLEAN OBVIOUS
<1> HIDE DEF whole
<1>9. whole <=> l = 0 /\ k = m BY <1>5, <1>6 DEF whole
<1>10. IsNumberLine(fields, cells, k, l)
  <2>1. cells \in Seq(IntCells) /\ k <= Len(cells) BY <1>4, <1>5, <1>6 DEF IsSatsinfo
  <2>2. QED BY <1>7, <2>1, SatsinfoFieldsAre
<1>11. Len(fields) = 9 + k BY <1>10 DEF IsNumberLine
<1>12. ASSUME NEW x \in 1 .. k
       PROVE  At(fields, 8 + x) = IF x = l THEN Text("") ELSE Number(cells[x].value)
  BY <1>10 DEF IsNumberLine
<1>13. ASSUME got = None, ~ whole PROVE Understood(got, told, whole)
  BY <1>13, AllOrNothing
<1>14. CASE k < 6
  <2>1. Len(fields) <= 14
    <3>1. PICK size \in Nat : size = Len(fields) /\ size = 9 + k BY <1>11
    <3>2. size <= 14 BY <1>14, <3>1
    <3>3. QED BY <3>1, <3>2
  <2>2. got = None BY <1>8, <2>1, Zenon DEF parse_satsinfoa
  <2>3. ~ whole BY <1>5, <1>9, <1>14
  <2>4. QED BY <1>6, <1>7, <1>8, <1>13, <2>2, <2>3 DEF whole
<1>15. CASE ~ (k < 6) /\ l \in {1, 2, 6}
  <2>1. PICK x \in 1 .. k, y \in {9, 10, 14} : x = l /\ 8 + x = y BY <1>6, <1>15
  <2>2. At(fields, y) = Text("") BY <1>12, <2>1
  <2>3. ~ IsNumber(At(fields, y))
    <3>1. ~ IsNumber(Text("")) BY DEF IsNumber, Text
    <3>2. QED BY <2>2, <3>1
  <2>4. got = None BY <1>8, <2>3, Zenon DEF parse_satsinfoa
  <2>5. ~ whole BY <1>9, <1>15
  <2>6. QED BY <1>6, <1>7, <1>8, <1>13, <2>4, <2>5 DEF whole
<1>16. CASE ~ (k < 6) /\ l \notin {1, 2, 6}
  <2>1. At(fields, 9) = Number(L) /\ At(fields, 10) = Number(2) /\ At(fields, 14) = Number(63)
    <3>1. PICK x \in 1 .. k, y \in 1 .. k, z \in 1 .. k : x = 1 /\ y = 2 /\ z = 6
      BY <1>6, <1>16
    <3>2. 8 + x = 9 /\ 8 + y = 10 /\ 8 + z = 14 /\ x # l /\ y # l /\ z # l BY <1>16, <3>1
    <3>3. cells[x] = Cell(1, L) /\ cells[y] = Cell(1, 2) /\ cells[z] = Cell(1, 63)
      BY <1>4, <3>1 DEF IsSatsinfo
    <3>4. cells[x].value = L /\ cells[y].value = 2 /\ cells[z].value = 63 BY <3>3 DEF Cell
    <3>5. QED BY ZenonT(30), <1>12, <3>2, <3>4
  <2>2. At(fields, 9)[2] = L /\ At(fields, 10)[2] = 2 /\ At(fields, 14)[2] = 63
    BY <2>1 DEF Number
  <2>3. ~ (Len(fields) <= 14 \/ \E i \in {9, 10, 14} : ~ IsNumber(At(fields, i)))
    <3>1. PICK size \in Nat : size = Len(fields) /\ size = 9 + k BY <1>11
    <3>2. ~ (size <= 14) BY <1>16, <3>1
    <3>3. \A i \in {9, 10, 14} : IsNumber(At(fields, i)) BY <2>1 DEF IsNumber, Number
    <3>4. QED BY <3>1, <3>2, <3>3
  <2>4. SatsinfoaStarts(fields)[L] = IF m <= k /\ ~ (6 < l /\ l <= m) THEN 9 + m ELSE None
    <3>1. 6 <= k BY <1>6, <1>16
    <3>2. L \in 0 .. L BY <1>3
    <3>3. StartIs(fields, base, k, l, L) BY <1>3, <1>4, <1>10, <3>1, <3>2, LineStarts
    <3>4. QED BY <1>5, <3>3 DEF StartIs
  <2>5. CASE ~ (k = m /\ ~ (6 < l))
    <3>1. SatsinfoaStarts(fields)[L] = None BY <1>6, <2>4, <2>5
    <3>2. got = None
      <4>1. At(fields, 9)[2] < 0 \/ SatsinfoaStarts(fields)[At(fields, 9)[2]] = None
        BY <2>2, <3>1
      <4>2. QED BY <1>8, <2>3, <4>1, Zenon DEF parse_satsinfoa
    <3>3. ~ whole BY <1>9, <2>5
    <3>4. QED BY <1>6, <1>7, <1>8, <1>13, <3>2, <3>3 DEF whole
  <2>6. CASE k = m /\ ~ (6 < l)
\* A blank field in the header of the log, which no one reads, is no harm.
    <3>1. ~ (At(fields, 9)[2] < 0 \/ SatsinfoaStarts(fields)[At(fields, 9)[2]] = None)
      <4>1. SatsinfoaStarts(fields)[L] = 9 + m
        <5>1. m <= k /\ ~ (6 < l /\ l <= m) BY <2>6
        <5>2. QED BY <2>4, <5>1
      <4>2. 9 + m # None /\ ~ (L < 0) BY <1>3
      <4>3. QED BY <2>2, <4>1, <4>2
    <3> DEFINE start == SatsinfoaStarts(fields)
    <3>2. got = [version |-> 2, flag |-> 63,
                 satellites |-> [i \in 1 .. L |-> LineSatellite(fields, start[i - 1])]]
      <4>1. got = [version |-> At(fields, 10)[2], flag |-> At(fields, 14)[2],
                   satellites |-> [i \in 1 .. At(fields, 9)[2] |->
                                      LineSatellite(fields, start[i - 1])]]
        BY <1>8, <2>3, <3>1, Zenon DEF parse_satsinfoa, LineSatellite
      <4>2. QED BY <2>2, <4>1, Zenon
    <3> HIDE DEF start
    <3>3. ASSUME NEW i \in 1 .. L
          PROVE  LineSatellite(fields, start[i - 1]) = SatelliteOf(says[i], K[i])
      <4>1. PICK j \in 0 .. L : j = i - 1 /\ j + 1 = i BY <1>3
      <4>2. i \in 1 .. L + 1 /\ i + 1 \in 1 .. L + 1 BY <1>3
      <4>3. PICK a \in Nat, z \in Nat : a = base[i] /\ z = base[i + 1] /\ a <= m /\ z <= m
        <5>1. \A x \in 1 .. L + 1 : base[x] \in Nat /\ base[x] <= base[L + 1]
          BY <1>4 DEF IsSatsinfo
        <5>2. QED BY <1>5, <4>2, <5>1
      <4>4. start[j] = 9 + base[i]
        <5>1. SatsinfoaStarts(fields)[j] =
                 IF base[j + 1] <= k /\ ~ (6 < l /\ l <= base[j + 1])
                 THEN 9 + base[j + 1] ELSE None
          <6>1. 6 <= k BY <1>5, <2>6
          <6>2. StartIs(fields, base, k, l, j) BY <1>3, <1>4, <1>10, <6>1, LineStarts
          <6>3. QED BY <6>2 DEF StartIs
        <5>2. SatsinfoaStarts(fields)[j] = IF a <= k /\ ~ (6 < l /\ l <= a) THEN 9 + a ELSE None
          BY <4>1, <4>3, <5>1
        <5>3. SatsinfoaStarts(fields)[j] = 9 + a BY <2>6, <4>3, <5>2
        <5>4. QED BY <4>3, <5>3 DEF start
      <4>5. LineSatellite(fields, 9 + base[i]) = SatelliteOf(says[i], K[i])
        <5>1. l <= 6 /\ base[i + 1] <= k BY <1>6, <2>6, <4>3
        <5>2. QED BY <1>3, <1>4, <1>10, <5>1, LineSatelliteIs
      <4>6. QED BY <4>1, <4>4, <4>5
    <3>4. [i \in 1 .. L |-> LineSatellite(fields, start[i - 1])] =
             [i \in 1 .. L |-> SatelliteOf(says[i], K[i])]
      BY <3>3
    <3>5. got = told BY <1>3, <3>2, <3>4, Zenon
    <3>6. Understood(got, told, whole) BY <3>5, Zenon DEF Understood
    <3>7. QED BY <1>6, <1>7, <1>8, <3>6 DEF whole
  <2>7. QED BY <2>5, <2>6
<1>17. QED BY <1>14, <1>15, <1>16

-----------------------------------------------------------------------------
(* SATSINFO, the frame *)

\* What is in the range of a frame is what came of the log.
LEMMA RangeIs ==
    ASSUME NEW cells, NEW m \in Nat, AreCells(cells, m), NEW n \in Nat, n <= m,
           NEW y \in Nat, y <= m
    PROVE  Offset(cells, y + 1) <= Payload(cells, n).size <=> y <= n
<1>1. /\ \A k \in 1 .. m + 1 : Offset(cells, k) \in Nat
      /\ \A k, j \in 1 .. m + 1 : k < j => Offset(cells, k) < Offset(cells, j)
  BY OffsetIs DEF AreCells
<1>2. Payload(cells, n).size = Offset(cells, n + 1) BY DEF Payload
<1>3. y + 1 \in 1 .. m + 1 /\ n + 1 \in 1 .. m + 1 OBVIOUS
<1>4. PICK p \in Nat, q \in Nat : p = Offset(cells, y + 1) /\ q = Offset(cells, n + 1)
  BY <1>1, <1>3
<1>5. y < n => p < q
  <2>1. y < n => y + 1 < n + 1 OBVIOUS
  <2>2. QED BY <1>1, <1>3, <1>4, <2>1
<1>6. n < y => q < p
  <2>1. n < y => n + 1 < y + 1 OBVIOUS
  <2>2. QED BY <1>1, <1>3, <1>4, <2>1
<1>7. n = y => p = q BY <1>4
<1>8. p <= q <=> y <= n BY <1>5, <1>6, <1>7
<1>9. QED BY <1>2, <1>4, <1>8

\* Wherever it is read, a number is found.
LEMMA ReadsInts ==
    ASSUME NEW cells \in Seq(IntCells), NEW n \in Nat, n <= Len(cells), NEW o, NEW w,
           ReadAt(Payload(cells, n), o, w) # None
    PROVE  ReadAt(Payload(cells, n), o, w) \in Int
<1>1. PICK payload : payload = Payload(cells, n) OBVIOUS
<1>2. payload.begins = [p \in {Offset(cells, i) : i \in 1 .. n} |->
                           cells[CHOOSE i \in 1 .. n : Offset(cells, i) = p]]
  BY <1>1 DEF Payload
<1>3. CASE o \in DOMAIN payload.begins /\ payload.begins[o].width = w
  <2>1. PICK i \in 1 .. n : Offset(cells, i) = o BY <1>2, <1>3
  <2>2. PICK k \in 1 .. n : k = CHOOSE j \in 1 .. n : Offset(cells, j) = o BY <2>1
  <2>3. payload.begins[o] = cells[k] BY <1>2, <1>3, <2>2
  <2>4. cells[k] \in IntCells
    <3>1. k \in 1 .. Len(cells) OBVIOUS
    <3>2. QED BY <3>1
  <2>5. cells[k].value \in Int BY <2>4 DEF IntCells, Cell
  <2>6. ReadAt(payload, o, w) \in {None, cells[k].value} BY <1>3, <2>3 DEF ReadAt
  <2>7. QED BY <1>1, <2>5, <2>6
<1>4. CASE ~ (o \in DOMAIN payload.begins /\ payload.begins[o].width = w)
  <2>1. ReadAt(payload, o, w) \in {None, Garbage} BY <1>4, Zenon DEF ReadAt
  <2>2. Garbage \in Int BY DEF Garbage
  <2>3. QED BY <1>1, <2>1, <2>2
<1>5. QED BY <1>3, <1>4

\* The widths of the cells of a SATSINFO.
AreSatsinfoWidths(cells, a, q) ==
    /\ cells[a + 1].width = 1 /\ cells[a + 2].width = 2 /\ cells[a + 3].width = 1
    /\ \A y \in 1 .. 4 * q : cells[a + 3 + y].width = 1

\* Only the azimuth of a satellite is two bytes wide.
LEMMA SatsinfoWidthsAre ==
    ASSUME NEW cells, NEW says, NEW L \in Nat, NEW K, NEW base,
           IsSatsinfo(cells, says, L, K, base), NEW i \in 1 .. L
    PROVE  AreSatsinfoWidths(cells, base[i], K[i])
<1>1. PICK a \in Nat, q \in Nat \ {0} : a = base[i] /\ q = K[i]
  <2>1. i \in 1 .. L + 1 OBVIOUS
  <2>2. base[i] \in Nat BY <2>1 DEF IsSatsinfo
  <2>3. K[i] \in Nat \ {0} BY DEF IsSatsinfo, IsSatellite
  <2>4. QED BY <2>2, <2>3
<1>2. /\ cells[a + 1] = Cell(1, says[i].prn) /\ cells[a + 2] = Cell(2, says[i].azimuth)
      /\ cells[a + 3] = Cell(1, says[i].elevation)
  BY <1>1 DEF IsSatsinfo
<1>3. cells[a + 1].width = 1 /\ cells[a + 2].width = 2 /\ cells[a + 3].width = 1
  BY <1>2 DEF Cell
<1>4. ASSUME NEW y \in 1 .. 4 * q PROVE cells[a + 3 + y].width = 1
  <2>1. PICK r \in Nat, p \in 0 .. 3 : y - 1 = 4 * r + p
    <3>1. y - 1 \in Nat OBVIOUS
    <3>2. QED BY <3>1, Quarters
  <2>2. PICK j \in 1 .. q : j = r + 1
    <3>1. 4 * r + p < 4 * q BY <2>1
    <3>2. r < q BY <3>1
    <3>3. QED BY <3>2
  <2>3. PICK s \in 1 .. 4 : s = p + 1 OBVIOUS
  <2>4. a + 3 + y = a + 3 + 4 * (j - 1) + s BY <2>1, <2>2, <2>3
  <2>5. cells[a + 3 + 4 * (j - 1) + s] = SignalBlock(says[i], j)[s] BY <1>1 DEF IsSatsinfo
  <2>6. SignalBlock(says[i], j)[s].width = 1
    <3>1. s = 1 \/ s = 2 \/ s = 3 \/ s = 4 OBVIOUS
    <3>2. QED BY <3>1 DEF SignalBlock, Cell
  <2>7. QED BY <2>4, <2>5, <2>6
<1>5. QED BY <1>1, <1>3, <1>4 DEF AreSatsinfoWidths

\* The cells of a SATSINFO have widths.
LEMMA SatsinfoAreCells ==
    ASSUME NEW cells \in Seq(IntCells), NEW m, m = Len(cells)
    PROVE  AreCells(cells, m)
<1>1. ASSUME NEW i \in 1 .. m PROVE cells[i].width \in Nat \ {0}
  <2>1. cells[i] \in IntCells OBVIOUS
  <2>2. PICK w \in {1, 2}, v \in Int : cells[i] = Cell(w, v) BY <2>1 DEF IntCells
  <2>3. cells[i].width = w BY <2>2 DEF Cell
  <2>4. QED BY <2>3
<1>2. m \in Nat OBVIOUS
<1>3. QED BY <1>1, <1>2 DEF AreCells

\* The places of the cells of a satellite.
ArePlaces(cells, a, q, c) ==
    /\ c \in Nat /\ Offset(cells, a + 1) = c
    /\ Offset(cells, a + 2) = c + 1 /\ Offset(cells, a + 3) = c + 3
    /\ \A y \in 0 .. 4 * q : Offset(cells, a + 4 + y) = c + 4 + y

\* So the cells of a satellite have these places.
LEMMA PlacesAre ==
    ASSUME NEW cells, NEW m \in Nat, AreCells(cells, m), NEW a \in Nat, NEW q \in Nat,
           a + 3 + 4 * q <= m, AreSatsinfoWidths(cells, a, q), NEW c, c = Offset(cells, a + 1)
    PROVE  ArePlaces(cells, a, q, c)
<1>1. /\ \A i \in 1 .. m + 1 : Offset(cells, i) \in Nat
      /\ \A i \in 1 .. m : Offset(cells, i + 1) = Offset(cells, i) + cells[i].width
  BY OffsetIs DEF AreCells
<1>2. c \in Nat
  <2>1. a + 1 \in 1 .. m + 1 OBVIOUS
  <2>2. QED BY <1>1, <2>1
<1>3. cells[a + 1].width = 1 /\ cells[a + 2].width = 2 /\ cells[a + 3].width = 1
  BY DEF AreSatsinfoWidths
<1>4. PICK x1 \in 1 .. m, x2 \in 1 .. m, x3 \in 1 .. m : x1 = a + 1 /\ x2 = a + 2 /\ x3 = a + 3
  OBVIOUS
<1>5. x1 + 1 = x2 /\ x2 + 1 = x3 /\ x3 + 1 = a + 4 BY <1>4
<1>6. Offset(cells, x2) = c + 1
  <2>1. Offset(cells, x1 + 1) = Offset(cells, x1) + cells[x1].width BY <1>1
  <2>2. QED BY <1>3, <1>4, <1>5, <2>1
<1>7. Offset(cells, x3) = c + 3
  <2>1. Offset(cells, x2 + 1) = Offset(cells, x2) + cells[x2].width BY <1>1
  <2>2. Offset(cells, x3) = (c + 1) + 2 BY <1>3, <1>4, <1>5, <1>6, <2>1
  <2>3. QED BY <1>2, <2>2
<1>8. Offset(cells, a + 4) = c + 4
  <2>1. Offset(cells, x3 + 1) = Offset(cells, x3) + cells[x3].width BY <1>1
  <2>2. Offset(cells, a + 4) = (c + 3) + 1 BY <1>3, <1>4, <1>5, <1>7, <2>1
  <2>3. QED BY <1>2, <2>2
<1>9. PICK e \in Nat : e = 4 * q OBVIOUS
<1>10. PICK s \in 1 .. m + 1, t \in 1 .. m + 1, w \in Nat : s = a + 4 /\ t = a + 4 + e /\ w = 1
  BY <1>9
<1>11. AsWide(cells, m, s, t, w)
  <2>1. ASSUME NEW i \in 1 .. m, s <= i, i < t PROVE cells[i].width = w
    <3>1. PICK y \in 1 .. 4 * q : y = i - (a + 3) BY <1>9, <1>10, <2>1
    <3>2. a + 3 + y = i BY <3>1
    <3>3. QED BY <1>10, <3>2 DEF AreSatsinfoWidths
  <2>2. QED BY <2>1 DEF AsWide
<1>12. InStep(cells, m, s, t, w) BY <1>11, Spaced
<1>13. ASSUME NEW y \in 0 .. 4 * q PROVE Offset(cells, a + 4 + y) = c + 4 + y
  <2>1. PICK i \in 1 .. m + 1 : i = a + 4 + y /\ s <= i /\ i <= t BY <1>9, <1>10
  <2>2. Offset(cells, i) = Offset(cells, s) + w * (i - s) BY <1>12, <2>1 DEF InStep
  <2>3. w * (i - s) = y BY <1>10, <2>1
  <2>4. QED BY <1>8, <1>10, <2>1, <2>2, <2>3
<1>14. QED BY <1>2, <1>4, <1>6, <1>7, <1>13 DEF ArePlaces

\* A satellite of a SATSINFO: its first cell follows cell a, its last is cell z.
IsSatelliteAt(cells, m, a, q, z, c) ==
    /\ AreCells(cells, m) /\ a \in Nat /\ q \in Nat \ {0} /\ z \in Nat
    /\ 6 <= a /\ z = a + 3 + 4 * q /\ z <= m
    /\ AreSatsinfoWidths(cells, a, q) /\ ArePlaces(cells, a, q, c)
    /\ cells[a + 7].value = q

\* Each of its satellites is one.
LEMMA SatelliteAt ==
    ASSUME NEW cells, NEW m \in Nat, m = Len(cells), NEW says, NEW L \in Nat, NEW K, NEW base,
           IsSatsinfo(cells, says, L, K, base), NEW i \in 1 .. L
    PROVE  IsSatelliteAt(cells, m, base[i], K[i], base[i + 1], Offset(cells, base[i] + 1))
<1>1. AreCells(cells, m)
  <2>1. cells \in Seq(IntCells) BY DEF IsSatsinfo
  <2>2. QED BY <2>1, SatsinfoAreCells
<1>2. PICK a \in Nat, q \in Nat \ {0}, z \in Nat :
         a = base[i] /\ q = K[i] /\ z = base[i + 1] /\ 6 <= a /\ z <= m
  <2>1. i \in 1 .. L + 1 /\ i + 1 \in 1 .. L + 1 OBVIOUS
  <2>2. \A x \in 1 .. L + 1 : base[x] \in Nat /\ 6 <= base[x] /\ base[x] <= m
    BY DEF IsSatsinfo
  <2>3. K[i] \in Nat \ {0} BY DEF IsSatsinfo, IsSatellite
  <2>4. QED BY <2>1, <2>2, <2>3
<1>3. z = a + 3 + 4 * q
  <2>1. base[i + 1] = base[i] + 3 + 4 * K[i] BY DEF IsSatsinfo
  <2>2. QED BY <1>2, <2>1
<1>4. AreSatsinfoWidths(cells, a, q) BY <1>2, SatsinfoWidthsAre
<1>5. PICK c : c = Offset(cells, a + 1) OBVIOUS
<1>6. ArePlaces(cells, a, q, c)
  <2>1. a + 3 + 4 * q <= m BY <1>2, <1>3
  <2>2. QED BY <1>1, <1>4, <1>5, <2>1, PlacesAre
<1>7. cells[a + 7].value = q
  <2>1. PICK j \in 1 .. q, p \in 1 .. 4 : j = 1 /\ p = 4 OBVIOUS
  <2>2. cells[a + 3 + 4 * (j - 1) + p] = SignalBlock(says[i], j)[p]
    BY <1>2, <2>1 DEF IsSatsinfo
  <2>3. a + 3 + 4 * (j - 1) + p = a + 7 BY <2>1
  <2>4. SignalBlock(says[i], j)[4] = Cell(1, q)
    <3>1. Len(says[i].signals) = q BY <1>2 DEF IsSatsinfo, IsSatellite
    <3>2. QED BY <3>1 DEF SignalBlock
  <2>5. cells[a + 7] = Cell(1, q) BY <2>1, <2>2, <2>3, <2>4
  <2>6. QED BY <2>5 DEF Cell
<1>8. IsSatelliteAt(cells, m, a, q, z, c)
  BY <1>1, <1>2, <1>3, <1>4, <1>6, <1>7 DEF IsSatelliteAt
<1>9. QED BY <1>2, <1>5, <1>8

\* The byte behind a satellite is that of the next, if all its bytes came.
LEMMA NextOffsetIs ==
    ASSUME NEW cells, NEW m \in Nat, NEW a, NEW q, NEW z, NEW c,
           IsSatelliteAt(cells, m, a, q, z, c), None \notin Int, NEW n \in Nat, n <= m
    PROVE  NextOffset(Payload(cells, n), c) = IF z <= n THEN Offset(cells, z + 1) ELSE None
<1>1. PICK payload : payload = Payload(cells, n) OBVIOUS
<1>2. /\ AreCells(cells, m) /\ a \in Nat /\ q \in Nat \ {0} /\ z \in Nat
      /\ z = a + 3 + 4 * q /\ z <= m
  BY DEF IsSatelliteAt
<1>3. /\ c \in Nat /\ \A y \in 0 .. 4 * q : Offset(cells, a + 4 + y) = c + 4 + y
  BY DEF IsSatelliteAt, ArePlaces
<1>4. Offset(cells, z + 1) = c + 4 + 4 * q
  <2>1. PICK y \in 0 .. 4 * q : y = 4 * q BY <1>2
  <2>2. a + 4 + y = z + 1 BY <1>2, <2>1
  <2>3. Offset(cells, a + 4 + y) = c + 4 + y BY <1>3
  <2>4. QED BY <2>1, <2>2, <2>3
<1>5. PICK b \in 1 .. m : b = a + 7 /\ b <= z BY <1>2
<1>6. Offset(cells, b + 1) = c + 8 /\ Offset(cells, b) = c + 7
  <2>1. PICK y \in 0 .. 4 * q, x \in 0 .. 4 * q : y = 4 /\ x = 3 BY <1>2
  <2>2. a + 4 + y = b + 1 /\ a + 4 + x = b BY <1>2, <1>5, <2>1
  <2>3. Offset(cells, a + 4 + y) = c + 4 + y /\ Offset(cells, a + 4 + x) = c + 4 + x
    BY <1>3
  <2>4. c + 4 + y = c + 8 /\ c + 4 + x = c + 7 BY <1>3, <2>1
  <2>5. QED BY <2>2, <2>3, <2>4
<1>7. has_range(payload, c, 8) <=> b <= n
  <2>1. Offset(cells, b + 1) <= payload.size <=> b <= n BY <1>1, <1>2, RangeIs
  <2>2. QED BY <1>6, <2>1 DEF has_range
<1>8. has_range(payload, c, 4 + 4 * q) <=> z <= n
  <2>1. Offset(cells, z + 1) <= payload.size <=> z <= n BY <1>1, <1>2, RangeIs
  <2>2. c + (4 + 4 * q) = c + 4 + 4 * q BY <1>2, <1>3
  <2>3. QED BY <1>4, <2>1, <2>2 DEF has_range
<1>9. ReadAt(payload, c + 7, 1) = IF b <= n THEN q ELSE None
  <2>1. ReadAt(payload, Offset(cells, b), cells[b].width) =
           IF b <= n THEN cells[b].value ELSE None
    BY <1>1, <1>2, FrameValue
  <2>2. cells[b].width = 1
    <3>1. PICK y \in 1 .. 4 * q : y = 4 BY <1>2
    <3>2. a + 3 + y = b BY <1>2, <1>5, <3>1
    <3>3. QED BY <3>2 DEF IsSatelliteAt, AreSatsinfoWidths
  <2>3. cells[b].value = q BY <1>5 DEF IsSatelliteAt
  <2>4. QED BY <1>6, <2>1, <2>2, <2>3
<1>10. c # None BY <1>3
<1>11. CASE ~ (b <= n)
  <2>1. NextOffset(payload, c) = None BY <1>7, <1>11, Zenon DEF NextOffset
  <2>2. ~ (z <= n) BY <1>2, <1>5, <1>11
  <2>3. QED BY <1>1, <2>1, <2>2
<1>12. CASE b <= n
  <2>1. ReadAt(payload, c + 7, 1) = q BY <1>9, <1>12
  <2>2. q # 0 BY <1>2
  <2>3. NextOffset(payload, c) =
           IF has_range(payload, c, 4 + 4 * q) THEN c + 4 + 4 * q ELSE None
    BY <1>7, <1>10, <1>12, <2>1, <2>2, Zenon DEF NextOffset
  <2>4. QED BY <1>1, <1>4, <1>8, <2>3
<1>13. QED BY <1>11, <1>12

\* The byte of satellite i + 1, in a frame.
OffsetFound(payload, cells, n, base, i) ==
    SatsinfobStarts(payload)[i] =
       IF base[i + 1] <= n THEN Offset(cells, base[i + 1] + 1) ELSE None

\* All the satellites are found if and only if all their bytes came.
LEMMA FrameStarts ==
    ASSUME NEW cells, NEW m \in Nat, m = Len(cells), NEW says, NEW L \in Nat, NEW K, NEW base,
           IsSatsinfo(cells, says, L, K, base), None \notin Int,
           NEW n \in Nat, 6 <= n, n <= m, Offset(cells, 7) = 6, NEW i \in 0 .. L
    PROVE  OffsetFound(Payload(cells, n), cells, n, base, i)
<1>1. PICK payload : payload = Payload(cells, n) OBVIOUS
<1>2. AreOffsets(SatsinfobStarts(payload), payload)
  <2>1. ASSUME NEW c \in Int, NextOffset(payload, c) # None
        PROVE  NextOffset(payload, c) \in Int
    <3>1. /\ has_range(payload, c, 8)
          /\ NextOffset(payload, c) = c + 4 + 4 * ReadAt(payload, c + 7, 1)
      BY <2>1, Zenon DEF NextOffset
    <3>2. has_range(payload, c + 7, 1)
      <4>1. payload.size \in Int
        <5>1. payload.size = Offset(cells, n + 1) BY <1>1 DEF Payload
        <5>2. AreCells(cells, m) BY SatsinfoAreCells DEF IsSatsinfo
        <5>3. n + 1 \in 1 .. m + 1 OBVIOUS
        <5>4. \A x \in 1 .. m + 1 : Offset(cells, x) \in Nat BY <5>2, OffsetIs DEF AreCells
        <5>5. QED BY <5>1, <5>3, <5>4
      <4>2. QED BY <3>1, <4>1 DEF has_range
    <3>3. PICK v : v = ReadAt(payload, c + 7, 1) OBVIOUS
    <3>4. v \in Int
      <4>1. cells \in Seq(IntCells) /\ n <= Len(cells) BY DEF IsSatsinfo
      <4>2. CASE v = None
        <5>1. \E j \in 1 .. n : cells[j].value = None
          <6>1. Garbage # None BY DEF Garbage
          <6>2. /\ c + 7 \in DOMAIN payload.begins
                /\ payload.begins[c + 7].value = None
            BY <3>2, <3>3, <4>2, <6>1, Zenon DEF ReadAt
          <6>3. payload.begins = [p \in {Offset(cells, j) : j \in 1 .. n} |->
                                     cells[CHOOSE j \in 1 .. n : Offset(cells, j) = p]]
            BY <1>1 DEF Payload
          <6>4. PICK j \in 1 .. n : Offset(cells, j) = c + 7 BY <6>2, <6>3
          <6>5. PICK k \in 1 .. n : k = CHOOSE x \in 1 .. n : Offset(cells, x) = c + 7
            BY <6>4
          <6>6. payload.begins[c + 7] = cells[k] BY <6>2, <6>3, <6>5
          <6>7. QED BY <6>2, <6>6
        <5>2. PICK j \in 1 .. n : cells[j].value = None BY <5>1
        <5>3. cells[j] \in IntCells
          <6>1. j \in 1 .. Len(cells) BY <4>1
          <6>2. QED BY <4>1, <6>1
        <5>4. cells[j].value \in Int BY <5>3 DEF IntCells, Cell
        <5>5. QED BY <5>2, <5>4
      <4>3. CASE v # None BY <1>1, <3>3, <4>1, <4>3, ReadsInts
      <4>4. QED BY <4>2, <4>3
    <3>5. NextOffset(payload, c) = c + 4 + 4 * v BY <3>1, <3>3, Zenon
    <3>6. QED BY <3>4, <3>5
  <2>2. QED BY <2>1, OffsetsAre
<1>3. PICK start : start = SatsinfobStarts(payload) OBVIOUS
<1>4. start[0] = 6 /\ \A j \in Nat : start[j + 1] = NextOffset(payload, start[j])
  BY <1>2, <1>3 DEF AreOffsets
<1>5. \A j \in 1 .. L + 1 : base[j] \in Nat BY DEF IsSatsinfo
<1> DEFINE Good(j) == start[j] = IF base[j + 1] <= n THEN Offset(cells, base[j + 1] + 1)
                                 ELSE None
           bad == {j \in 0 .. L : ~ Good(j)}
<1>6. bad = {}
  <2>1. SUFFICES ASSUME bad # {} PROVE FALSE OBVIOUS
  <2>2. PICK j \in bad : \A y \in bad : j <= y
    <3>1. bad \in SUBSET Nat OBVIOUS
    <3> HIDE DEF bad
    <3>2. QED BY <2>1, <3>1, LeastNat
  <2>3. j \in 0 .. L /\ ~ Good(j) OBVIOUS
  <2>4. j # 0
    <3>1. base[0 + 1] = 6 BY DEF IsSatsinfo
    <3>2. base[0 + 1] <= n /\ base[0 + 1] + 1 = 7 BY <3>1
    <3>3. Good(0) BY <1>4, <3>2
    <3>4. QED BY <2>3, <3>3
  <2>5. PICK p \in 0 .. L, r \in 1 .. L : j = p + 1 /\ r = j /\ ~ (j <= p)
    <3>1. j - 1 \in 0 .. L /\ j \in 1 .. L /\ ~ (j <= j - 1) BY <2>3, <2>4
    <3>2. QED BY <2>3, <3>1
  <2>6. Good(p)
    <3>1. p \notin bad BY <2>2, <2>5
    <3> HIDE DEF Good
    <3>2. QED BY <3>1
  <2>7. PICK a, q, z, c :
           /\ a = base[r] /\ q = K[r] /\ z = base[r + 1] /\ c = Offset(cells, a + 1)
           /\ IsSatelliteAt(cells, m, a, q, z, c)
    <3>1. IsSatelliteAt(cells, m, base[r], K[r], base[r + 1], Offset(cells, base[r] + 1))
      BY SatelliteAt
    <3>2. QED BY <3>1, Zenon
  <2>8. a \in Nat /\ z \in Nat /\ a <= z
    <3>1. a \in Nat /\ z \in Nat /\ q \in Nat /\ z = a + 3 + 4 * q
      BY <2>7, Zenon DEF IsSatelliteAt
    <3>2. QED BY <3>1
  <2>9. start[p] = IF a <= n THEN c ELSE None BY <2>5, <2>6, <2>7
  <2>10. start[j] = NextOffset(payload, start[p])
    <3>1. p \in Nat OBVIOUS
    <3>2. QED BY <1>4, <2>5, <3>1
  <2>11. NextOffset(payload, c) = IF z <= n THEN Offset(cells, z + 1) ELSE None
    BY <1>1, <2>7, NextOffsetIs
  <2>12. CASE a <= n
    <3>1. start[j] = NextOffset(payload, c) BY <2>9, <2>10, <2>12
    <3>2. Good(j) BY <2>5, <2>7, <2>11, <3>1
    <3>3. QED BY <2>3, <3>2
  <2>13. CASE ~ (a <= n)
    <3>1. start[j] = None
      <4>1. start[p] = None BY <2>9, <2>13
      <4>2. QED BY <2>10, <4>1 DEF NextOffset
    <3>2. ~ (z <= n) BY <2>8, <2>13
    <3>3. Good(j) BY <2>5, <2>7, <3>1, <3>2
    <3>4. QED BY <2>3, <3>3
  <2>14. QED BY <2>12, <2>13
<1>7. QED BY <1>1, <1>3, <1>6 DEF OffsetFound

\* A satellite as it is read from the byte c of a frame.
FrameSatellite(payload, c) ==
    [prn |-> ReadAt(payload, c, 1), azimuth |-> ReadAt(payload, c + 1, 2),
     elevation |-> ReadAt(payload, c + 3, 1),
     signals |-> [j \in 1 .. ReadAt(payload, c + 7, 1) |->
                    [system |-> ReadAt(payload, c + 4 + 4 * (j - 1), 1),
                     cn0 |-> ReadAt(payload, c + 4 + 4 * (j - 1) + 1, 1),
                     frequency |-> ReadAt(payload, c + 4 + 4 * (j - 1) + 2, 1)]]]

\* Where the cells of a satellite came, it is read as it was sent.
LEMMA FrameSatelliteIs ==
    ASSUME NEW cells, NEW m \in Nat, m = Len(cells), NEW says, NEW L \in Nat, NEW K, NEW base,
           IsSatsinfo(cells, says, L, K, base), NEW i \in 1 .. L,
           NEW n \in Nat, n <= m, base[i + 1] <= n
    PROVE  FrameSatellite(Payload(cells, n), Offset(cells, base[i] + 1))
              = SatelliteOf(says[i], K[i])
<1>1. PICK payload : payload = Payload(cells, n) OBVIOUS
<1>2. PICK a, q, z, c :
         /\ a = base[i] /\ q = K[i] /\ z = base[i + 1] /\ c = Offset(cells, a + 1)
         /\ IsSatelliteAt(cells, m, a, q, z, c)
  <2>1. IsSatelliteAt(cells, m, base[i], K[i], base[i + 1], Offset(cells, base[i] + 1))
    BY SatelliteAt
  <2>2. QED BY <2>1
<1>3. /\ AreCells(cells, m) /\ a \in Nat /\ q \in Nat \ {0} /\ z \in Nat
      /\ z = a + 3 + 4 * q /\ z <= m
  BY <1>2, Zenon DEF IsSatelliteAt
<1>4. z <= n BY <1>2
<1>5. /\ c \in Nat /\ Offset(cells, a + 1) = c
      /\ Offset(cells, a + 2) = c + 1 /\ Offset(cells, a + 3) = c + 3
      /\ \A y \in 0 .. 4 * q : Offset(cells, a + 4 + y) = c + 4 + y
  BY <1>2, Zenon DEF IsSatelliteAt, ArePlaces
<1>6. ASSUME NEW x \in 1 .. m, x <= n
      PROVE  ReadAt(payload, Offset(cells, x), cells[x].width) = cells[x].value
  BY <1>1, <1>3, <1>6, FrameValue
<1>7. /\ ReadAt(payload, c, 1) = says[i].prn /\ ReadAt(payload, c + 1, 2) = says[i].azimuth
      /\ ReadAt(payload, c + 3, 1) = says[i].elevation
  <2>1. PICK x1 \in 1 .. m, x2 \in 1 .. m, x3 \in 1 .. m :
           /\ x1 = a + 1 /\ x2 = a + 2 /\ x3 = a + 3 /\ x1 <= n /\ x2 <= n /\ x3 <= n
    BY <1>3, <1>4
  <2>2. /\ cells[x1] = Cell(1, says[i].prn) /\ cells[x2] = Cell(2, says[i].azimuth)
        /\ cells[x3] = Cell(1, says[i].elevation)
    BY <1>2, <2>1 DEF IsSatsinfo
  <2>3. /\ cells[x1].width = 1 /\ cells[x1].value = says[i].prn
        /\ cells[x2].width = 2 /\ cells[x2].value = says[i].azimuth
        /\ cells[x3].width = 1 /\ cells[x3].value = says[i].elevation
    BY <2>2 DEF Cell
  <2>4. /\ Offset(cells, x1) = c /\ Offset(cells, x2) = c + 1 /\ Offset(cells, x3) = c + 3
    BY <1>5, <2>1
  <2>5. QED BY <1>6, <2>1, <2>3, <2>4
<1>8. ASSUME NEW j \in 1 .. q, NEW p \in 1 .. 4
      PROVE  ReadAt(payload, c + 4 + 4 * (j - 1) + (p - 1), 1) =
                SignalBlock(says[i], j)[p].value
  <2>1. PICK x \in 1 .. m : x = a + 3 + 4 * (j - 1) + p /\ x <= n BY <1>3, <1>4
  <2>2. cells[x] = SignalBlock(says[i], j)[p] BY <1>2, <2>1 DEF IsSatsinfo
  <2>3. PICK y \in 0 .. 4 * q : y = 4 * (j - 1) + (p - 1) BY <1>3
  <2>4. Offset(cells, x) = c + 4 + y
    <3>1. a + 4 + y = x BY <1>3, <2>1, <2>3
    <3>2. QED BY <1>5, <3>1
  <2>5. c + 4 + y = c + 4 + 4 * (j - 1) + (p - 1) BY <1>5, <2>3
  <2>6. SignalBlock(says[i], j)[p].width = 1
    <3>1. p = 1 \/ p = 2 \/ p = 3 \/ p = 4 OBVIOUS
    <3>2. QED BY SMTT(30), <3>1 DEF SignalBlock, Cell
  <2>7. QED BY <1>6, <2>1, <2>2, <2>4, <2>5, <2>6
<1>9. ASSUME NEW j \in 1 .. q
      PROVE  /\ ReadAt(payload, c + 4 + 4 * (j - 1), 1) = says[i].signals[j].system
             /\ ReadAt(payload, c + 4 + 4 * (j - 1) + 1, 1) = says[i].signals[j].cn0
             /\ ReadAt(payload, c + 4 + 4 * (j - 1) + 2, 1) = says[i].signals[j].frequency
             /\ ReadAt(payload, c + 4 + 4 * (j - 1) + 3, 1) = Len(says[i].signals)
  <2>1. PICK b \in Nat : b = c + 4 + 4 * (j - 1) BY <1>5
  <2>2. \A p \in 1 .. 4 : ReadAt(payload, b + (p - 1), 1) = SignalBlock(says[i], j)[p].value
    BY <1>8, <2>1
  <2>3. PICK p1 \in 1 .. 4, p2 \in 1 .. 4, p3 \in 1 .. 4, p4 \in 1 .. 4 :
           p1 = 1 /\ p2 = 2 /\ p3 = 3 /\ p4 = 4
    OBVIOUS
  <2>4. b + (p1 - 1) = b /\ b + (p2 - 1) = b + 1 /\ b + (p3 - 1) = b + 2 /\ b + (p4 - 1) = b + 3
    BY <2>3
  <2>5. /\ ReadAt(payload, b, 1) = SignalBlock(says[i], j)[1].value
        /\ ReadAt(payload, b + 1, 1) = SignalBlock(says[i], j)[2].value
        /\ ReadAt(payload, b + 2, 1) = SignalBlock(says[i], j)[3].value
        /\ ReadAt(payload, b + 3, 1) = SignalBlock(says[i], j)[4].value
    BY <2>2, <2>3, <2>4
  <2>6. QED BY <2>1, <2>5 DEF SignalBlock, Cell
<1>10. ReadAt(payload, c + 7, 1) = q
  <2>1. PICK j \in 1 .. q : j = 1 BY <1>3
  <2>2. c + 4 + 4 * (j - 1) + 3 = c + 7 BY <1>5, <2>1
  <2>3. Len(says[i].signals) = q BY <1>2 DEF IsSatsinfo, IsSatellite
  <2>4. QED BY <1>9, <2>2, <2>3
<1>11. FrameSatellite(payload, c) = SatelliteOf(says[i], q)
  <2> DEFINE signals ==
                [j \in 1 .. q |-> [system |-> ReadAt(payload, c + 4 + 4 * (j - 1), 1),
                                   cn0 |-> ReadAt(payload, c + 4 + 4 * (j - 1) + 1, 1),
                                   frequency |-> ReadAt(payload, c + 4 + 4 * (j - 1) + 2, 1)]]
             sent == [j \in 1 .. q |-> [system |-> says[i].signals[j].system,
                                        cn0 |-> says[i].signals[j].cn0,
                                        frequency |-> says[i].signals[j].frequency]]
  <2>1. signals = sent BY <1>9
  <2>2. FrameSatellite(payload, c) =
           [prn |-> ReadAt(payload, c, 1), azimuth |-> ReadAt(payload, c + 1, 2),
            elevation |-> ReadAt(payload, c + 3, 1), signals |-> signals]
    BY <1>10, Zenon DEF FrameSatellite
  <2>3. SatelliteOf(says[i], q) = [prn |-> says[i].prn, azimuth |-> says[i].azimuth,
                                   elevation |-> says[i].elevation, signals |-> sent]
    BY Zenon DEF SatelliteOf
  <2> HIDE DEF signals, sent
  <2>4. QED BY <1>7, <2>1, <2>2, <2>3, Zenon
<1>12. QED BY <1>1, <1>2, <1>11

\* A frame of a SATSINFO is understood.
LEMMA SatsinfoFrame ==
    ASSUME NEW says \in Seq(SatsinfoSatellite), NEW cells, cells = SatsinfoCells(says),
           NEW n \in 0 .. Len(cells), None \notin Int,
           NEW told, told = [version |-> 2, flag |-> 63, satellites |-> says], None # told
    PROVE  Understood(parse_satsinfob(Payload(cells, n)), told, n = Len(cells))
<1>1. PICK L : L = Len(says) OBVIOUS
<1>2. PICK K : K = [i \in 1 .. L |-> Len(says[i].signals)] OBVIOUS
<1>3. /\ L \in Nat /\ \E base : IsSatsinfo(cells, says, L, K, base)
      /\ says = [i \in 1 .. L |-> SatelliteOf(says[i], K[i])]
  <2>1. SatsinfoTells(cells, says, L, K) BY <1>1, <1>2, SatsinfoIs
  <2>2. QED BY <2>1 DEF SatsinfoTells
<1>4. PICK base : IsSatsinfo(cells, says, L, K, base) BY <1>3
<1>5. PICK m \in Nat : m = Len(cells) /\ m = base[L + 1] /\ 6 <= m
  <2>1. L + 1 \in 1 .. L + 1 BY <1>3
  <2>2. base[L + 1] \in Nat /\ 6 <= base[L + 1] /\ Len(cells) = base[L + 1]
    BY <1>4, <2>1 DEF IsSatsinfo
  <2>3. QED BY <2>2
<1>6. AreCells(cells, m)
  <2>1. cells \in Seq(IntCells) BY <1>4 DEF IsSatsinfo
  <2>2. QED BY <1>5, <2>1, SatsinfoAreCells
<1>7. PICK k \in Nat : k = n /\ k <= m BY <1>5
<1>8. PICK payload : payload = Payload(cells, k) OBVIOUS
<1>9. PICK got : got = parse_satsinfob(payload) OBVIOUS
<1> DEFINE whole == n = Len(cells)
<1> whole \in BOOLEAN OBVIOUS
<1> HIDE DEF whole
<1>10. whole <=> k = m BY <1>5, <1>7 DEF whole
<1>11. ASSUME NEW i \in 1 .. 7 PROVE Offset(cells, i) = i - 1
  <2>1. PICK a \in 1 .. m + 1, b \in 1 .. m + 1, w \in Nat : a = 1 /\ b = 7 /\ w = 1 BY <1>5
  <2>2. \A x \in 1 .. 6 : cells[x].width = 1 BY <1>4 DEF IsSatsinfo
  <2>3. AsWide(cells, m, a, b, w) BY SMTT(30), <2>1, <2>2 DEF AsWide
  <2>4. InStep(cells, m, a, b, w) BY <1>6, <2>3, Spaced
  <2>5. Offset(cells, 1) = 0 BY <1>6, OffsetIs DEF AreCells
  <2>6. PICK x \in 1 .. m + 1 : x = i /\ a <= x /\ x <= b BY <1>5, <2>1
  <2>7. Offset(cells, x) = Offset(cells, a) + w * (x - a) BY <2>4, <2>6 DEF InStep
  <2>8. QED BY <2>1, <2>5, <2>6, <2>7
<1>12. Offset(cells, 7) = 6
  <2>1. PICK i \in 1 .. 7 : i = 7 OBVIOUS
  <2>2. QED BY <1>11, <2>1
<1>13. payload.size < 6 <=> k < 6
  <2>1. PICK y \in Nat : y = 6 /\ y <= m BY <1>5
  <2>2. Offset(cells, y + 1) <= payload.size <=> y <= k
    <3>1. y <= m BY <2>1
    <3>2. QED BY <1>6, <1>7, <1>8, <3>1, RangeIs
  <2>3. payload.size \in Nat
    <3>1. payload.size = Offset(cells, k + 1) BY <1>8 DEF Payload
    <3>2. k + 1 \in 1 .. m + 1 BY <1>7
    <3>3. \A x \in 1 .. m + 1 : Offset(cells, x) \in Nat BY <1>6, OffsetIs DEF AreCells
    <3>4. QED BY <3>1, <3>2, <3>3
  <2>4. 6 <= payload.size <=> 6 <= k
    <3>1. y + 1 = 7 BY <2>1
    <3>2. QED BY <1>12, <2>1, <2>2, <3>1
  <2>5. QED BY <2>3, <2>4
<1>14. ASSUME got = None, ~ whole PROVE Understood(got, told, whole)
  BY <1>14, AllOrNothing
<1>15. CASE k < 6
  <2>1. got = None BY <1>9, <1>13, <1>15, Zenon DEF parse_satsinfob
  <2>2. ~ whole BY <1>5, <1>10, <1>15
  <2>3. QED BY <1>7, <1>8, <1>9, <1>14, <2>1, <2>2 DEF whole
<1>16. CASE ~ (k < 6)
  <2>1. ASSUME NEW x \in 1 .. 6 PROVE ReadAt(payload, x - 1, 1) = cells[x].value
    <3>1. PICK y \in 1 .. m : y = x /\ y <= k BY <1>7, <1>16
    <3>2. ReadAt(payload, Offset(cells, y), cells[y].width) =
             IF y <= k THEN cells[y].value ELSE None
      BY <1>6, <1>7, <1>8, FrameValue
    <3>3. cells[x].width = 1 BY <1>4 DEF IsSatsinfo
    <3>4. Offset(cells, x) = x - 1
      <4>1. x \in 1 .. 7 OBVIOUS
      <4>2. QED BY <1>11, <4>1
    <3>5. QED BY <3>1, <3>2, <3>3, <3>4
  <2>2. ReadAt(payload, 0, 1) = L /\ ReadAt(payload, 1, 1) = 2 /\ ReadAt(payload, 5, 1) = 63
    <3>1. PICK x \in 1 .. 6, y \in 1 .. 6, z \in 1 .. 6 : x = 1 /\ y = 2 /\ z = 6 OBVIOUS
    <3>2. x - 1 = 0 /\ y - 1 = 1 /\ z - 1 = 5 BY <3>1
    <3>3. cells[x] = Cell(1, L) /\ cells[y] = Cell(1, 2) /\ cells[z] = Cell(1, 63)
      BY <1>4, <3>1 DEF IsSatsinfo
    <3>4. cells[x].value = L /\ cells[y].value = 2 /\ cells[z].value = 63 BY <3>3 DEF Cell
    <3>5. QED BY <2>1, <3>2, <3>4
  <2>3. ASSUME NEW j \in 0 .. L PROVE OffsetFound(payload, cells, k, base, j)
    <3>1. 6 <= k BY <1>16
    <3>2. QED BY <1>3, <1>4, <1>5, <1>7, <1>8, <1>12, <3>1, FrameStarts
  <2>4. SatsinfobStarts(payload)[L] = IF m <= k THEN Offset(cells, m + 1) ELSE None
    <3>1. L \in 0 .. L BY <1>3
    <3>2. OffsetFound(payload, cells, k, base, L) BY <2>3, <3>1
    <3>3. QED BY <1>5, <3>2 DEF OffsetFound
  <2>5. CASE k # m
    <3>1. SatsinfobStarts(payload)[L] = None BY <1>7, <2>4, <2>5
    <3>2. SatsinfobStarts(payload)[ReadAt(payload, 0, 1)] = None BY <2>2, <3>1
    <3>3. got = None BY <1>9, <3>2, Zenon DEF parse_satsinfob
    <3>4. ~ whole BY <1>10, <2>5
    <3>5. QED BY <1>7, <1>8, <1>9, <1>14, <3>3, <3>4 DEF whole
  <2>6. CASE k = m
    <3>1. SatsinfobStarts(payload)[ReadAt(payload, 0, 1)] # None
      <4>1. m <= k BY <2>6
      <4>2. SatsinfobStarts(payload)[L] = Offset(cells, m + 1) BY <2>4, <4>1
      <4>3. Offset(cells, m + 1) \in Nat
        <5>1. m + 1 \in 1 .. m + 1 OBVIOUS
        <5>2. \A x \in 1 .. m + 1 : Offset(cells, x) \in Nat
          BY <1>6, OffsetIs DEF AreCells
        <5>3. QED BY <5>1, <5>2
      <4>4. Offset(cells, m + 1) # None BY <4>3
      <4>5. QED BY <2>2, <4>2, <4>4
    <3> DEFINE start == SatsinfobStarts(payload)
    <3>2. got = [version |-> 2, flag |-> 63,
                 satellites |-> [i \in 1 .. L |-> FrameSatellite(payload, start[i - 1])]]
      <4>1. ~ (payload.size < 6 \/ start[ReadAt(payload, 0, 1)] = None)
        BY <1>13, <1>16, <3>1
      <4>2. got = [version |-> ReadAt(payload, 1, 1), flag |-> ReadAt(payload, 5, 1),
                   satellites |-> [i \in 1 .. ReadAt(payload, 0, 1) |->
                                      FrameSatellite(payload, start[i - 1])]]
        BY <1>9, <4>1, Zenon DEF parse_satsinfob, FrameSatellite
      <4>3. QED BY <2>2, <4>2, Zenon
    <3> HIDE DEF start
    <3>3. ASSUME NEW i \in 1 .. L
          PROVE  FrameSatellite(payload, start[i - 1]) = SatelliteOf(says[i], K[i])
      <4>1. PICK j \in 0 .. L : j = i - 1 /\ j + 1 = i BY <1>3
      <4>2. i \in 1 .. L + 1 /\ i + 1 \in 1 .. L + 1 BY <1>3
      <4>3. base[i] <= k /\ base[i + 1] <= k
        <5>1. \A x \in 1 .. L + 1 : base[x] <= base[L + 1] BY <1>4 DEF IsSatsinfo
        <5>2. QED BY <1>5, <2>6, <4>2, <5>1
      <4>4. start[j] = Offset(cells, base[i] + 1)
        <5>1. OffsetFound(payload, cells, k, base, j) BY <2>3
        <5>2. QED BY <4>1, <4>3, <5>1 DEF OffsetFound, start
      <4>5. FrameSatellite(payload, Offset(cells, base[i] + 1)) = SatelliteOf(says[i], K[i])
        BY SMTT(30), <1>3, <1>4, <1>5, <1>7, <1>8, <4>3, FrameSatelliteIs
      <4>6. QED BY <4>1, <4>4, <4>5
    <3>4. [i \in 1 .. L |-> FrameSatellite(payload, start[i - 1])] =
             [i \in 1 .. L |-> SatelliteOf(says[i], K[i])]
      BY <3>3
    <3>5. got = told BY <1>3, <3>2, <3>4, Zenon
    <3>6. Understood(got, told, whole) BY <3>5, Zenon DEF Understood
    <3>7. QED BY <1>7, <1>8, <1>9, <3>6 DEF whole
  <2>7. QED BY <2>5, <2>6
<1>17. QED BY <1>15, <1>16

-----------------------------------------------------------------------------
(* All logs of fixed layout *)

\* A log of fixed layout has a cell per word.
LEMMA FixedLen ==
    ASSUME NEW log, NEW cells, IsFixedLog(log, cells), NEW m \in Nat, DOMAIN Layout(log) = 1 .. m
    PROVE  Len(cells) = m
<1>1. cells = [i \in 1 .. m |-> cells[i]] BY DEF IsFixedLog
<1>2. PICK c : c = [i \in 1 .. m |-> cells[i]] OBVIOUS
<1>3. c \in [1 .. m -> {cells[i] : i \in 1 .. m}] BY <1>2
<1>4. Len(c) = m BY <1>3, FunctionIsSeq
<1>5. QED BY <1>1, <1>2, <1>4

\* A log of fixed layout is read by its table.
ReadsByTable(log, parsed, fields) ==
    \E m \in Nat : \E unread \in {{}, Unread} : ReadsLine(log, parsed, fields, m, unread)

\* What is read by a table is understood.
LEMMA TableTells ==
    ASSUME NEW log, NEW cells, IsFixedLog(log, cells),
           NEW n \in 0 .. Len(cells), NEW blank \in 0 .. Len(cells), NEW got,
           ReadsByTable(log, got, Fields(log, cells, n, blank)),
           \A unread \in {{}, Unread} :
              None # [name \in DOMAIN Told(log, cells) \ unread |-> Told(log, cells)[name]]
    PROVE  Understood(got, Told(log, cells), blank = 0 /\ n = Len(cells))
<1>1. PICK m \in Nat, unread \in {{}, Unread} :
         ReadsLine(log, got, Fields(log, cells, n, blank), m, unread)
  BY DEF ReadsByTable
<1>2. DOMAIN Layout(log) = 1 .. m BY <1>1 DEF ReadsLine
<1>3. Len(cells) = m BY <1>2, FixedLen
<1>4. n \in 0 .. m /\ blank \in 0 .. m BY <1>3
<1>5. Understood(got, Told(log, cells), blank = 0 /\ n = m) BY <1>1, <1>4, ReadsLineTells
<1>6. QED BY <1>3, <1>5

\* The logs of fixed layout that are sent as lines, and their parsers.
FixedLogs == Logs \ {"SATSINFO", "BESTSAT", "OBSVMCMP"}

\* They are twelve.
LEMMA FixedLogsAre ==
    FixedLogs = {"GGA", "HDT", "HPR", "GSV", "PVTSLN", "BESTNAV", "RTKSTATUS", "RTCMSTATUS",
                 "AGC", "HWSTATUS", "JAMSTATUS", "FREQJAMSTATUS"}
<1>1. DOMAIN MessageId = {"OBSVMCMP", "HWSTATUS", "AGC", "RTKSTATUS", "JAMSTATUS",
                          "FREQJAMSTATUS", "PVTSLN", "BESTSAT", "BESTNAV", "SATSINFO",
                          "RTCMSTATUS"}
  BY DEF MessageId
<1>2. QED BY <1>1 DEF FixedLogs, Logs, Nmea

\* Each parser of a line reads by its table, but that of a PVTSLN, which goes on from
\* there, and that of a short BESTNAVA.
LEMMA ParsesByTable ==
    ASSUME NEW fields, NEW log \in FixedLogs \ {"PVTSLN"},
           log = "BESTNAV" => Len(fields) >= 39
    PROVE  ReadsByTable(log, Parse(log, fields), fields)
<1>1. CASE log = "GGA"
  <2>1. Parse(log, fields) = parse_gga(fields) BY <1>1 DEF Parse
  <2>2. QED BY <1>1, <2>1, GgaLine DEF ReadsByTable
<1>2. CASE log = "HDT"
  <2>1. Parse(log, fields) = parse_hdt(fields) BY <1>2 DEF Parse
  <2>2. QED BY <1>2, <2>1, HdtLine DEF ReadsByTable
<1>3. CASE log = "HPR"
  <2>1. Parse(log, fields) = parse_hpr(fields) BY <1>3 DEF Parse
  <2>2. QED BY <1>3, <2>1, HprLine DEF ReadsByTable
<1>4. CASE log = "GSV"
  <2>1. Parse(log, fields) = parse_gsv(fields) BY <1>4 DEF Parse
  <2>2. QED BY <1>4, <2>1, GsvLine DEF ReadsByTable
<1>5. CASE log = "BESTNAV"
  <2>1. Parse(log, fields) = parse_bestnava(fields) BY <1>5 DEF Parse
  <2>2. ReadsLine("BESTNAV", parse_bestnava(fields), fields, 30, {}) BY <1>5, BestnavLine
  <2>3. QED BY <1>5, <2>1, <2>2 DEF ReadsByTable
<1>6. CASE log = "RTKSTATUS"
  <2>1. Parse(log, fields) = parse_rtkstatusa(fields) BY <1>6 DEF Parse
  <2>2. QED BY <1>6, <2>1, RtkstatusLine DEF ReadsByTable
<1>7. CASE log = "RTCMSTATUS"
  <2>1. Parse(log, fields) = parse_rtcmstatusa(fields) BY <1>7 DEF Parse
  <2>2. QED BY <1>7, <2>1, RtcmstatusLine DEF ReadsByTable
<1>8. CASE log = "AGC"
  <2>1. Parse(log, fields) = parse_agca(fields) BY <1>8 DEF Parse
  <2>2. QED BY <1>8, <2>1, AgcLine DEF ReadsByTable
<1>9. CASE log = "HWSTATUS"
  <2>1. Parse(log, fields) = parse_hwstatusa(fields) BY <1>9 DEF Parse
  <2>2. QED BY <1>9, <2>1, HwstatusLine DEF ReadsByTable
<1>10. CASE log = "JAMSTATUS"
  <2>1. Parse(log, fields) = parse_jamstatusa(fields) BY <1>10 DEF Parse
  <2>2. QED BY <1>10, <2>1, JamstatusLine DEF ReadsByTable
<1>11. CASE log = "FREQJAMSTATUS"
  <2>1. Parse(log, fields) = parse_freqjamstatusa(fields) BY <1>11 DEF Parse
  <2>2. QED BY <1>11, <2>1, FreqjamstatusLine DEF ReadsByTable
<1>12. QED
  BY <1>1, <1>2, <1>3, <1>4, <1>5, <1>6, <1>7, <1>8, <1>9, <1>10, <1>11, FixedLogsAre

\* The frames likewise.
FrameByTable(log, parsed, payload) == \E m \in Nat : ReadsFrame(log, parsed, payload, m)

\* What is read so is understood.
LEMMA FrameTableTells ==
    ASSUME NEW log, NEW cells, IsFixedLog(log, cells), NEW n \in 0 .. Len(cells),
           None \notin Int, NEW got, FrameByTable(log, got, Payload(cells, n)),
           None # [name \in DOMAIN Told(log, cells) |-> Told(log, cells)[name]]
    PROVE  Understood(got, Told(log, cells), n = Len(cells))
<1>1. PICK m \in Nat : ReadsFrame(log, got, Payload(cells, n), m) BY DEF FrameByTable
<1>2. DOMAIN Layout(log) = 1 .. m BY <1>1 DEF ReadsFrame, AreBegins
<1>3. Len(cells) = m BY <1>2, FixedLen
<1>4. n \in 0 .. m BY <1>3
<1>5. Understood(got, Told(log, cells), n = m) BY <1>1, <1>4, ReadsFrameTells
<1>6. QED BY <1>3, <1>5

\* Each parser of a frame reads by its table, but that of a PVTSLN.
LEMMA FrameParsesByTable ==
    ASSUME NEW payload, NEW log \in FixedLogs \ (Nmea \cup {"PVTSLN"})
    PROVE  FrameByTable(log, ParseFrame(log, payload), payload)
<1>1. CASE log = "BESTNAV"
  <2>1. ParseFrame(log, payload) = parse_bestnavb(payload) BY <1>1 DEF ParseFrame
  <2>2. QED BY <1>1, <2>1, BestnavFrame DEF FrameByTable
<1>2. CASE log = "RTKSTATUS"
  <2>1. ParseFrame(log, payload) = parse_rtkstatusb(payload) BY <1>2 DEF ParseFrame
  <2>2. QED BY <1>2, <2>1, RtkstatusFrame DEF FrameByTable
<1>3. CASE log = "RTCMSTATUS"
  <2>1. ParseFrame(log, payload) = parse_rtcmstatusb(payload) BY <1>3 DEF ParseFrame
  <2>2. QED BY <1>3, <2>1, RtcmstatusFrame DEF FrameByTable
<1>4. CASE log = "AGC"
  <2>1. ParseFrame(log, payload) = parse_agcb(payload) BY <1>4 DEF ParseFrame
  <2>2. QED BY <1>4, <2>1, AgcFrame DEF FrameByTable
<1>5. CASE log = "HWSTATUS"
  <2>1. ParseFrame(log, payload) = parse_hwstatusb(payload) BY <1>5 DEF ParseFrame
  <2>2. QED BY <1>5, <2>1, HwstatusFrame DEF FrameByTable
<1>6. CASE log = "JAMSTATUS"
  <2>1. ParseFrame(log, payload) = parse_jamstatusb(payload) BY <1>6 DEF ParseFrame
  <2>2. QED BY <1>6, <2>1, JamstatusFrame DEF FrameByTable
<1>7. CASE log = "FREQJAMSTATUS"
  <2>1. ParseFrame(log, payload) = parse_freqjamstatusb(payload) BY <1>7 DEF ParseFrame
  <2>2. QED BY <1>7, <2>1, FreqjamstatusFrame DEF FrameByTable
<1>8. QED
  BY <1>1, <1>2, <1>3, <1>4, <1>5, <1>6, <1>7, FixedLogsAre DEF Nmea

-----------------------------------------------------------------------------
(* All logs *)

\* None is not what a reader should be told.
NoneIsNotTold(log, m) ==
    /\ None \notin Int
    /\ \A unread \in {{}, Unread} :
          None # [name \in DOMAIN m.told \ unread |-> m.told[name]]
    /\ log = "PVTSLN" =>
          \A unread \in {{}, Unread}, count \in {m.told.tracked, m.told.solution} :
             None # WithSatellites([name \in DOMAIN m.told \ unread |-> m.told[name]], count)

\* What is understood is as it was sent, if it is not a PVTSLN.
LEMMA UnderstoodIsAsSent ==
    ASSUME NEW got, NEW told, NEW whole \in BOOLEAN, Understood(got, told, whole),
           "solution" \notin DOMAIN told
    PROVE  AsSent(got, told, whole)
  BY DEF Understood, AsSent

\* A PVTSLN that is understood, with one of its counts as its satellites.
LEMMA SatellitesSent ==
    ASSUME NEW log, log # None, NEW told, NEW whole \in BOOLEAN, Understood(log, told, whole),
           "tracked" \in DOMAIN log, "solution" \in DOMAIN log, "solution" \in DOMAIN told,
           NEW count, count \in {log.solution, log.tracked},
           whole /\ told.solution > 0 => count = log.solution,
           whole => None # WithSatellites(log, count)
    PROVE  AsSent(WithSatellites(log, count), told, whole)
<1>1. PICK got : got = WithSatellites(log, count) OBVIOUS
<1>2. /\ DOMAIN got = (DOMAIN log \ {"tracked", "solution"}) \cup {"satellites"}
      /\ got.satellites = count
      /\ \A name \in DOMAIN got : name # "satellites" => name \in DOMAIN log /\ got[name] = log[name]
  BY <1>1 DEF WithSatellites
<1>3. \A name \in DOMAIN log :
         \/ log[name] = told[name]
         \/ ~ whole /\ log[name] = None
         \/ ~ whole /\ name = "type" /\ log[name] = 0
  BY DEF Understood
<1>4. /\ log.solution = told.solution \/ (~ whole /\ log.solution = None)
      /\ log.tracked = told.tracked \/ (~ whole /\ log.tracked = None)
  <2>1. ASSUME NEW name \in DOMAIN log, name # "type"
        PROVE  log[name] = told[name] \/ (~ whole /\ log[name] = None)
    <3>1. \/ log[name] = told[name]
          \/ ~ whole /\ log[name] = None
          \/ ~ whole /\ name = "type" /\ log[name] = 0
      BY <1>3
    <3>2. QED BY <2>1, <3>1
  <2>2. "solution" # "type" /\ "tracked" # "type" OBVIOUS
  <2>3. log["solution"] = told["solution"] \/ (~ whole /\ log["solution"] = None)
    BY <2>1, <2>2, Zenon
  <2>4. log["tracked"] = told["tracked"] \/ (~ whole /\ log["tracked"] = None)
    BY <2>1, <2>2, Zenon
  <2>5. QED BY <2>3, <2>4
<1>5. SatellitesAsSent(got, told, whole)
  <2>1. got.satellites \in {told.solution, told.tracked, None} BY <1>2, <1>4
  <2>2. whole /\ told.solution > 0 => got.satellites = told.solution BY <1>2, <1>4
  <2>3. QED BY <2>1, <2>2 DEF SatellitesAsSent
<1>6. ASSUME NEW name \in DOMAIN got
      PROVE  IF name = "satellites" /\ "solution" \in DOMAIN told
             THEN SatellitesAsSent(got, told, whole)
             ELSE \/ got[name] = told[name]
                  \/ ~ whole /\ got[name] = None
                  \/ ~ whole /\ name = "type" /\ got[name] = 0
  <2>1. CASE name = "satellites" BY <1>5, <2>1
  <2>2. CASE name # "satellites" BY <1>2, <1>3, <2>2
  <2>3. QED BY <2>1, <2>2
<1>7. QED BY <1>1, <1>6 DEF AsSent


\* What the two parsers of a PVTSLN read before they count.
LEMMA PvtslnRead ==
    ASSUME NEW cells, IsFixedLog("PVTSLN", cells),
           NEW unread \in {{}, Unread}, NEW log, log # None, NEW whole \in BOOLEAN,
           DOMAIN log = Names("PVTSLN") \ unread, log = [name \in DOMAIN log |-> log[name]],
           Understood(log, Told("PVTSLN", cells), whole),
           NEW m, m.told = Told("PVTSLN", cells), NoneIsNotTold("PVTSLN", m)
    PROVE  /\ m.told.solution \in Nat /\ "solution" \in DOMAIN m.told
           /\ "tracked" \in DOMAIN log /\ "solution" \in DOMAIN log
           /\ whole => log.solution = m.told.solution
           /\ whole => \A count \in {log.solution, log.tracked} :
                          None # WithSatellites(log, count)
<1>1. PICK told : told = m.told OBVIOUS
<1> DEFINE names == <<"type", "height", "latitude", "longitude", "height_std", "latitude_std",
                      "longitude_std", "-", "-", "-", "-", "-", "undulation", "tracked",
                      "solution", "-", "-", "-", "-", "-", "heading_type", "heading_length",
                      "heading_degree", "heading_pitch", "-", "-", "-", "-", "-", "-", "hdop",
                      "-", "-", "-">>
<1>2. DOMAIN Layout("PVTSLN") = 1 .. 34 BY DEF Layout, Mixed
<1>3. \A i \in 1 .. 34 : Layout("PVTSLN")[i].name = names[i] BY DEF Layout, Mixed
<1>4. IsCell("PVTSLN", "solution", 15) BY <1>2, <1>3 DEF IsCell
<1>5. IsCell("PVTSLN", "tracked", 14) BY <1>2, <1>3 DEF IsCell
<1> HIDE DEF names
<1>6. "solution" \in Names("PVTSLN") /\ "tracked" \in Names("PVTSLN")
  BY <1>4, <1>5 DEF IsCell, Names
<1>7. "solution" \in DOMAIN log /\ "tracked" \in DOMAIN log
  <2>1. "solution" \notin unread /\ "tracked" \notin unread BY DEF Unread
  <2>2. QED BY <1>6, <2>1
<1>8. DOMAIN told = Names("PVTSLN") BY <1>1 DEF Told, Names
<1>9. told["solution"] = cells[15].value
  <2>1. Told("PVTSLN", cells)["solution"] =
           CASE "solution" = "type" -> BinaryQuality(cells[15].value)
             [] "solution" \in {"ns", "ew"} -> cells[15].text[2]
             [] OTHER -> cells[15].value
    BY <1>4, ToldIs
  <2>2. QED BY <1>1, <2>1
<1>10. cells[15].value \in Nat
  <2>1. 15 \in DOMAIN Layout("PVTSLN") /\ Layout("PVTSLN")[15].name = "solution"
    BY <1>4 DEF IsCell
  <2>2. Layout("PVTSLN")[15].name \in {"tracked", "solution"} => cells[15].value \in Nat
    BY <2>1, Zenon DEF IsFixedLog
  <2>3. QED BY <2>1, <2>2
<1>11. ASSUME whole PROVE \A name \in DOMAIN log : log[name] = told[name]
  BY <1>1, <1>11 DEF Understood
<1>12. ASSUME whole PROVE log = [name \in DOMAIN told \ unread |-> told[name]]
  BY <1>8, <1>11, <1>12
<1>13. ASSUME whole, NEW count \in {log.solution, log.tracked}
       PROVE  None # WithSatellites(log, count)
  <2>1. log.solution = told.solution /\ log.tracked = told.tracked BY <1>7, <1>11, <1>13
  <2>2. \A c \in {told.tracked, told.solution} :
           None # WithSatellites([name \in DOMAIN told \ unread |-> told[name]], c)
    BY <1>1, Zenon DEF NoneIsNotTold
  <2>3. QED BY <1>12, <1>13, <2>1, <2>2
<1>14. QED BY <1>1, <1>6, <1>7, <1>8, <1>9, <1>10, <1>11, <1>13

\* A PVTSLNA is as it was sent.
LEMMA PvtslnaSent ==
    ASSUME NEW m, IsMessage("PVTSLN", m), NoneIsNotTold("PVTSLN", m),
           NEW n \in 0 .. Len(m.cells), NEW blank \in 0 .. Len(m.cells)
    PROVE  AsSent(parse_pvtslna(Fields("PVTSLN", m.cells, n, blank)), m.told,
                  blank = 0 /\ n = Len(m.cells))
<1>1. PICK whole \in BOOLEAN : whole <=> blank = 0 /\ n = Len(m.cells) OBVIOUS
<1>2. PICK fields : fields = Fields("PVTSLN", m.cells, n, blank) OBVIOUS
<1>3. IsFixedLog("PVTSLN", m.cells) /\ m.told = Told("PVTSLN", m.cells) BY DEF IsMessage
<1>4. PICK log : log = PvtslnaFields(fields) OBVIOUS
<1>5. ReadsLine("PVTSLN", log, fields, 34, Unread) BY <1>4, PvtslnLine
<1>6. Understood(log, Told("PVTSLN", m.cells), whole)
  <2>1. ReadsByTable("PVTSLN", log, fields) BY <1>5 DEF ReadsByTable
  <2>2. \A unread \in {{}, Unread} : None # [name \in DOMAIN Told("PVTSLN", m.cells) \ unread |->
                                               Told("PVTSLN", m.cells)[name]]
    BY <1>3 DEF NoneIsNotTold
  <2>3. Understood(log, Told("PVTSLN", m.cells), blank = 0 /\ n = Len(m.cells))
    BY <1>2, <1>3, <2>1, <2>2, TableTells
  <2>4. whole = (blank = 0 /\ n = Len(m.cells)) BY <1>1
  <2>5. QED BY <2>3, <2>4
<1>7. CASE log = None
  <2>1. parse_pvtslna(fields) = None BY <1>4, <1>7 DEF parse_pvtslna
  <2>2. ~ whole BY <1>6, <1>7 DEF Understood
  <2>3. QED BY <1>1, <1>2, <2>1, <2>2 DEF AsSent
<1>8. CASE log # None
  <2>1. DOMAIN log = Names("PVTSLN") \ Unread /\ log = [name \in DOMAIN log |-> log[name]]
    BY <1>5, <1>8 DEF ReadsLine, FixedLine
  <2>2. /\ m.told.solution \in Nat /\ "solution" \in DOMAIN m.told
        /\ "tracked" \in DOMAIN log /\ "solution" \in DOMAIN log
        /\ whole => log.solution = m.told.solution
        /\ whole => \A count \in {log.solution, log.tracked} : None # WithSatellites(log, count)
    BY <1>3, <1>6, <1>8, <2>1, PvtslnRead
  <2>3. PICK count : count = IF log.solution # None /\ log.solution >= 0
                             THEN log.solution ELSE log.tracked
    OBVIOUS
  <2>4. parse_pvtslna(fields) = WithSatellites(log, count)
    BY <1>4, <1>8, <2>3 DEF parse_pvtslna
  <2>5. whole => count = log.solution
    <3>1. None \notin Int BY DEF NoneIsNotTold
    <3>2. QED BY <2>2, <2>3, <3>1
  <2>6. count \in {log.solution, log.tracked} BY <2>3
  <2>7. AsSent(WithSatellites(log, count), m.told, whole)
    BY <1>3, <1>6, <1>8, <2>2, <2>5, <2>6, SatellitesSent
  <2>8. whole = (blank = 0 /\ n = Len(m.cells)) BY <1>1
  <2>9. QED BY <1>2, <2>4, <2>7, <2>8
<1>9. QED BY <1>7, <1>8

\* So is a PVTSLNB.
LEMMA PvtslnbSent ==
    ASSUME NEW m, IsMessage("PVTSLN", m), NoneIsNotTold("PVTSLN", m), NEW n \in 0 .. Len(m.cells)
    PROVE  AsSent(parse_pvtslnb(Payload(m.cells, n)), m.told, n = Len(m.cells))
<1>1. PICK whole \in BOOLEAN : whole <=> n = Len(m.cells) OBVIOUS
<1>2. PICK payload : payload = Payload(m.cells, n) OBVIOUS
<1>3. IsFixedLog("PVTSLN", m.cells) /\ m.told = Told("PVTSLN", m.cells) BY DEF IsMessage
<1>4. PICK log : log = PvtslnbBytes(payload) OBVIOUS
<1>5. ReadsFrame("PVTSLN", log, payload, 34) BY <1>4, PvtslnFrame
<1>6. Understood(log, Told("PVTSLN", m.cells), whole)
  <2>1. FrameByTable("PVTSLN", log, Payload(m.cells, n)) BY <1>2, <1>5 DEF FrameByTable
  <2>2. None # [name \in DOMAIN m.told \ {} |-> m.told[name]] /\ None \notin Int
    BY DEF NoneIsNotTold
  <2>3. None # [name \in DOMAIN Told("PVTSLN", m.cells) |-> Told("PVTSLN", m.cells)[name]]
    BY <1>3, <2>2
  <2>4. Understood(log, Told("PVTSLN", m.cells), n = Len(m.cells))
    BY <1>3, <2>1, <2>2, <2>3, FrameTableTells
  <2>5. whole = (n = Len(m.cells)) BY <1>1
  <2>6. QED BY <2>4, <2>5
<1>7. CASE log = None
  <2>1. parse_pvtslnb(payload) = None BY <1>4, <1>7 DEF parse_pvtslnb
  <2>2. ~ whole BY <1>6, <1>7 DEF Understood
  <2>3. QED BY <1>1, <1>2, <2>1, <2>2 DEF AsSent
<1>8. CASE log # None
  <2>1. DOMAIN log = Names("PVTSLN") \ {} /\ log = [name \in DOMAIN log |-> log[name]]
    BY <1>5, <1>8 DEF ReadsFrame, FixedFrame
  <2>2. /\ m.told.solution \in Nat /\ "solution" \in DOMAIN m.told
        /\ "tracked" \in DOMAIN log /\ "solution" \in DOMAIN log
        /\ whole => log.solution = m.told.solution
        /\ whole => \A count \in {log.solution, log.tracked} : None # WithSatellites(log, count)
    BY <1>3, <1>6, <1>8, <2>1, PvtslnRead
  <2>3. PICK count : count = IF log.solution > 0 THEN log.solution ELSE log.tracked OBVIOUS
  <2>4. parse_pvtslnb(payload) = WithSatellites(log, count)
    BY <1>4, <1>8, <2>3 DEF parse_pvtslnb
  <2>5. whole /\ m.told.solution > 0 => count = log.solution BY <2>2, <2>3
  <2>6. count \in {log.solution, log.tracked} BY <2>3
  <2>7. AsSent(WithSatellites(log, count), m.told, whole)
    BY <1>3, <1>6, <1>8, <2>2, <2>5, <2>6, SatellitesSent
  <2>8. whole = (n = Len(m.cells)) BY <1>1
  <2>9. QED BY <1>2, <2>4, <2>7, <2>8
<1>9. QED BY <1>7, <1>8

\* No other log counts the satellites of a solution.
LEMMA NoSolution ==
    ASSUME NEW log \in FixedLogs \ {"PVTSLN"}, NEW cells
    PROVE  "solution" \notin DOMAIN Told(log, cells)
<1> SUFFICES "solution" \notin Names(log) BY DEF Told, Names
<1>1. CASE log = "GGA" BY <1>1 DEF Names, Layout, Words
<1>2. CASE log = "HDT" BY <1>2 DEF Names, Layout, Words
<1>3. CASE log = "HPR" BY <1>3 DEF Names, Layout, Words
<1>4. CASE log = "GSV" BY <1>4 DEF Names, Layout, Words
<1>5. CASE log = "BESTNAV" BY <1>5 DEF Names, Layout, Mixed
<1>6. CASE log = "RTKSTATUS" BY <1>6 DEF Names, Layout, Mixed
<1>7. CASE log = "RTCMSTATUS" BY <1>7 DEF Names, Layout, Mixed
<1>8. CASE log = "AGC" BY <1>8 DEF Names, Layout, Words
<1>9. CASE log = "HWSTATUS" BY <1>9 DEF Names, Layout, Mixed
<1>10. CASE log = "JAMSTATUS" BY <1>10 DEF Names, Layout, Mixed
<1>11. CASE log = "FREQJAMSTATUS" BY <1>11 DEF Names, Layout, Mixed
<1>12. QED BY <1>1, <1>2, <1>3, <1>4, <1>5, <1>6, <1>7, <1>8, <1>9, <1>10, <1>11, FixedLogsAre

\* Whatever the log, and however much of it came, a line is as it was sent.
LEMMA LineAsSent ==
    ASSUME NEW log \in Logs, log # "OBSVMCMP", NEW m, IsMessage(log, m), NoneIsNotTold(log, m),
           NEW v, IsVariant(log, m, v)
    PROVE  AsSent(Parse(log, Fields(log, m.cells, v.cells, v.blank)), m.told,
                  v.blank = 0 /\ v.cells = Len(m.cells))
<1>1. v.cells \in 0 .. Len(m.cells) /\ v.blank \in 0 .. Len(m.cells) BY DEF IsVariant
<1>2. PICK fields : fields = Fields(log, m.cells, v.cells, v.blank) OBVIOUS
<1>3. None \notin Int BY DEF NoneIsNotTold
<1>4. None # [name \in DOMAIN m.told \ {} |-> m.told[name]] BY DEF NoneIsNotTold
<1> DEFINE whole == v.blank = 0 /\ v.cells = Len(m.cells)
<1> whole \in BOOLEAN OBVIOUS
<1>5. CASE log = "SATSINFO"
  <2>1. /\ m.says \in Seq(SatsinfoSatellite) /\ m.cells = SatsinfoCells(m.says)
        /\ m.told = [version |-> 2, flag |-> 63, satellites |-> m.says]
    BY <1>5 DEF IsMessage
  <2>2. None # m.told BY <1>4, <2>1
  <2>3. Understood(parse_satsinfoa(Fields("SATSINFO", m.cells, v.cells, v.blank)), m.told,
                   v.blank = 0 /\ v.cells = Len(m.cells))
    BY <1>1, <1>3, <2>1, <2>2, SatsinfoLine
  <2>4. Parse(log, fields) = parse_satsinfoa(fields) BY <1>5 DEF Parse
  <2>5. "solution" \notin DOMAIN m.told BY <2>1
  <2>6. Understood(Parse(log, fields), m.told, whole) BY <1>2, <1>5, <2>3, <2>4
  <2> HIDE DEF whole
  <2>7. AsSent(Parse(log, fields), m.told, whole) BY <2>5, <2>6, UnderstoodIsAsSent
  <2>8. QED BY <1>2, <2>7 DEF whole
<1>6. CASE log = "BESTSAT"
  <2>1. /\ m.says \in Seq(BestsatSatellite) /\ m.cells = BestsatCells(m.says)
        /\ m.told = [satellites |-> ToldSatellites(m.says)]
    BY <1>6 DEF IsMessage
  <2>2. None # m.told BY <1>4, <2>1
  <2>3. v.blank # 0 => IsNumber(m.cells[v.blank].text) BY <1>6 DEF IsVariant
  <2>4. Understood(parse_bestsata(Fields("BESTSAT", m.cells, v.cells, v.blank)), m.told,
                   v.blank = 0 /\ v.cells = Len(m.cells))
    BY <1>1, <2>1, <2>2, <2>3, BestsatLine
  <2>5. Parse(log, fields) = parse_bestsata(fields) BY <1>6 DEF Parse
  <2>6. "solution" \notin DOMAIN m.told BY <2>1
  <2>7. Understood(Parse(log, fields), m.told, whole) BY <1>2, <1>6, <2>4, <2>5
  <2> HIDE DEF whole
  <2>8. AsSent(Parse(log, fields), m.told, whole) BY <2>6, <2>7, UnderstoodIsAsSent
  <2>9. QED BY <1>2, <2>8 DEF whole
<1>7. CASE log = "PVTSLN"
  <2>1. Parse(log, fields) = parse_pvtslna(fields) BY <1>7 DEF Parse
  <2>2. AsSent(parse_pvtslna(Fields("PVTSLN", m.cells, v.cells, v.blank)), m.told, whole)
    BY <1>1, <1>7, PvtslnaSent
  <2>3. QED BY <1>2, <1>7, <2>1, <2>2
<1>8. CASE log \notin {"SATSINFO", "BESTSAT", "PVTSLN"}
  <2>1. log \in FixedLogs \ {"PVTSLN"} BY <1>8 DEF FixedLogs
  <2>2. IsFixedLog(log, m.cells) /\ m.told = Told(log, m.cells) BY <1>8 DEF IsMessage
  <2>3. ASSUME log = "BESTNAV" => Len(fields) >= 39
        PROVE  AsSent(Parse(log, fields), m.told, whole)
    <3>1. ReadsByTable(log, Parse(log, fields), fields) BY <2>1, <2>3, ParsesByTable
    <3>2. \A unread \in {{}, Unread} :
             None # [name \in DOMAIN m.told \ unread |-> m.told[name]]
      BY DEF NoneIsNotTold
    <3>3. v.cells \in 0 .. Len(m.cells) /\ v.blank \in 0 .. Len(m.cells) BY <1>1
    <3>4. ReadsByTable(log, Parse(log, fields), Fields(log, m.cells, v.cells, v.blank))
      BY <1>2, <3>1
    <3>5. Understood(Parse(log, fields), Told(log, m.cells), v.blank = 0 /\ v.cells = Len(m.cells))
      BY <2>2, <3>2, <3>3, <3>4, TableTells
    <3>6. "solution" \notin DOMAIN m.told BY <2>1, <2>2, NoSolution
    <3>7. Understood(Parse(log, fields), m.told, whole) BY <2>2, <3>5
    <3> HIDE DEF whole
    <3>8. QED BY <3>6, <3>7, UnderstoodIsAsSent
\* A short one gives nothing, or the velocity of the fallback.
  <2>4. ASSUME log = "BESTNAV", ~ (Len(fields) >= 39)
        PROVE  AsSent(Parse(log, fields), m.told, whole)
    <3>1. Parse(log, fields) = VelocityOfLastFields(fields)
      <4>1. Parse(log, fields) = parse_bestnava(fields) BY <2>4 DEF Parse
      <4>2. QED BY <2>4, <4>1 DEF parse_bestnava
    <3>2. VelocityOfLastFields(fields) # None => IsFallback(VelocityOfLastFields(fields))
      BY DEF VelocityOfLastFields, IsFallback
    <3>3. v.cells # Len(m.cells)
      <4>1. DOMAIN Layout(log) = 1 .. 30 BY <2>4 DEF Layout, Mixed
      <4>2. PICK k \in Nat : k = 30 OBVIOUS
      <4>3. Len(m.cells) = k BY ZenonT(30), <2>2, <4>1, <4>2, FixedLen
      <4>4. FirstField(log) = 9 BY <2>4 DEF FirstField, Nmea
      <4>5. PICK n \in Nat, l \in Nat : n = v.cells /\ l = v.blank BY <1>1, <4>3
      <4>6. Len(fields) = 9 + n
        <5>1. AreFields(fields, 9, m.cells, n, l) BY <1>2, <4>4, <4>5, FieldsAre
        <5>2. QED BY <5>1 DEF AreFields
      <4>7. QED BY <2>4, <4>2, <4>3, <4>5, <4>6
    <3>4. QED BY <3>1, <3>2, <3>3 DEF AsSent
  <2>5. QED BY <1>2, <2>3, <2>4
<1>9. QED BY <1>5, <1>6, <1>7, <1>8

\* So is a frame.
LEMMA FrameAsSent ==
    ASSUME NEW log \in DOMAIN MessageId, NEW m, IsMessage(log, m), NoneIsNotTold(log, m),
           NEW v, IsVariant(log, m, v)
    PROVE  AsSent(ParseFrame(log, Payload(m.cells, v.cells)), m.told, v.cells = Len(m.cells))
<1>1. v.cells \in 0 .. Len(m.cells) BY DEF IsVariant
<1>2. PICK payload : payload = Payload(m.cells, v.cells) OBVIOUS
<1>3. None \notin Int BY DEF NoneIsNotTold
<1>4. None # [name \in DOMAIN m.told \ {} |-> m.told[name]] BY DEF NoneIsNotTold
<1> DEFINE whole == v.cells = Len(m.cells)
<1> whole \in BOOLEAN OBVIOUS
<1>5. CASE log = "SATSINFO"
  <2>1. /\ m.says \in Seq(SatsinfoSatellite) /\ m.cells = SatsinfoCells(m.says)
        /\ m.told = [version |-> 2, flag |-> 63, satellites |-> m.says]
    BY <1>5 DEF IsMessage
  <2>2. None # m.told BY <1>4, <2>1
  <2>3. Understood(parse_satsinfob(payload), m.told, v.cells = Len(m.cells))
    BY <1>1, <1>2, <1>3, <2>1, <2>2, SatsinfoFrame
  <2>4. ParseFrame(log, payload) = parse_satsinfob(payload) BY <1>5 DEF ParseFrame
  <2>5. "solution" \notin DOMAIN m.told BY <2>1
  <2>6. Understood(ParseFrame(log, payload), m.told, whole) BY <2>3, <2>4
  <2> HIDE DEF whole
  <2>7. AsSent(ParseFrame(log, payload), m.told, whole) BY <2>5, <2>6, UnderstoodIsAsSent
  <2>8. QED BY <1>2, <2>7 DEF whole
<1>6. CASE log = "BESTSAT"
  <2>1. /\ m.says \in Seq(BestsatSatellite) /\ m.cells = BestsatCells(m.says)
        /\ m.told = [satellites |-> ToldSatellites(m.says)]
    BY <1>6 DEF IsMessage
  <2>2. None # m.told BY <1>4, <2>1
  <2>3. Understood(parse_bestsatb(payload), m.told, v.cells = Len(m.cells))
    BY <1>1, <1>2, <1>3, <2>1, <2>2, BestsatFrame
  <2>4. ParseFrame(log, payload) = parse_bestsatb(payload) BY <1>6 DEF ParseFrame
  <2>5. "solution" \notin DOMAIN m.told BY <2>1
  <2>6. Understood(ParseFrame(log, payload), m.told, whole) BY <2>3, <2>4
  <2> HIDE DEF whole
  <2>7. AsSent(ParseFrame(log, payload), m.told, whole) BY <2>5, <2>6, UnderstoodIsAsSent
  <2>8. QED BY <1>2, <2>7 DEF whole
<1>7. CASE log = "OBSVMCMP"
  <2>1. /\ m.says \in Seq(Int) /\ m.cells = ObsvmcmpCells(m.says)
        /\ m.told = [observations |-> m.says]
    BY <1>7 DEF IsMessage
  <2>2. None # m.told BY <1>4, <2>1
  <2>3. Understood(parse_obsvmcmpb(payload), m.told, v.cells = Len(m.cells))
    BY <1>1, <1>2, <1>3, <2>1, <2>2, ObsvmcmpFrame
  <2>4. ParseFrame(log, payload) = parse_obsvmcmpb(payload) BY <1>7 DEF ParseFrame
  <2>5. "solution" \notin DOMAIN m.told BY <2>1
  <2>6. Understood(ParseFrame(log, payload), m.told, whole) BY <2>3, <2>4
  <2> HIDE DEF whole
  <2>7. AsSent(ParseFrame(log, payload), m.told, whole) BY <2>5, <2>6, UnderstoodIsAsSent
  <2>8. QED BY <1>2, <2>7 DEF whole
<1>8. CASE log = "PVTSLN"
  <2>1. ParseFrame(log, payload) = parse_pvtslnb(payload) BY <1>8 DEF ParseFrame
  <2>2. AsSent(parse_pvtslnb(Payload(m.cells, v.cells)), m.told, whole)
    BY <1>1, <1>8, PvtslnbSent
  <2>3. QED BY <1>2, <2>1, <2>2
<1>9. CASE log \notin {"SATSINFO", "BESTSAT", "OBSVMCMP", "PVTSLN"}
  <2>1. log \in FixedLogs \ (Nmea \cup {"PVTSLN"})
    <3>1. log \in FixedLogs BY <1>9 DEF FixedLogs, Logs
    <3>2. log \notin Nmea BY DEF MessageId, Nmea
    <3>3. QED BY <1>9, <3>1, <3>2
  <2>2. IsFixedLog(log, m.cells) /\ m.told = Told(log, m.cells) BY <1>9 DEF IsMessage
  <2>3. FrameByTable(log, ParseFrame(log, payload), payload) BY <2>1, FrameParsesByTable
  <2>4. None # [name \in DOMAIN m.told |-> m.told[name]] BY <1>4
  <2>5. Understood(ParseFrame(log, payload), m.told, whole)
    BY <1>1, <1>2, <1>3, <2>2, <2>3, <2>4, FrameTableTells
  <2>6. "solution" \notin DOMAIN m.told BY <2>1, <2>2, NoSolution
  <2> HIDE DEF whole
  <2>7. AsSent(ParseFrame(log, payload), m.told, whole) BY <2>5, <2>6, UnderstoodIsAsSent
  <2>8. QED BY <1>2, <2>7 DEF whole
<1>10. QED BY <1>5, <1>6, <1>7, <1>8, <1>9

-----------------------------------------------------------------------------
(* What is decoded *)

\* What the receiver sends, as the assumptions say.
LEMMA SentIsMessage ==
    ASSUME scene \in Scenes, NEW log \in scene.logs, NEW m \in Sent(log), NEW v \in m.variants
    PROVE  log \in Logs /\ IsMessage(log, m) /\ IsVariant(log, m, v) /\ NoneIsNotTold(log, m)
<1>1. log \in Logs BY SentAssumption
<1>2. IsMessage(log, m) /\ IsVariant(log, m, v) BY <1>1, SentAssumption
<1>3. NoneIsNotTold(log, m) BY <1>1, NoneAssumption DEF NoneIsNotTold
<1>4. QED BY <1>1, <1>2, <1>3

\* DecodedAsSent is that the last message is as it was sent.
LEMMA DecodedIsAsSent ==
    ASSUME NEW sent, NEW got, NEW whole, AsSent(got, sent, whole),
           decoded' = [sent |-> sent, got |-> got, whole |-> whole]
    PROVE  DecodedAsSent'
<1>1. decoded'.sent = sent /\ decoded'.got = got /\ decoded'.whole = whole OBVIOUS
<1>2. AsSent(decoded'.got, decoded'.sent, decoded'.whole) BY <1>1
<1>3. QED BY <1>2 DEF DecodedAsSent, AsSent, SatellitesAsSent, IsFallback

\* What a parser takes from a log is what the receiver put there, in either encoding,
\* whatever the log says, however many satellites it lists, wherever it is cut and
\* whichever field is blank, with the two exceptions that DecodedAsSent of module
\* ParserHealth makes (the satellites of a PVTSLN and the velocity that a cut BESTNAVA
\* yields): of every receiver that sends logs of the layouts of module Parsers.
THEOREM ParsersAgree == Spec => []DecodedAsSent
<1> DEFINE IInv == scene \in Scenes /\ DecodedAsSent
<1>1. Init => IInv BY DEF Init, DecodedAsSent
<1>2. IInv /\ [Next]_vars => IInv'
  <2>1. SUFFICES ASSUME IInv, [Next]_vars PROVE IInv' OBVIOUS
  <2>2. scene' = scene
    BY <2>1 DEF Next, vars, Message, IntactLine, KnownFrame, DamagedLine, UnknownFrame,
                NamedFrame, LineNoise, gps_parser_status
  <2>3. CASE Message
    <3>1. PICK log \in scene.logs : \E m \in Sent(log) : \E v \in m.variants :
             \/ log # "OBSVMCMP" /\ IntactLine(log, m, v.cells, v.blank)
             \/ log \in DOMAIN MessageId /\ v.blank = 0 /\ KnownFrame(log, m, v.cells)
      BY <2>3 DEF Message
    <3>2. PICK m \in Sent(log) : \E v \in m.variants :
             \/ log # "OBSVMCMP" /\ IntactLine(log, m, v.cells, v.blank)
             \/ log \in DOMAIN MessageId /\ v.blank = 0 /\ KnownFrame(log, m, v.cells)
      BY <3>1
    <3>3. PICK v \in m.variants :
             \/ log # "OBSVMCMP" /\ IntactLine(log, m, v.cells, v.blank)
             \/ log \in DOMAIN MessageId /\ v.blank = 0 /\ KnownFrame(log, m, v.cells)
      BY <3>2
    <3>4. log \in Logs /\ IsMessage(log, m) /\ IsVariant(log, m, v) /\ NoneIsNotTold(log, m)
      BY <2>1, SentIsMessage
    <3>5. CASE log # "OBSVMCMP" /\ IntactLine(log, m, v.cells, v.blank)
      <4>1. AsSent(Parse(log, Fields(log, m.cells, v.cells, v.blank)), m.told,
                   v.blank = 0 /\ v.cells = Len(m.cells))
        BY <3>4, <3>5, LineAsSent
      <4>2. DecodedAsSent' BY <3>5, <4>1, DecodedIsAsSent DEF IntactLine
      <4>3. QED BY <2>1, <2>2, <4>2
    <3>6. CASE log \in DOMAIN MessageId /\ KnownFrame(log, m, v.cells)
      <4>1. AsSent(ParseFrame(log, Payload(m.cells, v.cells)), m.told,
                   v.cells = Len(m.cells))
        BY <3>4, <3>6, FrameAsSent
      <4>2. DecodedAsSent' BY <3>6, <4>1, DecodedIsAsSent DEF KnownFrame
      <4>3. QED BY <2>1, <2>2, <4>2
    <3>7. QED BY <3>3, <3>5, <3>6
  <2>4. CASE ~ Message
    <3>1. decoded' = None \/ decoded' = decoded
      BY <2>1, <2>4 DEF Next, vars, DamagedLine, UnknownFrame, NamedFrame, LineNoise,
                        gps_parser_status
    <3>2. QED BY <2>1, <2>2, <3>1 DEF DecodedAsSent
  <2>5. QED BY <2>3, <2>4
<1>3. QED BY <1>1, <1>2, PTL DEF Spec
=============================================================================
