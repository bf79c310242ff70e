--------------------------- MODULE NodeFeedsProofs ---------------------------
(***************************************************************************)
(* Safety of the selection of feeds, for all timeouts, all contents of the *)
(* logs, all parameters and all orders in which the logs arrive; and that  *)
(* both topics implement PreferredFeed.                                    *)
(***************************************************************************)
EXTENDS NodeFeeds, SequenceTheorems, TLAPS

\* The feeds of positions, those that may be published from, and their order.
FixFeed == AsciiFix \cup {"PVTSLNB"}

Usable(f) ==
    \/ f \in AsciiFix /\ ValidFix(f, DataTimeout)
    \/ f = "PVTSLNB" /\ "nav" \in use_binary /\ ValidFix(f, BinaryNavTimeout)

Preferred(h, g) == (h = "PVTSLNB" /\ g \in AsciiFix) \/ (h = "PVTSLNA" /\ g = "GGA")

\* What the last step published is what publishing again would give.
OutputsCurrent == fix_out \in {None, NavSatFix} /\ heading_out \in {None, Azimuth}

\* A position older than the one published last is held back by a preferred one
\* that is not older than it.
NotBehind ==
    \A g \in FixFeed : Usable(g) =>
        \/ age[g] <= published
        \/ \E h \in FixFeed : Usable(h) /\ Preferred(h, g) /\ age[h] <= age[g]

-----------------------------------------------------------------------------
(* The type invariant in parts *)

ParameterTypes == use_binary \in Backends /\ logged \in Profiles
FeedTypes ==
    /\ DOMAIN latest = Feed /\ age \in [Feed -> 0 .. Old]
    /\ \A f \in FixFeed : latest[f] \in Int \cup {None}
    /\ \A f \in Feed : latest[f] = None => age[f] = Old
IdTypes ==
    /\ recent_ids \in [{"RTCMSTATUSA", "RTCMSTATUSB"} -> Seq(Nat)]
    /\ \A log \in DOMAIN recent_ids : Len(recent_ids[log]) <= RecentLimit
PublishedType == published \in 0 .. Old
OutputTypes ==
    /\ fix_out # None => /\ Message(fix_out)
                         /\ fix_out.status \in {"NO_FIX", "FIX", "SBAS", "GBAS"}
    /\ heading_out # None => Message(heading_out)

LEMMA TypeParts ==
    TypeOK <=> ParameterTypes /\ FeedTypes /\ IdTypes /\ PublishedType /\ OutputTypes
BY DEF TypeOK, ParameterTypes, FeedTypes, IdTypes, PublishedType, OutputTypes, FixFeed

\* The inductive invariant; OutputTypes and StatusIsOwn follow from it.
IInv ==
    /\ ParameterTypes /\ FeedTypes /\ IdTypes /\ PublishedType
    /\ OutputsCurrent
    /\ BinaryNavTimeout >= DataTimeout => NotBehind

-----------------------------------------------------------------------------
(* Selection *)

\* The active fix is usable and the preferred one of those that are.
LEMMA ActiveFix ==
    /\ active_fix # None => active_fix \in FixFeed /\ Usable(active_fix)
    /\ \A g \in FixFeed : Usable(g) => /\ active_fix # None
                                       /\ g = active_fix \/ Preferred(active_fix, g)
BY ContentAssumption
   DEF active_fix, active_ascii_fix, active_binary_fix, Usable, FixFeed, AsciiFix, Preferred, Feed,
       AsciiHeading, AsciiStatus, BinaryStatus

\* The same of the next state.
LEMMA ActiveFixNext ==
    /\ active_fix' # None => active_fix' \in FixFeed /\ Usable(active_fix)'
    /\ \A g \in FixFeed : Usable(g)' => /\ active_fix' # None
                                        /\ g = active_fix' \/ Preferred(active_fix, g)'
BY ContentAssumption
   DEF active_fix, active_ascii_fix, active_binary_fix, Usable, FixFeed, AsciiFix, Preferred, Feed,
       AsciiHeading, AsciiStatus, BinaryStatus

\* Whatever is published is what the feeds give, and no usable feed is left
\* behind: the others are not preferred to it.
LEMMA PublishedInOrder ==
    ASSUME FeedTypes', PublishedType, publish_active_fix
    PROVE  PublishedType' /\ NotBehind' /\ fix_out' \in {None, NavSatFix'}
<1>1. fix_out' \in {None, NavSatFix'} BY DEF publish_active_fix
<1>2. \A f \in FixFeed : f \in Feed BY DEF FixFeed, Feed, AsciiFix
<1>3. CASE active_fix' = None
  <2>1. published' = published BY <1>3 DEF publish_active_fix
  <2>2. \A g \in FixFeed : ~ Usable(g)' BY <1>3, ActiveFixNext
  <2>3. NotBehind' BY <2>2 DEF NotBehind
  <2>4. QED BY <1>1, <2>1, <2>3 DEF PublishedType
<1>4. CASE active_fix' # None
  <2>1. published' = age'[active_fix'] BY <1>4 DEF publish_active_fix
  <2>2. active_fix' \in FixFeed /\ Usable(active_fix)' BY <1>4, ActiveFixNext
  <2>3. age'[active_fix'] \in 0 .. Old BY <1>2, <2>2 DEF FeedTypes
  <2>4. ASSUME NEW g \in FixFeed, Usable(g)'
        PROVE  \/ age'[g] <= published'
               \/ \E h \in FixFeed : Usable(h)' /\ Preferred(h, g) /\ age'[h] <= age'[g]
    <3>1. g = active_fix' \/ Preferred(active_fix', g) BY <2>4, ActiveFixNext DEF Preferred
    <3>2. age'[g] \in 0 .. Old BY <1>2, <2>4 DEF FeedTypes
    <3>3. CASE g = active_fix' BY <2>1, <2>3, <3>3, TimeAssumption
    <3>4. CASE Preferred(active_fix', g)
      <4>1. age'[g] <= published' \/ age'[active_fix'] <= age'[g]
        BY <2>1, <2>3, <3>2, TimeAssumption
      <4>2. QED BY <2>2, <3>4, <4>1
    <3>5. QED BY <3>1, <3>3, <3>4
  <2>5. NotBehind' BY <2>4 DEF NotBehind, Preferred
  <2>6. QED BY <1>1, <2>1, <2>3, <2>5 DEF PublishedType
<1>5. QED BY <1>3, <1>4

-----------------------------------------------------------------------------
(* Types *)

\* What may be stored in a feed of positions is a quality.
LEMMA StoreTypes ==
    ASSUME TypeOK, NEW f \in Feed, NEW data, data # None, f \in FixFeed => data \in Int,
           Store(f, data)
    PROVE  FeedTypes'
<1>1. FeedTypes BY TypeParts
<1>2. DOMAIN latest' = Feed BY <1>1 DEF FeedTypes, Store
<1>3. \A g \in Feed : /\ latest'[g] = IF g = f THEN data ELSE latest[g]
                      /\ age'[g] = IF g = f THEN 0 ELSE age[g]
  BY <1>1 DEF FeedTypes, Store
<1>4. age' \in [Feed -> 0 .. Old]
  BY <1>1, TimeAssumption DEF FeedTypes, Store
<1>5. \A g \in FixFeed : latest'[g] \in Int \cup {None}
  BY <1>1, <1>3 DEF FeedTypes, FixFeed, AsciiFix, Feed
<1>6. \A g \in Feed : latest'[g] = None => age'[g] = Old
  BY <1>1, <1>3 DEF FeedTypes
<1>7. QED BY <1>2, <1>4, <1>5, <1>6 DEF FeedTypes

\* A PVTSLNB is stored in its feeds, with a quality and a heading block.
LEMMA PvtslnbTypes ==
    ASSUME TypeOK, NEW data \in [quality : Nat, block : HeadingBlock], PvtslnbFrame(data)
    PROVE  /\ FeedTypes'
           /\ \A g \in FixFeed : g # "PVTSLNB" => latest'[g] = latest[g] /\ age'[g] = age[g]
           /\ age'["PVTSLNB"] = 0
<1> DEFINE stored == IF HasHeading(data.block) THEN {"PVTSLNB", "PVTSLNB_heading"}
                     ELSE {"PVTSLNB"}
<1>1. FeedTypes BY TypeParts
<1>2. /\ latest' = [g \in Feed |-> IF g \notin stored THEN latest[g]
                                   ELSE IF g = "PVTSLNB" THEN data.quality ELSE data.block]
      /\ age' = [g \in Feed |-> IF g \in stored THEN 0 ELSE age[g]]
  BY DEF PvtslnbFrame
<1>3. data.quality \in Nat /\ data.block \in HeadingBlock OBVIOUS
<1>4. data.quality # None /\ data.block # None BY <1>3, ContentAssumption
<1>5. age' \in [Feed -> 0 .. Old]
  <2>1. \A g \in Feed : age[g] \in 0 .. Old BY <1>1 DEF FeedTypes
  <2>2. 0 \in 0 .. Old BY TimeAssumption
  <2> HIDE DEF stored
  <2>3. QED BY <1>2, <2>1, <2>2
<1>6. /\ \A g \in FixFeed : g \in Feed
      /\ "PVTSLNB" \in stored
      /\ \A g \in FixFeed : g # "PVTSLNB" => g \notin stored
  BY DEF FixFeed, AsciiFix, Feed
<1>7. \A g \in FixFeed : g # "PVTSLNB" => latest'[g] = latest[g] /\ age'[g] = age[g]
  BY <1>2, <1>6
<1>8. age'["PVTSLNB"] = 0 /\ latest'["PVTSLNB"] = data.quality
  BY <1>2, <1>6 DEF FixFeed
<1>9. \A g \in FixFeed : latest'[g] \in Int \cup {None}
  BY <1>1, <1>3, <1>7, <1>8 DEF FeedTypes
<1>10. \A g \in Feed : latest'[g] = None => age'[g] = Old
  BY <1>1, <1>2, <1>4 DEF FeedTypes
<1>11. DOMAIN latest' = Feed BY <1>2
<1>12. QED BY <1>5, <1>7, <1>8, <1>9, <1>10, <1>11 DEF FeedTypes

\* One id more, and at most RecentLimit of them.
LEMMA RememberTypes ==
    ASSUME NEW ids \in Seq(Nat), Len(ids) <= RecentLimit, NEW id \in Int
    PROVE  Remember(ids, id) \in Seq(Nat) /\ Len(Remember(ids, id)) <= RecentLimit
<1>1. CASE id < 0 BY <1>1 DEF Remember
<1>2. CASE id >= 0
  <2> DEFINE all == Append(ids, id)
  <2>1. id \in Nat BY <1>2
  <2>2. all \in Seq(Nat) /\ Len(all) = Len(ids) + 1 BY <2>1, AppendProperties
  <2>3. all # <<>> BY <2>2
  <2>4. Tail(all) \in Seq(Nat) /\ Len(Tail(all)) = Len(all) - 1
    BY <2>2, <2>3, HeadTailProperties
  <2>5. Remember(ids, id) = IF Len(all) > RecentLimit THEN Tail(all) ELSE all
    BY <1>2 DEF Remember
  <2> HIDE DEF all
  <2>6. Len(ids) \in Nat BY LenProperties
  <2>7. CASE Len(all) > RecentLimit BY <2>2, <2>4, <2>5, <2>6, <2>7, TimeAssumption
  <2>8. CASE Len(all) <= RecentLimit BY <2>2, <2>5, <2>6, <2>8, TimeAssumption
  <2>9. QED BY <2>2, <2>6, <2>7, <2>8, TimeAssumption
<1>3. QED BY <1>1, <1>2

\* Outputs that are what the feeds give have the types of topics.
LEMMA OutputsTyped ==
    ASSUME FeedTypes, OutputsCurrent
    PROVE  OutputTypes
<1>1. ASSUME fix_out # None
      PROVE  Message(fix_out) /\ fix_out.status \in {"NO_FIX", "FIX", "SBAS", "GBAS"}
  <2>1. active_fix # None /\ fix_out = [feed |-> active_fix, value |-> latest[active_fix],
                                        age |-> age[active_fix],
                                        status |-> build_nav_status(latest[active_fix])]
    BY <1>1 DEF OutputsCurrent, NavSatFix
  <2>2. active_fix \in Feed BY <2>1, ActiveFix DEF FixFeed, Feed, AsciiFix
  <2>3. age[active_fix] \in 0 .. Old BY <2>2 DEF FeedTypes
  <2>4. fix_out.feed = active_fix /\ fix_out.age = age[active_fix]
        /\ fix_out.status = build_nav_status(latest[active_fix])
    BY <2>1, Zenon
  <2>5. build_nav_status(latest[active_fix]) \in {"NO_FIX", "FIX", "SBAS", "GBAS"}
    BY DEF build_nav_status
  <2>6. QED BY <2>2, <2>3, <2>4, <2>5 DEF Message
<1>2. ASSUME heading_out # None PROVE Message(heading_out)
  <2>1. active_heading # None
        /\ heading_out = [feed |-> active_heading, value |-> latest[active_heading],
                          age |-> age[active_heading]]
    BY <1>2 DEF OutputsCurrent, Azimuth
  <2>2. active_heading \in Feed
    BY <2>1 DEF active_heading, active_ascii_heading, Feed, AsciiHeading
  <2>3. age[active_heading] \in 0 .. Old BY <2>2 DEF FeedTypes
  <2>4. heading_out.feed = active_heading /\ heading_out.age = age[active_heading]
    BY <2>1, Zenon
  <2>5. QED BY <2>2, <2>3, <2>4 DEF Message
<1>3. QED BY <1>1, <1>2 DEF OutputTypes

-----------------------------------------------------------------------------
(* The order of the published positions *)

\* The timeout of a feed of positions.
FixTimeout(f) == IF f = "PVTSLNB" THEN BinaryNavTimeout ELSE DataTimeout

\* A usable position is there, has a quality and is in time, now and next.
LEMMA UsableMeans ==
    \A f \in FixFeed :
        /\ Usable(f) <=> /\ f = "PVTSLNB" => "nav" \in use_binary
                         /\ latest[f] # None /\ latest[f] > 0 /\ age[f] <= FixTimeout(f)
        /\ Usable(f)' <=> /\ f = "PVTSLNB" => "nav" \in use_binary'
                          /\ latest'[f] # None /\ latest'[f] > 0 /\ age'[f] <= FixTimeout(f)
<1>1. "PVTSLNB" \notin AsciiFix BY DEF AsciiFix
<1>2. \A f \in FixFeed : f \in AsciiFix \/ f = "PVTSLNB" BY DEF FixFeed
<1>3. QED BY <1>1, <1>2 DEF Usable, ValidFix, Fresh, FixTimeout

\* When a feed in use reports a position, what is published is not older than
\* what was published before: the report itself, or a feed that was usable
\* before and that no other usable feed was preferred to.
LEMMA ReportInOrder ==
    ASSUME FeedTypes, FeedTypes', PublishedType, NotBehind, use_binary' = use_binary,
           NEW f \in FixFeed, f = "PVTSLNB" => "nav" \in use_binary,
           latest'[f] \in Int, latest'[f] > 0, age'[f] = 0,
           \A g \in FixFeed : g # f => latest'[g] = latest[g] /\ age'[g] = age[g],
           active_fix' # None
    PROVE  ~ (age'[active_fix'] > published)
<1> DEFINE a == active_fix'
<1>1. a \in FixFeed /\ Usable(active_fix)' BY ActiveFixNext
<1>2. \A g \in FixFeed : g \in Feed BY DEF FixFeed, Feed, AsciiFix
<1>3. published \in Nat /\ age'[a] \in Int
  BY <1>1, <1>2, TimeAssumption DEF PublishedType, FeedTypes
<1>4. CASE a = f BY <1>3, <1>4
<1>5. CASE a # f
  <2>1. latest'[a] = latest[a] /\ age'[a] = age[a] BY <1>1, <1>5
  <2>2. Usable(a) BY <1>1, <2>1, UsableMeans
  <2>3. ASSUME NEW h \in FixFeed, Usable(h), Preferred(h, a) PROVE FALSE
    <3>1. CASE h = f
      <4>1. latest'[h] # None BY <3>1, ContentAssumption
      <4>2. age'[h] <= FixTimeout(h) BY <3>1, TimeAssumption DEF FixTimeout
      <4>3. Usable(h)' BY <3>1, <4>1, <4>2, UsableMeans
      <4>4. h = a \/ Preferred(a, h) BY <4>3, ActiveFixNext DEF Preferred
      <4>5. QED BY <2>3, <4>4 DEF Preferred, AsciiFix
    <3>2. CASE h # f
      <4>1. Usable(h)' BY <2>3, <3>2, UsableMeans
      <4>2. h = a \/ Preferred(a, h) BY <4>1, ActiveFixNext DEF Preferred
      <4>3. QED BY <2>3, <4>2 DEF Preferred, AsciiFix
    <3>3. QED BY <3>1, <3>2
  <2>4. age[a] <= published BY <1>1, <2>2, <2>3 DEF NotBehind
  <2>5. QED BY <1>3, <2>1, <2>4
<1>6. QED BY <1>4, <1>5

\* A step that publishes no position and does not touch the usable ones keeps
\* the order.
LEMMA QuietInOrder ==
    ASSUME NotBehind, published' = published,
           \A g \in FixFeed : Usable(g)' <=> Usable(g),
           \A g \in FixFeed : Usable(g) => age'[g] = age[g]
    PROVE  NotBehind'
<1>1. ASSUME NEW g \in FixFeed, Usable(g)'
      PROVE  \/ age'[g] <= published'
             \/ \E h \in FixFeed : Usable(h)' /\ Preferred(h, g) /\ age'[h] <= age'[g]
  <2>1. Usable(g) /\ age'[g] = age[g] BY <1>1
  <2>2. CASE age[g] <= published BY <2>1, <2>2
  <2>3. CASE \E h \in FixFeed : Usable(h) /\ Preferred(h, g) /\ age[h] <= age[g]
    BY <2>1, <2>3
  <2>4. QED BY <2>1, <2>2, <2>3 DEF NotBehind
<1>2. QED BY <1>1 DEF NotBehind, Preferred

\* Time keeps the order: feeds age alike, and a preferred feed that is not older
\* does not expire first, if a binary feed lives as long as an ASCII one.
LEMMA TimeInOrder ==
    ASSUME FeedTypes, PublishedType, NotBehind, BinaryNavTimeout >= DataTimeout, Tick
    PROVE  NotBehind'
<1>1. \A g \in FixFeed : g \in Feed BY DEF FixFeed, Feed, AsciiFix
<1>2. \A g \in FixFeed : age[g] \in 0 .. Old BY <1>1 DEF FeedTypes
<1>3. \A g \in FixFeed : age'[g] = Older(age[g]) BY <1>1 DEF Tick
<1>4. latest' = latest /\ use_binary' = use_binary /\ published' = Older(published)
  BY DEF Tick
<1>5. \A m, n \in 0 .. Old : m <= n => Older(m) <= Older(n) BY TimeAssumption DEF Older
<1>6. \A n \in 0 .. Old : n <= Older(n) /\ Older(n) \in Int BY TimeAssumption DEF Older
<1>7. ASSUME NEW g \in FixFeed, Usable(g)'
      PROVE  \/ age'[g] <= published'
             \/ \E h \in FixFeed : Usable(h)' /\ Preferred(h, g) /\ age'[h] <= age'[g]
  <2>1. age'[g] <= FixTimeout(g) BY <1>7, UsableMeans
  <2>2. age[g] <= FixTimeout(g)
    BY <1>2, <1>3, <1>6, <2>1, TimeAssumption DEF FixTimeout
  <2>3. Usable(g) BY <1>4, <1>7, <2>2, UsableMeans
  <2>4. CASE age[g] <= published BY <1>2, <1>3, <1>4, <1>5, <2>4 DEF PublishedType
  <2>5. CASE \E h \in FixFeed : Usable(h) /\ Preferred(h, g) /\ age[h] <= age[g]
    <3>1. PICK h \in FixFeed : Usable(h) /\ Preferred(h, g) /\ age[h] <= age[g] BY <2>5
    <3>2. age'[h] <= age'[g] BY <1>2, <1>3, <1>5, <3>1
    <3>3. FixTimeout(g) <= FixTimeout(h)
      BY <3>1, TimeAssumption DEF Preferred, FixTimeout, AsciiFix
    <3>4. age'[h] \in Int /\ age'[g] \in Int BY <1>2, <1>3, <1>6
    <3>5. age'[h] <= FixTimeout(h)
      BY <2>1, <3>2, <3>3, <3>4, TimeAssumption DEF FixTimeout
    <3>6. Usable(h)' BY <1>4, <3>1, <3>5, UsableMeans
    <3>7. QED BY <3>1, <3>2, <3>6
  <2>6. QED BY <2>3, <2>4, <2>5 DEF NotBehind
<1>8. QED BY <1>7 DEF NotBehind, Preferred

-----------------------------------------------------------------------------
(* The steps *)

\* What the steps and the theorems need of one step.
StepKeeps ==
    /\ IInv'
    /\ BinaryNavTimeout >= DataTimeout /\ fix_out' # None /\ fix_out'.age > published
       => InvalidReport

\* The age a position was published with is that of its feed.
LEMMA PublishedAge ==
    fix_out' = NavSatFix' /\ fix_out' # None =>
        active_fix' # None /\ fix_out'.age = age'[active_fix']
<1>1. ASSUME fix_out' = NavSatFix', fix_out' # None
      PROVE  active_fix' # None /\ fix_out'.age = age'[active_fix']
  <2>1. active_fix' # None BY <1>1 DEF NavSatFix
  <2>2. fix_out' = [feed |-> active_fix', value |-> latest'[active_fix'],
                    age |-> age'[active_fix'],
                    status |-> build_nav_status(latest[active_fix])']
    BY <1>1, <2>1 DEF NavSatFix
  <2>3. QED BY <2>1, <2>2, Zenon
<1>2. QED BY <1>1

\* A GGA or PVTSLNA: published in order unless it reports that the fix is lost.
LEMMA FixLineStep ==
    ASSUME IInv, NEW log \in AsciiFix, NEW q \in Content(log), FixLine(log, q)
    PROVE  StepKeeps
<1>0. q \in Int /\ q # None BY ContentAssumption DEF AsciiFix
<1>1. ParameterTypes' /\ IdTypes' BY DEF IInv, FixLine, ParameterTypes, IdTypes
<1>2. log \in Feed /\ log \in FixFeed /\ log # "PVTSLNB" BY DEF Feed, FixFeed, AsciiFix
<1>3. FeedTypes /\ PublishedType /\ OutputsCurrent BY DEF IInv
<1>4. TypeOK BY <1>3, OutputsTyped, TypeParts DEF IInv
<1>5. FeedTypes' BY <1>0, <1>2, <1>4, StoreTypes DEF FixLine
<1>6. PublishedType' /\ NotBehind' /\ fix_out' \in {None, NavSatFix'}
  BY <1>3, <1>5, PublishedInOrder DEF FixLine
<1>7. heading_out' = None BY DEF FixLine, NoHeading
<1>8. IInv' BY <1>1, <1>5, <1>6, <1>7 DEF IInv, OutputsCurrent
<1>9. ASSUME BinaryNavTimeout >= DataTimeout, fix_out' # None, ~ InvalidReport
      PROVE  ~ (fix_out'.age > published)
  <2>1. q > 0
    <3>1. ~ (q <= 0) BY <1>9 DEF InvalidReport
    <3>2. QED BY <1>0, <3>1
  <2>2. /\ latest'[log] = q /\ age'[log] = 0 /\ use_binary' = use_binary
        /\ \A g \in FixFeed : g # log => latest'[g] = latest[g] /\ age'[g] = age[g]
    BY <1>2, <1>3 DEF FixLine, Store, FeedTypes, FixFeed, Feed, AsciiFix
  <2>3. active_fix' # None /\ fix_out'.age = age'[active_fix']
    BY <1>9, PublishedAge DEF FixLine, publish_active_fix
  <2>4. NotBehind BY <1>9 DEF IInv
  <2>5. ~ (age'[active_fix'] > published)
    BY <1>0, <1>2, <1>3, <1>5, <2>1, <2>2, <2>3, <2>4, ReportInOrder
  <2>6. QED BY <2>3, <2>5
<1>10. QED BY <1>8, <1>9 DEF StepKeeps

\* An HDT or HPR: no position is touched.
LEMMA HeadingLineStep ==
    ASSUME IInv, NEW log \in AsciiHeading, NEW data, data # None, HeadingLine(log, data)
    PROVE  StepKeeps
<1>1. ParameterTypes' /\ IdTypes' BY DEF IInv, HeadingLine, ParameterTypes, IdTypes
<1>2. log \in Feed /\ log \notin FixFeed BY DEF Feed, FixFeed, AsciiFix, AsciiHeading
<1>3. FeedTypes /\ PublishedType /\ OutputsCurrent BY DEF IInv
<1>4. TypeOK BY <1>3, OutputsTyped, TypeParts DEF IInv
<1>5. FeedTypes' BY <1>2, <1>4, StoreTypes DEF HeadingLine
<1>6. fix_out' = None /\ published' = published BY DEF HeadingLine, NoFix
<1>7. \A g \in FixFeed : latest'[g] = latest[g] /\ age'[g] = age[g]
  BY <1>2, <1>3 DEF HeadingLine, Store, FeedTypes, FixFeed, Feed, AsciiFix
<1>8. use_binary' = use_binary BY DEF HeadingLine
<1>9. NotBehind => NotBehind' BY <1>6, <1>7, <1>8, QuietInOrder, UsableMeans
<1>10. heading_out' \in {None, Azimuth'} BY DEF HeadingLine, publish_active_heading
<1>11. IInv' BY <1>1, <1>3, <1>5, <1>6, <1>9, <1>10 DEF IInv, OutputsCurrent, PublishedType
<1>12. QED BY <1>6, <1>11 DEF StepKeeps

\* A log only the diagnostics read: no position is touched, ids stay bounded.
LEMMA StatusStep ==
    ASSUME IInv, NEW log \in AsciiStatus \cup BinaryStatus, NEW data \in Content(log),
           StoreStatus(log, data)
    PROVE  StepKeeps
<1>1. ParameterTypes' BY DEF IInv, StoreStatus, ParameterTypes
<1>2. log \in Feed /\ log \notin FixFeed
  BY DEF Feed, FixFeed, AsciiFix, AsciiStatus, BinaryStatus
<1>3. FeedTypes /\ PublishedType /\ OutputsCurrent /\ IdTypes BY DEF IInv
<1>4. TypeOK BY <1>3, OutputsTyped, TypeParts DEF IInv
<1>5. data # None BY <1>2, ContentAssumption
<1>6. FeedTypes' BY <1>2, <1>4, <1>5, StoreTypes DEF StoreStatus
<1>7. IdTypes'
  <2>1. CASE log \notin DOMAIN recent_ids
    BY <1>3, <2>1 DEF StoreStatus, IdTypes
  <2>2. CASE log \in DOMAIN recent_ids
    <3>1. log \in {"RTCMSTATUSA", "RTCMSTATUSB"} BY <1>3, <2>2 DEF IdTypes
    <3>2. data \in Int BY <3>1, ContentAssumption
    <3>3. recent_ids[log] \in Seq(Nat) /\ Len(recent_ids[log]) <= RecentLimit
      BY <1>3, <3>1 DEF IdTypes
    <3>4. /\ Remember(recent_ids[log], data) \in Seq(Nat)
          /\ Len(Remember(recent_ids[log], data)) <= RecentLimit
      BY <3>2, <3>3, RememberTypes
    <3>5. recent_ids' = [recent_ids EXCEPT ![log] = Remember(recent_ids[log], data)]
      BY <2>2 DEF StoreStatus
    <3>6. QED BY <1>3, <3>1, <3>4, <3>5 DEF IdTypes
  <2>3. QED BY <2>1, <2>2
<1>8. fix_out' = None /\ published' = published /\ heading_out' = None
  BY DEF StoreStatus, NoFix, NoHeading
<1>9. \A g \in FixFeed : latest'[g] = latest[g] /\ age'[g] = age[g]
  BY <1>2, <1>3 DEF StoreStatus, Store, FeedTypes, FixFeed, Feed, AsciiFix
<1>10. use_binary' = use_binary BY DEF StoreStatus
<1>11. NotBehind => NotBehind' BY <1>8, <1>9, <1>10, QuietInOrder, UsableMeans
<1>12. IInv' BY <1>1, <1>3, <1>6, <1>7, <1>8, <1>11 DEF IInv, OutputsCurrent, PublishedType
<1>13. QED BY <1>8, <1>12 DEF StepKeeps

\* A PVTSLNB: without use_binary_nav its position is not usable and nothing is
\* published; with it, as a line with a position.
LEMMA PvtslnbStep ==
    ASSUME IInv, NEW data \in [quality : Nat, block : HeadingBlock], PvtslnbFrame(data)
    PROVE  StepKeeps
<1>1. ParameterTypes' /\ IdTypes' BY DEF IInv, PvtslnbFrame, ParameterTypes, IdTypes
<1>2. "PVTSLNB" \in FixFeed BY DEF FixFeed
<1>3. FeedTypes /\ PublishedType /\ OutputsCurrent BY DEF IInv
<1>4. TypeOK BY <1>3, OutputsTyped, TypeParts DEF IInv
<1>5. /\ FeedTypes'
      /\ \A g \in FixFeed : g # "PVTSLNB" => latest'[g] = latest[g] /\ age'[g] = age[g]
      /\ age'["PVTSLNB"] = 0
  BY <1>4, PvtslnbTypes
<1>6. use_binary' = use_binary BY DEF PvtslnbFrame
<1>7. heading_out' \in {None, Azimuth'}
  BY DEF PvtslnbFrame, publish_active_heading, NoHeading
<1>8. CASE "nav" \notin use_binary
  <2>1. fix_out' = None /\ published' = published BY <1>8 DEF PvtslnbFrame, NoFix
  <2>2. \A g \in FixFeed : Usable(g)' <=> Usable(g) BY <1>5, <1>6, <1>8, UsableMeans
  <2>3. \A g \in FixFeed : Usable(g) => age'[g] = age[g] BY <1>5, <1>8, UsableMeans
  <2>4. NotBehind => NotBehind' BY <2>1, <2>2, <2>3, QuietInOrder
  <2>5. IInv' BY <1>1, <1>3, <1>5, <1>7, <2>1, <2>4 DEF IInv, OutputsCurrent, PublishedType
  <2>6. QED BY <2>1, <2>5 DEF StepKeeps
<1>9. CASE "nav" \in use_binary
  <2>1. publish_active_fix BY <1>9 DEF PvtslnbFrame
  <2>2. PublishedType' /\ NotBehind' /\ fix_out' \in {None, NavSatFix'}
    BY <1>3, <1>5, <2>1, PublishedInOrder
  <2>3. IInv' BY <1>1, <1>5, <1>7, <2>2 DEF IInv, OutputsCurrent
  <2>4. ASSUME BinaryNavTimeout >= DataTimeout, fix_out' # None, ~ InvalidReport
        PROVE  ~ (fix_out'.age > published)
    <3>1. data.quality \in Nat /\ data.block \in HeadingBlock OBVIOUS
    <3>2. data.quality # 0
      <4>1. SUFFICES ASSUME data.quality = 0 PROVE FALSE OBVIOUS
      <4>2. data = [quality |-> 0, block |-> data.block] BY <4>1
      <4>3. PvtslnbFrame([quality |-> 0, block |-> data.block]) BY <4>2
      <4>4. QED BY <2>4, <3>1, <4>3 DEF InvalidReport
    <3>3. latest'["PVTSLNB"] = data.quality
      BY <1>2 DEF PvtslnbFrame, Feed
    <3>4. latest'["PVTSLNB"] \in Nat /\ latest'["PVTSLNB"] > 0 BY <3>1, <3>2, <3>3
    <3>5. active_fix' # None /\ fix_out'.age = age'[active_fix']
      BY <2>1, <2>4, PublishedAge DEF publish_active_fix
    <3>6. NotBehind BY <2>4 DEF IInv
    <3>7. ~ (age'[active_fix'] > published)
      BY <1>2, <1>3, <1>5, <1>6, <1>9, <3>4, <3>5, <3>6, ReportInOrder
    <3>8. QED BY <3>5, <3>7
  <2>5. QED BY <2>3, <2>4 DEF StepKeeps
<1>10. QED BY <1>8, <1>9

\* The passing of time publishes nothing.
LEMMA TickStep ==
    ASSUME IInv, Tick
    PROVE  StepKeeps
<1>1. ParameterTypes' /\ IdTypes' BY DEF IInv, Tick, ParameterTypes, IdTypes
<1>2. FeedTypes /\ PublishedType BY DEF IInv
<1>3. \A n \in 0 .. Old : Older(n) \in 0 .. Old BY TimeAssumption DEF Older
<1>4. Older(Old) = Old BY TimeAssumption DEF Older
<1>5. FeedTypes' BY <1>2, <1>3, <1>4 DEF Tick, FeedTypes, FixFeed, Feed
<1>6. PublishedType' BY <1>2, <1>3 DEF Tick, PublishedType
<1>7. fix_out' = None /\ heading_out' = None BY DEF Tick, NoHeading
<1>8. BinaryNavTimeout >= DataTimeout => NotBehind' BY <1>2, TimeInOrder DEF IInv
<1>9. IInv' BY <1>1, <1>5, <1>6, <1>7, <1>8 DEF IInv, OutputsCurrent
<1>10. QED BY <1>7, <1>9 DEF StepKeeps

\* Every step keeps the invariant and the order.
LEMMA NextStep ==
    ASSUME IInv, Next
    PROVE  StepKeeps
<1>1. CASE Tick BY <1>1, TickStep
<1>2. CASE Line
  <2>1. CASE \E log \in AsciiFix \cap logged : \E q \in Content(log) : FixLine(log, q)
    BY <2>1, FixLineStep, ContentAssumption DEF AsciiFix
  <2>2. CASE \E log \in AsciiHeading \cap logged : \E d \in Content(log) : HeadingLine(log, d)
    <3>1. \A log \in AsciiHeading : None \notin Content(log)
      BY ContentAssumption DEF Feed, AsciiHeading
    <3>2. QED BY <2>2, <3>1, HeadingLineStep
  <2>3. CASE \E log \in AsciiStatus \cap logged : \E d \in Content(log) : StatusLine(log, d)
    BY <2>3, StatusStep DEF StatusLine
  <2>4. QED BY <1>2, <2>1, <2>2, <2>3 DEF Line
<1>3. CASE Frame
  <2>1. CASE "PVTSLNB" \in logged /\ \E d \in Content("PVTSLNB") : PvtslnbFrame(d)
    BY <2>1, PvtslnbStep, ContentAssumption
  <2>2. CASE \E log \in BinaryStatus \cap logged : \E d \in Content(log) : StatusFrame(log, d)
    BY <2>2, StatusStep DEF StatusFrame
  <2>3. QED BY <1>3, <2>1, <2>2 DEF Frame
<1>4. QED BY <1>1, <1>2, <1>3 DEF Next

-----------------------------------------------------------------------------
(* The theorems *)

\* The invariant holds at the start, and is left alone by stuttering.
LEMMA Start == Init => IInv
<1>1. SUFFICES ASSUME Init PROVE IInv OBVIOUS
<1>2. ParameterTypes /\ PublishedType /\ OutputsCurrent
  BY <1>1, TimeAssumption DEF Init, ParameterTypes, PublishedType, OutputsCurrent
<1>3. FeedTypes
  <2>1. \A f \in FixFeed : f \in Feed BY DEF FixFeed, Feed, AsciiFix
  <2>2. QED BY <1>1, <2>1, TimeAssumption DEF Init, FeedTypes
<1>4. IdTypes BY <1>1, TimeAssumption, EmptySeq DEF Init, IdTypes
<1>5. NotBehind
  <2>1. \A g \in FixFeed : g \in Feed BY DEF FixFeed, Feed, AsciiFix
  <2>2. \A g \in FixFeed : latest[g] = None BY <1>1, <2>1 DEF Init
  <2>3. QED BY <2>2, UsableMeans DEF NotBehind
<1>6. QED BY <1>2, <1>3, <1>4, <1>5 DEF IInv

LEMMA Stutter == IInv /\ UNCHANGED vars => IInv'
<1>1. SUFFICES ASSUME IInv, UNCHANGED vars PROVE IInv' OBVIOUS
<1>2. NavSatFix' = NavSatFix
  BY <1>1, ZenonT(30)
     DEF vars, NavSatFix, active_fix, active_ascii_fix, active_binary_fix, ValidFix,
                     Fresh, build_nav_status
<1>3. Azimuth' = Azimuth
  BY <1>1, Zenon DEF vars, Azimuth, active_heading, active_ascii_heading, Fresh
<1>4. NotBehind => NotBehind'
  <2>1. published' = published /\ \A g \in FixFeed : age'[g] = age[g] BY <1>1 DEF vars
  <2>2. \A g \in FixFeed : Usable(g)' <=> Usable(g) BY <1>1, UsableMeans DEF vars
  <2>3. QED BY <2>1, <2>2, QuietInOrder
<1>5. ParameterTypes' /\ FeedTypes' /\ IdTypes' /\ PublishedType'
  BY <1>1 DEF vars, IInv, ParameterTypes, FeedTypes, IdTypes, PublishedType
<1>6. OutputsCurrent' BY <1>1, <1>2, <1>3 DEF vars, IInv, OutputsCurrent
<1>7. QED BY <1>1, <1>4, <1>5, <1>6 DEF IInv

\* The invariant holds always.
LEMMA Invariant == Spec => []IInv
<1>1. IInv /\ [Next]_vars => IInv' BY NextStep, Stutter DEF StepKeeps
<1>2. QED BY Start, <1>1, PTL DEF Spec

\* Every member the selection reads keeps its type, for all timeouts and logs.
THEOREM TypeCorrect == Spec => []TypeOK
<1>1. IInv => TypeOK BY OutputsTyped, TypeParts DEF IInv
<1>2. QED BY Invariant, <1>1, PTL

\* The status of what is published now is that of its own quality.
LEMMA InvStatus == IInv => StatusIsOwn
<1>1. ASSUME IInv, fix_out # None
      PROVE  fix_out.status = CASE fix_out.value = 0 -> "NO_FIX"
                                [] fix_out.value \in {2, 9} -> "SBAS"
                                [] fix_out.value \in {4, 5} -> "GBAS"
                                [] OTHER -> "FIX"
  <2> DEFINE v == fix_out.value
  <2>1. active_fix # None /\ fix_out = [feed |-> active_fix, value |-> latest[active_fix],
                                        age |-> age[active_fix],
                                        status |-> build_nav_status(latest[active_fix])]
    BY <1>1 DEF IInv, OutputsCurrent, NavSatFix
  <2>2. v = latest[active_fix] /\ fix_out.status = build_nav_status(v) BY <2>1, Zenon
  <2>3. active_fix \in FixFeed /\ latest[active_fix] # None /\ latest[active_fix] > 0
    BY <2>1, ActiveFix, UsableMeans
  <2>4. v \in Int /\ v > 0 BY <1>1, <2>2, <2>3 DEF IInv, FeedTypes
  <2>5. ~ (v <= 0) /\ v # 0 BY <2>4
  <2> HIDE DEF v
  <2>6. build_nav_status(v) = CASE v = 0 -> "NO_FIX" [] v \in {2, 9} -> "SBAS"
                                [] v \in {4, 5} -> "GBAS" [] OTHER -> "FIX"
    BY <2>5, Zenon DEF build_nav_status
  <2>7. v \in {2, 9} => v \notin {4, 5} OBVIOUS
  <2>8. CASE v \in {2, 9}
    BY <2>2, <2>5, <2>6, <2>7, <2>8, Zenon DEF v
  <2>9. CASE v \in {4, 5}
    BY <2>2, <2>5, <2>6, <2>7, <2>9, Zenon DEF v
  <2>10. CASE v \notin {2, 9} /\ v \notin {4, 5}
    BY <2>2, <2>5, <2>6, <2>10, Zenon DEF v
  <2>11. QED BY <2>8, <2>9, <2>10
<1>2. QED BY <1>1 DEF StatusIsOwn

\* A published position never carries the quality of a GGA of another epoch:
\* active_fix selects a fix with a quality of its own, whatever the other feeds
\* say and however old they are.
THEOREM StatusBelongs == Spec => []StatusIsOwn
BY Invariant, InvStatus, PTL

\* With a binary timeout not below the ASCII one, the published positions go back
\* in time only when a feed reports that its fix is lost: three feeds that take
\* turns, expire and come back in any order do not do it.
THEOREM NoSilentRegression == Spec => RegressionOnlyOnLostFix
<1>1. IInv /\ [Next]_vars =>
        [BinaryNavTimeout >= DataTimeout /\ fix_out' # None /\ fix_out'.age > published
         => InvalidReport]_vars
  <2>1. SUFFICES ASSUME IInv, Next, BinaryNavTimeout >= DataTimeout, fix_out' # None,
                        fix_out'.age > published
                 PROVE  InvalidReport
    OBVIOUS
  <2>2. StepKeeps BY <2>1, NextStep
  <2>3. QED BY <2>1, <2>2 DEF StepKeeps
<1>2. QED BY Invariant, <1>1, PTL DEF Spec, RegressionOnlyOnLostFix

-----------------------------------------------------------------------------
(* Sets of reports, as PreferredFeed sees them *)

\* The reports of the feeds in S, given the latest data L and the ages A, and the
\* preferred of a set of reports.
ReportsOf(L, A, S) == {[feed |-> f, value |-> L[f], age |-> A[f]] : f \in S}

BestOf(order, reports) ==
    LET has(i) == \E r \in reports : r.feed = order[i]
        i == CHOOSE n \in DOMAIN order : has(n) /\ \A m \in 1 .. (n - 1) : ~ has(m)
    IN  IF reports = {} THEN None ELSE CHOOSE r \in reports : r.feed = order[i]

\* Of reports of several feeds the first one in the order is the best.
LEMMA BestIsFirst ==
    ASSUME NEW order, NEW L, NEW A, NEW S, NEW n \in Nat, n \in DOMAIN order,
           DOMAIN order \subseteq Nat \ {0}, order[n] \in S,
           \A m \in DOMAIN order : m < n => order[m] \notin S,
           \A m \in 1 .. n : m \in DOMAIN order
    PROVE  BestOf(order, ReportsOf(L, A, S))
             = [feed |-> order[n], value |-> L[order[n]], age |-> A[order[n]]]
<1> DEFINE reports == ReportsOf(L, A, S)
           has(i) == \E r \in reports : r.feed = order[i]
           best(f) == [feed |-> f, value |-> L[f], age |-> A[f]]
           First(i) == has(i) /\ \A m \in 1 .. (i - 1) : ~ has(m)
           i == CHOOSE k \in DOMAIN order : First(k)
<1>1. \A f : best(f).feed = f OBVIOUS
<1>2. \A r : r \in reports <=> \E f \in S : r = best(f) BY DEF ReportsOf
<1> HIDE DEF reports, best
<1>3. \A k : has(k) <=> order[k] \in S BY <1>1, <1>2
<1> HIDE DEF has
<1>4. First(n)
  <2>1. \A m \in 1 .. (n - 1) : m \in 1 .. n /\ m < n OBVIOUS
  <2>2. \A m \in 1 .. (n - 1) : m \in DOMAIN order /\ m < n BY <2>1
  <2>3. QED BY <1>3, <2>2
<1>5. ASSUME NEW k \in DOMAIN order, First(k) PROVE k = n
  <2>1. k \in Nat /\ k # 0 OBVIOUS
  <2>2. ~ (k < n) BY <1>3, <1>5
  <2>3. ~ (n < k)
    <3>1. n \in Nat \ {0} OBVIOUS
    <3>2. n < k => n \in 1 .. (k - 1) BY <2>1, <3>1
    <3>3. QED BY <1>4, <1>5, <3>2
  <2>4. QED BY <2>1, <2>2, <2>3
<1>6. i = n
  <2>1. i \in DOMAIN order /\ First(i) BY <1>4
  <2> HIDE DEF i
  <2>2. QED BY <1>5, <2>1
<1>7. reports # {} BY <1>2
<1>8. BestOf(order, ReportsOf(L, A, S)) = CHOOSE r \in reports : r.feed = order[i]
  BY <1>7 DEF BestOf, reports, has
<1> HIDE DEF i
<1>9. (CHOOSE r \in reports : r.feed = order[n]) = best(order[n])
  <2> DEFINE c == CHOOSE r \in reports : r.feed = order[n]
  <2>1. best(order[n]) \in reports /\ best(order[n]).feed = order[n] BY <1>1, <1>2
  <2>2. c \in reports /\ c.feed = order[n] BY <2>1
  <2> HIDE DEF c
  <2>3. PICK f \in S : c = best(f) BY <1>2, <2>2
  <2>4. f = order[n] BY <1>1, <2>2, <2>3
  <2>5. QED BY <2>3, <2>4 DEF c
<1>10. QED BY <1>6, <1>8, <1>9 DEF best

\* The reports after f reported the values V.
Replaced(reports, f, V) ==
    {r \in reports : r.feed # f} \cup {[feed |-> f, value |-> v, age |-> 0] : v \in V}

\* A new report takes the place of the one its feed had.
LEMMA ReportReplaces ==
    ASSUME NEW L, NEW A, NEW S, NEW L2, NEW A2, NEW S2, NEW f,
           \A g : g # f => (g \in S2 <=> g \in S),
           \A g \in S : g # f => L2[g] = L[g] /\ A2[g] = A[g],
           NEW V, V = (IF f \in S2 THEN {L2[f]} ELSE {}), f \in S2 => A2[f] = 0
    PROVE  ReportsOf(L2, A2, S2) = Replaced(ReportsOf(L, A, S), f, V)
<1> DEFINE rep(g, v, a) == [feed |-> g, value |-> v, age |-> a]
           old == ReportsOf(L, A, S)
           new == ReportsOf(L2, A2, S2)
           added == {rep(f, v, 0) : v \in V}
<1>1. \A g, v, a : rep(g, v, a).feed = g OBVIOUS
<1>2. \A r : r \in old <=> \E g \in S : r = rep(g, L[g], A[g]) BY DEF ReportsOf
<1>3. \A r : r \in new <=> \E g \in S2 : r = rep(g, L2[g], A2[g]) BY DEF ReportsOf
<1>4. \A r : r \in added <=> \E v \in V : r = rep(f, v, 0) OBVIOUS
<1> HIDE DEF rep, old, new, added
<1>5. ASSUME NEW r \in new PROVE (r \in old /\ r.feed # f) \/ r \in added
  <2>1. PICK g \in S2 : r = rep(g, L2[g], A2[g]) BY <1>3
  <2>2. CASE g = f
    <3>1. L2[f] \in V /\ A2[f] = 0 BY <2>2
    <3>2. QED BY <1>4, <2>1, <2>2, <3>1
  <2>3. CASE g # f
    <3>1. g \in S /\ L2[g] = L[g] /\ A2[g] = A[g] BY <2>3
    <3>2. QED BY <1>1, <1>2, <2>1, <2>3, <3>1
  <2>4. QED BY <2>2, <2>3
<1>6. ASSUME NEW r \in old, r.feed # f PROVE r \in new
  <2>1. PICK g \in S : r = rep(g, L[g], A[g]) BY <1>2
  <2>2. g # f BY <1>1, <1>6, <2>1
  <2>3. g \in S2 /\ L2[g] = L[g] /\ A2[g] = A[g] BY <2>2
  <2>4. QED BY <1>3, <2>1, <2>3
<1>7. ASSUME NEW r \in added PROVE r \in new
  <2>1. PICK v \in V : r = rep(f, v, 0) BY <1>4
  <2>2. f \in S2 /\ v = L2[f] /\ A2[f] = 0 BY <2>1
  <2>3. QED BY <1>3, <2>1, <2>2
<1>8. new = {r \in old : r.feed # f} \cup added BY <1>5, <1>6, <1>7
<1>9. QED BY <1>8 DEF new, old, added, rep, Replaced

\* The reports after a while.
Aged(reports) ==
    {[r EXCEPT !.age = @ + 1] : r \in {x \in reports : x.age < FeedTimeout(x.feed)}}

\* With time reports get older, and those at their timeout are dropped.
LEMMA ReportsAge ==
    ASSUME NEW L, NEW A, NEW S, NEW A2, NEW S2,
           \A f : f \in S2 <=> f \in S /\ A[f] < FeedTimeout(f),
           \A f \in S2 : A2[f] = A[f] + 1
    PROVE  ReportsOf(L, A2, S2) = Aged(ReportsOf(L, A, S))
<1> DEFINE rep(g, a) == [feed |-> g, value |-> L[g], age |-> a]
           old == ReportsOf(L, A, S)
           new == ReportsOf(L, A2, S2)
           older(r) == [r EXCEPT !.age = @ + 1]
           aged == {older(r) : r \in {x \in old : x.age < FeedTimeout(x.feed)}}
<1>1. \A g, a : rep(g, a).feed = g /\ rep(g, a).age = a OBVIOUS
<1>2. \A g, a : older(rep(g, a)) = rep(g, a + 1)
  <2>1. \A g, v, a : [[feed |-> g, value |-> v, age |-> a] EXCEPT !.age = @ + 1]
                       = [feed |-> g, value |-> v, age |-> a + 1]
    BY SMT
  <2>2. QED BY <2>1, Zenon
<1>3. \A r : r \in old <=> \E g \in S : r = rep(g, A[g]) BY DEF ReportsOf
<1>4. \A r : r \in new <=> \E g \in S2 : r = rep(g, A2[g]) BY DEF ReportsOf
<1> HIDE DEF rep, old, new, older
<1>5. ASSUME NEW r \in new PROVE r \in aged
  <2>1. PICK g \in S2 : r = rep(g, A2[g]) BY <1>4
  <2>2. g \in S /\ A[g] < FeedTimeout(g) /\ A2[g] = A[g] + 1 OBVIOUS
  <2>3. rep(g, A[g]) \in old /\ rep(g, A[g]).age < FeedTimeout(rep(g, A[g]).feed)
    BY <1>1, <1>3, <2>2
  <2>4. r = older(rep(g, A[g])) BY <1>2, <2>1, <2>2
  <2>5. QED BY <2>3, <2>4
<1>6. ASSUME NEW r \in aged PROVE r \in new
  <2>1. PICK x \in old : x.age < FeedTimeout(x.feed) /\ r = older(x) OBVIOUS
  <2>2. PICK g \in S : x = rep(g, A[g]) BY <1>3
  <2>3. A[g] < FeedTimeout(g) BY <1>1, <2>1, <2>2
  <2>4. g \in S2 /\ A2[g] = A[g] + 1 BY <2>3
  <2>5. QED BY <1>2, <1>4, <2>1, <2>2, <2>4
<1>7. new = aged BY <1>5, <1>6
<1>8. QED BY <1>7 DEF new, old, older, Aged

-----------------------------------------------------------------------------
(* The topic fix *)

\* The feeds whose position may be published, and their reports: what live stands
\* for in FixTopic.
UsableFix == {f \in FixFeed : Usable(f)}

FixLive ==
    {r \in Reports({FixPreference[i] : i \in DOMAIN FixPreference}, FeedTimeout) : r.value > 0}

\* A feed without its parameter is not among the feeds of the topic.
LEMMA FixFeeds ==
    {FixPreference[i] : i \in DOMAIN FixPreference}
      = {f \in FixFeed : f = "PVTSLNB" => "nav" \in use_binary}
<1>1. CASE "nav" \in use_binary
  <2>1. FixPreference = <<"PVTSLNB", "PVTSLNA", "GGA">> BY <1>1 DEF FixPreference
  <2>2. DOMAIN FixPreference = {1, 2, 3} BY <2>1
  <2>3. QED BY <1>1, <2>1, <2>2 DEF FixFeed, AsciiFix
<1>2. CASE "nav" \notin use_binary
  <2>1. FixPreference = <<"PVTSLNA", "GGA">> BY <1>2 DEF FixPreference
  <2>2. DOMAIN FixPreference = {1, 2} BY <2>1
  <2>3. QED BY <1>2, <2>1, <2>2 DEF FixFeed, AsciiFix
<1>3. QED BY <1>1, <1>2

\* The usable feeds are those with a report that may be used.
LEMMA FixReports == FixLive = ReportsOf(latest, age, UsableFix)
<1> DEFINE rep(f) == [feed |-> f, value |-> latest[f], age |-> age[f]]
           feeds == {FixPreference[i] : i \in DOMAIN FixPreference}
           fresh == {g \in feeds : Fresh(g, FeedTimeout(g))}
<1>1. \A f : rep(f).value = latest[f] OBVIOUS
<1>2. FixLive = {r \in {rep(f) : f \in fresh} : r.value > 0} BY DEF FixLive, Reports
<1>3. ReportsOf(latest, age, UsableFix) = {rep(f) : f \in UsableFix} BY DEF ReportsOf
<1>4. \A f \in FixFeed : FeedTimeout(f) = FixTimeout(f)
  BY DEF FixFeed, AsciiFix, FeedTimeout, FixTimeout
<1>5. feeds = {f \in FixFeed : f = "PVTSLNB" => "nav" \in use_binary} BY FixFeeds
<1> HIDE DEF feeds
<1>6. \A f : f \in UsableFix <=> f \in fresh /\ latest[f] > 0
  BY <1>4, <1>5, UsableMeans DEF UsableFix, Fresh
<1> HIDE DEF rep, fresh
<1>7. QED BY <1>1, <1>2, <1>3, <1>6

\* publish_active_fix publishes the best report.
LEMMA BestFix == FeedTypes => BestOf(FixPreference, FixLive) = Plain(NavSatFix)
<1>1. SUFFICES ASSUME FeedTypes PROVE BestOf(FixPreference, FixLive) = Plain(NavSatFix)
  OBVIOUS
<1>2. CASE UsableFix = {}
  <2>1. active_fix = None BY <1>2, ActiveFix DEF UsableFix
  <2>2. FixLive = {} BY <1>2, FixReports DEF ReportsOf
  <2>3. QED BY <2>1, <2>2 DEF BestOf, Plain, NavSatFix
<1>3. CASE UsableFix # {}
  <2> DEFINE f == active_fix
  <2>1. /\ f # None /\ f \in UsableFix
        /\ \A g \in UsableFix : g = f \/ Preferred(f, g)
    BY <1>3, ActiveFix DEF UsableFix, Preferred
  <2>2. Plain(NavSatFix) = [feed |-> f, value |-> latest[f], age |-> age[f]]
    <3> DEFINE st == build_nav_status(latest[f])
               msg == [feed |-> f, value |-> latest[f], age |-> age[f], status |-> st]
    <3>1. NavSatFix = msg BY <2>1 DEF NavSatFix
    <3>2. f \in Feed BY <2>1 DEF UsableFix, FixFeed, Feed, AsciiFix
    <3>3. latest[f] \in Int BY <1>1, <2>1, UsableMeans DEF UsableFix, FeedTypes
    <3>4. age[f] \in 0 .. Old BY <1>1, <3>2 DEF FeedTypes
    <3>5. st \in {"NO_FIX", "FIX", "SBAS", "GBAS"} BY DEF build_nav_status
    <3> HIDE DEF f, st
    <3>6. msg \in [feed : Feed, value : Int, age : 0 .. Old,
                   status : {"NO_FIX", "FIX", "SBAS", "GBAS"}]
      BY <3>2, <3>3, <3>4, <3>5
    <3>7. msg # None BY <3>6, NoneAssumption
    <3>8. msg.feed = f /\ msg.value = latest[f] /\ msg.age = age[f] OBVIOUS
    <3> HIDE DEF msg
    <3>9. Plain(msg) = [feed |-> f, value |-> latest[f], age |-> age[f]]
      BY <3>7, <3>8 DEF Plain
    <3>10. QED BY <3>1, <3>9
  <2>3. f \in FixFeed /\ (f = "PVTSLNB" => "nav" \in use_binary)
    BY <2>1, UsableMeans DEF UsableFix
  <2>4. PICK n \in DOMAIN FixPreference : FixPreference[n] = f BY <2>3, FixFeeds
  <2>5. \A m \in DOMAIN FixPreference : m < n => FixPreference[m] \notin UsableFix
    <3>1. SUFFICES ASSUME NEW m \in DOMAIN FixPreference, m < n, FixPreference[m] \in UsableFix
                   PROVE  FALSE
      OBVIOUS
    <3>2. FixPreference[m] = f \/ Preferred(f, FixPreference[m]) BY <2>1, <3>1
    <3> HIDE DEF f
    <3>3. QED BY <2>4, <3>1, <3>2 DEF FixPreference, Preferred, AsciiFix
  <2>6. /\ n \in Nat /\ DOMAIN FixPreference \subseteq Nat \ {0}
        /\ \A m \in 1 .. n : m \in DOMAIN FixPreference
    BY <2>4 DEF FixPreference
  <2> HIDE DEF f
  <2>7. BestOf(FixPreference, ReportsOf(latest, age, UsableFix))
          = [feed |-> f, value |-> latest[f], age |-> age[f]]
    BY <2>1, <2>4, <2>5, <2>6, BestIsFirst
  <2>8. QED BY <2>2, <2>7, FixReports
<1>4. QED BY <1>2, <1>3

\* A report of a feed in use is a report of FixTopic.
LEMMA FixReported ==
    ASSUME FeedTypes', use_binary' = use_binary,
           NEW f \in FixFeed, f = "PVTSLNB" => "nav" \in use_binary,
           IF f = "PVTSLNB" THEN latest'[f] \in {d.quality : d \in Content(f)}
           ELSE latest'[f] \in Content(f),
           latest'[f] \in Int, age'[f] = 0,
           \A g \in FixFeed : g # f => latest'[g] = latest[g] /\ age'[g] = age[g],
           publish_active_fix
    PROVE  FixTopic!Next
<1> DEFINE V == IF latest'[f] > 0 THEN {latest'[f]} ELSE {}
<1>1. FixPreference' = FixPreference BY DEF FixPreference
<1>2. Plain(fix_out)' = BestOf(FixPreference, FixLive')
  <2>1. (FeedTypes => BestOf(FixPreference, FixLive) = Plain(NavSatFix))' BY BestFix, PTL
  <2>2. BestOf(FixPreference', FixLive') = Plain(NavSatFix)' BY <2>1 DEF BestOf
  <2>3. QED BY <1>1, <2>2 DEF publish_active_fix, Plain
<1>3. FixLive' = ReportsOf(latest', age', UsableFix')
  <2>1. (FixLive = ReportsOf(latest, age, UsableFix))' BY FixReports, PTL
  <2>2. QED BY <2>1 DEF ReportsOf
<1>4. \A g : g # f => (g \in UsableFix' <=> g \in UsableFix)
  BY UsableMeans DEF UsableFix
<1>5. \A g \in UsableFix : g # f => latest'[g] = latest[g] /\ age'[g] = age[g]
  BY DEF UsableFix
<1>6. f \in UsableFix' <=> latest'[f] > 0
  <2>1. latest'[f] # None BY ContentAssumption
  <2>2. 0 <= FixTimeout(f) BY TimeAssumption DEF FixTimeout
  <2>3. QED BY <2>1, <2>2, UsableMeans DEF UsableFix
<1>7. V = (IF f \in UsableFix' THEN {latest'[f]} ELSE {}) BY <1>6
<1>7a. f \in UsableFix' => age'[f] = 0 OBVIOUS
<1>8. FixLive' = Replaced(FixLive, f, V)
  <2> HIDE DEF V
  <2>1. ReportsOf(latest', age', UsableFix') = Replaced(ReportsOf(latest, age, UsableFix), f, V)
    BY <1>4, <1>5, <1>7, <1>7a, ReportReplaces
  <2>2. QED BY <1>3, <2>1, FixReports
<1>9. ASSUME NEW reported, reported = V PROVE FixTopic!Report(f, reported)
  <2> HIDE DEF V
  <2>1. QED BY <1>2, <1>8, <1>9 DEF FixTopic!Report, FixTopic!Best, BestOf, FixLive, Replaced
<1>10. f \in FixTopic!Feeds BY FixFeeds DEF FixTopic!Feeds
<1>11. FixTopic!Report(f, {}) \/ \E v \in Content("GGA") \cup Content("PVTSLNA")
                                          \cup {d.quality : d \in Content("PVTSLNB")} :
                                 FixTopic!Report(f, {v})
  <2>1. CASE latest'[f] > 0
    <3>1. f \in {"GGA", "PVTSLNA", "PVTSLNB"} BY DEF FixFeed, AsciiFix
    <3>2. latest'[f] \in Content("GGA") \cup Content("PVTSLNA")
                           \cup {d.quality : d \in Content("PVTSLNB")}
      BY <3>1
    <3>3. QED BY <1>9, <2>1, <3>2
  <2>2. CASE ~ (latest'[f] > 0) BY <1>9, <2>2
  <2>3. QED BY <2>1, <2>2
<1>12. QED BY <1>1, <1>10, <1>11 DEF FixTopic!Next

\* A step that publishes no position and does not touch the usable ones.
LEMMA FixOther ==
    ASSUME use_binary' = use_binary, fix_out' = None,
           \A g \in FixFeed : Usable(g)' <=> Usable(g),
           \A g \in FixFeed : Usable(g) => latest'[g] = latest[g] /\ age'[g] = age[g]
    PROVE  FixTopic!Next
<1>1. FixPreference' = FixPreference BY DEF FixPreference
<1>2. FixLive' = ReportsOf(latest', age', UsableFix')
  <2>1. (FixLive = ReportsOf(latest, age, UsableFix))' BY FixReports, PTL
  <2>2. QED BY <2>1 DEF ReportsOf
<1>3. UsableFix' = UsableFix BY DEF UsableFix
<1>4. ReportsOf(latest', age', UsableFix) = ReportsOf(latest, age, UsableFix)
  BY DEF ReportsOf, UsableFix
<1>5. FixLive' = FixLive BY <1>2, <1>3, <1>4, FixReports
<1>6. Plain(fix_out)' = None BY DEF Plain
<1>7. FixTopic!Other BY <1>5, <1>6 DEF FixTopic!Other, FixLive
<1>8. QED BY <1>1, <1>7 DEF FixTopic!Next

\* Feeds grow older in the node as their reports do in FixTopic.
LEMMA FixTick ==
    ASSUME FeedTypes, Tick
    PROVE  FixTopic!Next
<1>1. FixPreference' = FixPreference BY DEF FixPreference, Tick
<1>2. FixLive' = ReportsOf(latest, age', UsableFix')
  <2>1. (FixLive = ReportsOf(latest, age, UsableFix))' BY FixReports, PTL
  <2>2. latest' = latest BY DEF Tick
  <2>3. QED BY <2>1, <2>2 DEF ReportsOf
<1>3. \A f \in FixFeed : /\ age'[f] = Older(age[f]) /\ age[f] \in 0 .. Old
                         /\ FeedTimeout(f) = FixTimeout(f)
                         /\ FeedTimeout(f) \in Nat /\ FeedTimeout(f) < Old
  BY TimeAssumption DEF Tick, FeedTypes, FixFeed, AsciiFix, Feed, FeedTimeout, FixTimeout
<1>4. ASSUME NEW f PROVE f \in UsableFix' <=> f \in UsableFix /\ age[f] < FeedTimeout(f)
  <2>1. CASE f \in FixFeed
    <3>1. latest' = latest /\ use_binary' = use_binary BY DEF Tick
    <3>2. age'[f] <= FixTimeout(f) <=> age[f] < FixTimeout(f) BY <1>3, <2>1 DEF Older
    <3>3. age[f] < FixTimeout(f) => age[f] <= FixTimeout(f) BY <1>3, <2>1
    <3>4. QED BY <1>3, <2>1, <3>1, <3>2, <3>3, UsableMeans DEF UsableFix
  <2>2. CASE f \notin FixFeed BY <2>2 DEF UsableFix
  <2>3. QED BY <2>1, <2>2
<1>5. ASSUME NEW f \in UsableFix' PROVE age'[f] = age[f] + 1
  <2>1. f \in FixFeed /\ age[f] < FeedTimeout(f) BY <1>4 DEF UsableFix
  <2>2. /\ age'[f] = Older(age[f]) /\ age[f] \in Int
        /\ FeedTimeout(f) \in Int /\ FeedTimeout(f) < Old
    BY <1>3, <2>1
  <2>3. age[f] < Old BY <2>1, <2>2, TimeAssumption
  <2>4. QED BY <2>2, <2>3 DEF Older
<1>6. FixLive' = Aged(FixLive)
  <2>1. ReportsOf(latest, age', UsableFix') = Aged(ReportsOf(latest, age, UsableFix))
    BY <1>4, <1>5, ReportsAge
  <2>2. QED BY <1>2, <2>1, FixReports
<1>7. Plain(fix_out)' = None BY DEF Tick, Plain
<1>8. FixTopic!Tick BY <1>6, <1>7 DEF FixTopic!Tick, FixLive, Aged
<1>9. QED BY <1>1, <1>8 DEF FixTopic!Next

\* Every step of the node is one of the topic fix.
LEMMA FixStep ==
    ASSUME IInv, IInv', Next
    PROVE  FixTopic!Next
<1> USE DEF IInv
<1>1. \A f \in FixFeed : f \in Feed BY DEF FixFeed, Feed, AsciiFix
<1>2. ASSUME NEW log \in AsciiFix, NEW q \in Content(log), FixLine(log, q)
      PROVE  FixTopic!Next
  <2>1. log \in FixFeed /\ log # "PVTSLNB" BY DEF FixFeed, AsciiFix
  <2>2. /\ latest'[log] = q /\ age'[log] = 0 /\ use_binary' = use_binary
        /\ \A g \in FixFeed : g # log => latest'[g] = latest[g] /\ age'[g] = age[g]
    BY <1>1, <1>2, <2>1 DEF FixLine, Store, FeedTypes
  <2>3. q \in Int BY ContentAssumption DEF AsciiFix
  <2>4. QED BY <1>2, <2>1, <2>2, <2>3, FixReported DEF FixLine
<1>3. ASSUME NEW d \in Content("PVTSLNB"), PvtslnbFrame(d)
      PROVE  FixTopic!Next
  <2>1. d \in [quality : Nat, block : HeadingBlock] BY ContentAssumption
  <2>2. TypeOK BY OutputsTyped, TypeParts
  <2>3. /\ \A g \in FixFeed : g # "PVTSLNB" => latest'[g] = latest[g] /\ age'[g] = age[g]
        /\ age'["PVTSLNB"] = 0
    BY <1>3, <2>1, <2>2, PvtslnbTypes
  <2>4. latest'["PVTSLNB"] = d.quality /\ d.quality \in Int /\ use_binary' = use_binary
    <3>1. "PVTSLNB" \in Feed BY DEF Feed
    <3>2. d.quality \in Int BY <2>1
    <3>3. QED BY <1>3, <3>1, <3>2 DEF PvtslnbFrame
  <2>5. "PVTSLNB" \in FixFeed BY DEF FixFeed
  <2>6. CASE "nav" \in use_binary
    <3>1. publish_active_fix BY <1>3, <2>6 DEF PvtslnbFrame
    <3>2. d.quality \in {c.quality : c \in Content("PVTSLNB")} OBVIOUS
    <3>3. QED BY <2>3, <2>4, <2>5, <2>6, <3>1, <3>2, FixReported
  <2>7. CASE "nav" \notin use_binary
    <3>1. fix_out' = None BY <1>3, <2>7 DEF PvtslnbFrame, NoFix
    <3>2. \A g \in FixFeed : Usable(g)' <=> Usable(g) BY <2>3, <2>4, <2>7, UsableMeans
    <3>3. \A g \in FixFeed : Usable(g) => g # "PVTSLNB" BY <2>7, UsableMeans
    <3>4. QED BY <2>3, <2>4, <3>1, <3>2, <3>3, FixOther
  <2>8. QED BY <2>6, <2>7
<1>4. ASSUME NEW log \in Feed \ FixFeed, NEW data, Store(log, data),
             use_binary' = use_binary, NoFix
      PROVE  FixTopic!Next
  <2>1. \A g \in FixFeed : latest'[g] = latest[g] /\ age'[g] = age[g]
    BY <1>1, <1>4 DEF Store, FeedTypes
  <2>2. \A g \in FixFeed : Usable(g)' <=> Usable(g) BY <1>4, <2>1, UsableMeans
  <2>3. QED BY <1>4, <2>1, <2>2, FixOther DEF NoFix
<1>5. /\ AsciiHeading \cup AsciiStatus \cup BinaryStatus \subseteq Feed
      /\ \A f \in AsciiHeading \cup AsciiStatus \cup BinaryStatus : f \notin FixFeed
  BY DEF Feed, FixFeed, AsciiFix, AsciiHeading, AsciiStatus, BinaryStatus
<1>6. CASE Line
  BY <1>2, <1>4, <1>5, <1>6 DEF Line, HeadingLine, StatusLine, StoreStatus
<1>7. CASE Frame
  BY <1>3, <1>4, <1>5, <1>7 DEF Frame, StatusFrame, StoreStatus
<1>8. CASE Tick BY <1>8, FixTick
<1>9. QED BY <1>6, <1>7, <1>8 DEF Next

-----------------------------------------------------------------------------
(* The topic heading *)

\* The feeds whose heading may be published, and their reports: what live stands
\* for in HeadingTopic.
HeadingFeed == AsciiHeading \cup {"PVTSLNB_heading"}

UsableHeading ==
    {f \in HeadingFeed : /\ f = "PVTSLNB_heading" => "nav" \in use_binary
                         /\ Fresh(f, FeedTimeout(f))}

HeadingLive == Reports({HeadingPreference[i] : i \in DOMAIN HeadingPreference}, FeedTimeout)

HeadingPreferred(h, g) ==
    (h = "PVTSLNB_heading" /\ g \in AsciiHeading) \/ (h = "HPR" /\ g = "HDT")

\* What a feed of headings says.
HeadingData ==
    /\ \A f \in AsciiHeading : latest[f] \in Content(f) \cup {None}
    /\ latest["PVTSLNB_heading"] \in HeadingBlock \cup {None}

\* The active heading is the preferred one of those that may be used.
LEMMA ActiveHeading ==
    /\ active_heading # None => active_heading \in UsableHeading
    /\ \A g \in UsableHeading : /\ active_heading # None
                                /\ g = active_heading \/ HeadingPreferred(active_heading, g)
BY ContentAssumption
   DEF active_heading, active_ascii_heading, UsableHeading, HeadingFeed, HeadingPreferred,
       AsciiHeading, FeedTimeout, Feed

\* As for positions.
LEMMA HeadingFeeds ==
    {HeadingPreference[i] : i \in DOMAIN HeadingPreference}
      = {f \in HeadingFeed : f = "PVTSLNB_heading" => "nav" \in use_binary}
<1>1. CASE "nav" \in use_binary
  <2>1. HeadingPreference = <<"PVTSLNB_heading", "HPR", "HDT">> BY <1>1 DEF HeadingPreference
  <2>2. DOMAIN HeadingPreference = {1, 2, 3} BY <2>1
  <2>3. QED BY <1>1, <2>1, <2>2 DEF HeadingFeed, AsciiHeading
<1>2. CASE "nav" \notin use_binary
  <2>1. HeadingPreference = <<"HPR", "HDT">> BY <1>2 DEF HeadingPreference
  <2>2. DOMAIN HeadingPreference = {1, 2} BY <2>1
  <2>3. QED BY <1>2, <2>1, <2>2 DEF HeadingFeed, AsciiHeading
<1>3. QED BY <1>1, <1>2

\* As for positions.
LEMMA HeadingReports == HeadingLive = ReportsOf(latest, age, UsableHeading)
<1> DEFINE feeds == {HeadingPreference[i] : i \in DOMAIN HeadingPreference}
           fresh == {g \in feeds : Fresh(g, FeedTimeout(g))}
<1>1. UsableHeading = fresh BY HeadingFeeds DEF UsableHeading
<1>2. HeadingLive = {[feed |-> f, value |-> latest[f], age |-> age[f]] : f \in fresh}
  BY DEF HeadingLive, Reports
<1> HIDE DEF fresh
<1>3. QED BY <1>1, <1>2 DEF ReportsOf

\* publish_active_heading publishes the best report.
LEMMA BestHeading ==
    FeedTypes /\ HeadingData => BestOf(HeadingPreference, HeadingLive) = Plain(Azimuth)
<1>1. SUFFICES ASSUME FeedTypes, HeadingData
               PROVE  BestOf(HeadingPreference, HeadingLive) = Plain(Azimuth)
  OBVIOUS
<1>2. CASE UsableHeading = {}
  <2>1. active_heading = None BY <1>2, ActiveHeading
  <2>2. HeadingLive = {} BY <1>2, HeadingReports DEF ReportsOf
  <2>3. QED BY <2>1, <2>2 DEF BestOf, Plain, Azimuth
<1>3. CASE UsableHeading # {}
  <2> DEFINE f == active_heading
             msg == [feed |-> f, value |-> latest[f], age |-> age[f]]
  <2>1. /\ f # None /\ f \in UsableHeading
        /\ \A g \in UsableHeading : g = f \/ HeadingPreferred(f, g)
    BY <1>3, ActiveHeading
  <2>2. Plain(Azimuth) = msg
    <3>1. Azimuth = msg BY <2>1 DEF Azimuth
    <3>2. f \in HeadingFeed /\ f \in Feed /\ latest[f] # None
      BY <2>1 DEF UsableHeading, HeadingFeed, Feed, AsciiHeading, Fresh
    <3>3. latest[f] \in Content("HPR") \cup Content("HDT") \cup HeadingBlock
      BY <1>1, <3>2 DEF HeadingData, HeadingFeed, AsciiHeading
    <3>4. age[f] \in 0 .. Old BY <1>1, <3>2 DEF FeedTypes
    <3> HIDE DEF f
    <3>5. msg # None BY <3>2, <3>3, <3>4, NoneAssumption
    <3>6. msg.feed = f /\ msg.value = latest[f] /\ msg.age = age[f] OBVIOUS
    <3> HIDE DEF msg
    <3>7. Plain(msg) = [feed |-> f, value |-> latest[f], age |-> age[f]]
      BY <3>5, <3>6 DEF Plain
    <3>8. QED BY <3>1, <3>7 DEF msg
  <2>3. f \in HeadingFeed /\ (f = "PVTSLNB_heading" => "nav" \in use_binary)
    BY <2>1 DEF UsableHeading
  <2>4. PICK n \in DOMAIN HeadingPreference : HeadingPreference[n] = f BY <2>3, HeadingFeeds
  <2>5. \A m \in DOMAIN HeadingPreference : m < n => HeadingPreference[m] \notin UsableHeading
    <3>1. SUFFICES ASSUME NEW m \in DOMAIN HeadingPreference, m < n,
                          HeadingPreference[m] \in UsableHeading
                   PROVE  FALSE
      OBVIOUS
    <3>2. HeadingPreference[m] = f \/ HeadingPreferred(f, HeadingPreference[m]) BY <2>1, <3>1
    <3> HIDE DEF f
    <3>3. QED BY <2>4, <3>1, <3>2 DEF HeadingPreference, HeadingPreferred, AsciiHeading
  <2>6. /\ n \in Nat /\ DOMAIN HeadingPreference \subseteq Nat \ {0}
        /\ \A m \in 1 .. n : m \in DOMAIN HeadingPreference
    BY <2>4 DEF HeadingPreference
  <2> HIDE DEF f
  <2>7. BestOf(HeadingPreference, ReportsOf(latest, age, UsableHeading)) = msg
    BY <2>1, <2>4, <2>5, <2>6, BestIsFirst
  <2>8. QED BY <2>2, <2>7, HeadingReports
<1>4. QED BY <1>2, <1>3

\* A report of a feed in use is a report of HeadingTopic.
LEMMA HeadingReported ==
    ASSUME FeedTypes', HeadingData', use_binary' = use_binary,
           NEW f \in HeadingFeed, f = "PVTSLNB_heading" => "nav" \in use_binary,
           latest'[f] \in Content("HPR") \cup Content("HDT") \cup HeadingBlock,
           latest'[f] # None, age'[f] = 0,
           \A g \in HeadingFeed : g # f => latest'[g] = latest[g] /\ age'[g] = age[g],
           publish_active_heading
    PROVE  HeadingTopic!Next
<1> DEFINE V == {latest'[f]}
<1>1. HeadingPreference' = HeadingPreference BY DEF HeadingPreference
<1>2. Plain(heading_out)' = BestOf(HeadingPreference, HeadingLive')
  <2>1. (FeedTypes /\ HeadingData
         => BestOf(HeadingPreference, HeadingLive) = Plain(Azimuth))'
    BY BestHeading, PTL
  <2>2. BestOf(HeadingPreference', HeadingLive') = Plain(Azimuth)' BY <2>1 DEF BestOf
  <2>3. QED BY <1>1, <2>2 DEF publish_active_heading, Plain
<1>3. HeadingLive' = ReportsOf(latest', age', UsableHeading')
  <2>1. (HeadingLive = ReportsOf(latest, age, UsableHeading))' BY HeadingReports, PTL
  <2>2. QED BY <2>1 DEF ReportsOf
<1>4. \A g : g # f => (g \in UsableHeading' <=> g \in UsableHeading)
  BY DEF UsableHeading, Fresh
<1>5. \A g \in UsableHeading : g # f => latest'[g] = latest[g] /\ age'[g] = age[g]
  BY DEF UsableHeading
<1>6. f \in UsableHeading'
  <2>1. 0 <= FeedTimeout(f) BY TimeAssumption DEF FeedTimeout
  <2>2. QED BY <2>1 DEF UsableHeading, Fresh
<1>7. V = (IF f \in UsableHeading' THEN {latest'[f]} ELSE {}) BY <1>6
<1>8. f \in UsableHeading' => age'[f] = 0 OBVIOUS
<1>9. HeadingLive' = Replaced(HeadingLive, f, V)
  <2> HIDE DEF V
  <2>1. ReportsOf(latest', age', UsableHeading')
          = Replaced(ReportsOf(latest, age, UsableHeading), f, V)
    BY <1>4, <1>5, <1>7, <1>8, ReportReplaces
  <2>2. QED BY <1>3, <2>1, HeadingReports
<1>10. ASSUME NEW reported, reported = V PROVE HeadingTopic!Report(f, reported)
  <2> HIDE DEF V
  <2>1. QED BY <1>2, <1>9, <1>10
            DEF HeadingTopic!Report, HeadingTopic!Best, BestOf, HeadingLive, Replaced
<1>11. f \in HeadingTopic!Feeds BY HeadingFeeds DEF HeadingTopic!Feeds
<1>12. \E v \in Content("HPR") \cup Content("HDT") \cup HeadingBlock :
         HeadingTopic!Report(f, {v})
  BY <1>10
<1>13. QED BY <1>1, <1>11, <1>12 DEF HeadingTopic!Next

\* A step that publishes no heading and does not touch those in use.
LEMMA HeadingOther ==
    ASSUME use_binary' = use_binary, heading_out' = None,
           \A g \in HeadingFeed : \/ latest'[g] = latest[g] /\ age'[g] = age[g]
                                  \/ g = "PVTSLNB_heading" /\ "nav" \notin use_binary
    PROVE  HeadingTopic!Next
<1>1. HeadingPreference' = HeadingPreference BY DEF HeadingPreference
<1>2. HeadingLive' = ReportsOf(latest', age', UsableHeading')
  <2>1. (HeadingLive = ReportsOf(latest, age, UsableHeading))' BY HeadingReports, PTL
  <2>2. QED BY <2>1 DEF ReportsOf
<1>3. UsableHeading' = UsableHeading BY DEF UsableHeading, Fresh
<1>4. \A g \in UsableHeading : latest'[g] = latest[g] /\ age'[g] = age[g] BY DEF UsableHeading
<1>5. ReportsOf(latest', age', UsableHeading) = ReportsOf(latest, age, UsableHeading)
  BY <1>4 DEF ReportsOf
<1>6. HeadingLive' = HeadingLive BY <1>2, <1>3, <1>5, HeadingReports
<1>7. Plain(heading_out)' = None BY DEF Plain
<1>8. HeadingTopic!Other BY <1>6, <1>7 DEF HeadingTopic!Other, HeadingLive
<1>9. QED BY <1>1, <1>8 DEF HeadingTopic!Next

\* Feeds grow older in the node as their reports do in HeadingTopic.
LEMMA HeadingTick ==
    ASSUME FeedTypes, Tick
    PROVE  HeadingTopic!Next
<1>1. HeadingPreference' = HeadingPreference BY DEF HeadingPreference, Tick
<1>2. HeadingLive' = ReportsOf(latest, age', UsableHeading')
  <2>1. (HeadingLive = ReportsOf(latest, age, UsableHeading))' BY HeadingReports, PTL
  <2>2. latest' = latest BY DEF Tick
  <2>3. QED BY <2>1, <2>2 DEF ReportsOf
<1>3. \A f \in HeadingFeed : /\ age'[f] = Older(age[f]) /\ age[f] \in 0 .. Old
                             /\ FeedTimeout(f) \in Nat /\ FeedTimeout(f) < Old
  BY TimeAssumption DEF Tick, FeedTypes, HeadingFeed, AsciiHeading, Feed, FeedTimeout
<1>4. ASSUME NEW f PROVE f \in UsableHeading' <=> f \in UsableHeading /\ age[f] < FeedTimeout(f)
  <2>1. CASE f \in HeadingFeed
    <3>1. latest' = latest /\ use_binary' = use_binary BY DEF Tick
    <3>2. age'[f] <= FeedTimeout(f) <=> age[f] < FeedTimeout(f) BY <1>3, <2>1 DEF Older
    <3>3. age[f] < FeedTimeout(f) => age[f] <= FeedTimeout(f) BY <1>3, <2>1
    <3>4. QED BY <2>1, <3>1, <3>2, <3>3 DEF UsableHeading, Fresh
  <2>2. CASE f \notin HeadingFeed BY <2>2 DEF UsableHeading
  <2>3. QED BY <2>1, <2>2
<1>5. ASSUME NEW f \in UsableHeading' PROVE age'[f] = age[f] + 1
  <2>1. f \in HeadingFeed /\ age[f] < FeedTimeout(f) BY <1>4 DEF UsableHeading
  <2>2. /\ age'[f] = Older(age[f]) /\ age[f] \in Int
        /\ FeedTimeout(f) \in Int /\ FeedTimeout(f) < Old
    BY <1>3, <2>1
  <2>3. age[f] < Old BY <2>1, <2>2, TimeAssumption
  <2>4. QED BY <2>2, <2>3 DEF Older
<1>6. HeadingLive' = Aged(HeadingLive)
  <2>1. ReportsOf(latest, age', UsableHeading') = Aged(ReportsOf(latest, age, UsableHeading))
    BY <1>4, <1>5, ReportsAge
  <2>2. QED BY <1>2, <2>1, HeadingReports
<1>7. Plain(heading_out)' = None BY DEF Tick, NoHeading, Plain
<1>8. HeadingTopic!Tick BY <1>6, <1>7 DEF HeadingTopic!Tick, HeadingLive, Aged
<1>9. QED BY <1>1, <1>8 DEF HeadingTopic!Next

\* Every step of the node is one of the topic heading, and keeps the data of the
\* headings.
LEMMA HeadingStep ==
    ASSUME IInv, IInv', HeadingData, Next
    PROVE  HeadingTopic!Next /\ HeadingData'
<1> USE DEF IInv
<1>1. HeadingFeed \subseteq Feed /\ "PVTSLNB_heading" \in HeadingFeed
      /\ AsciiHeading \subseteq HeadingFeed /\ "PVTSLNB_heading" \notin AsciiHeading
  BY DEF HeadingFeed, Feed, AsciiHeading
<1>2. ASSUME NEW log \in AsciiHeading, NEW d \in Content(log), HeadingLine(log, d)
      PROVE  HeadingTopic!Next /\ HeadingData'
  <2>1. /\ latest'[log] = d /\ age'[log] = 0 /\ use_binary' = use_binary
        /\ \A g \in HeadingFeed : g # log => latest'[g] = latest[g] /\ age'[g] = age[g]
    BY <1>1, <1>2 DEF HeadingLine, Store, FeedTypes
  <2>2. HeadingData' BY <1>1, <2>1 DEF HeadingData
  <2>3. d \in Content("HPR") \cup Content("HDT") BY DEF AsciiHeading
  <2>4. d # None BY <1>1, ContentAssumption
  <2>5. publish_active_heading BY <1>2 DEF HeadingLine
  <2>6. log \in HeadingFeed /\ log # "PVTSLNB_heading" BY <1>1
  <2>7. HeadingTopic!Next
    BY <2>1, <2>2, <2>3, <2>4, <2>5, <2>6, HeadingReported
  <2>8. QED BY <2>2, <2>7
<1>3. ASSUME NEW d \in Content("PVTSLNB"), PvtslnbFrame(d)
      PROVE  HeadingTopic!Next /\ HeadingData'
  <2> DEFINE stored == IF HasHeading(d.block) THEN {"PVTSLNB", "PVTSLNB_heading"}
                       ELSE {"PVTSLNB"}
  <2>1. d.block \in HeadingBlock /\ d.block # None
    <3>1. d \in [quality : Nat, block : HeadingBlock] BY ContentAssumption
    <3>2. d.block \in HeadingBlock BY <3>1
    <3>3. QED BY <3>2, ContentAssumption
  <2>2. \A f \in Feed : /\ latest'[f] = (IF f \notin stored THEN latest[f]
                                         ELSE IF f = "PVTSLNB" THEN d.quality ELSE d.block)
                        /\ age'[f] = (IF f \in stored THEN 0 ELSE age[f])
    BY <1>3 DEF PvtslnbFrame
  <2>3. use_binary' = use_binary BY <1>3 DEF PvtslnbFrame
  <2>4. \A f \in HeadingFeed : f # "PVTSLNB_heading" => f \notin stored
    BY DEF HeadingFeed, AsciiHeading
  <2>5. "PVTSLNB_heading" \in stored <=> HasHeading(d.block) OBVIOUS
  <2> HIDE DEF stored
  <2>6. \A g \in HeadingFeed : g # "PVTSLNB_heading" => latest'[g] = latest[g] /\ age'[g] = age[g]
    BY <1>1, <2>2, <2>4
  <2>7. HeadingData' BY <1>1, <2>1, <2>2, <2>6 DEF HeadingData
  <2>8. CASE HasHeading(d.block) /\ "nav" \in use_binary
    <3>1. publish_active_heading BY <1>3, <2>8 DEF PvtslnbFrame
    <3>2. latest'["PVTSLNB_heading"] = d.block /\ age'["PVTSLNB_heading"] = 0
      BY <1>1, <2>2, <2>5, <2>8
    <3>3. QED BY <1>1, <2>1, <2>3, <2>6, <2>7, <2>8, <3>1, <3>2, HeadingReported
  <2>9. CASE ~ (HasHeading(d.block) /\ "nav" \in use_binary)
    <3>1. heading_out' = None BY <1>3, <2>9 DEF PvtslnbFrame, NoHeading
    <3>2. ~ HasHeading(d.block) => /\ latest'["PVTSLNB_heading"] = latest["PVTSLNB_heading"]
                                   /\ age'["PVTSLNB_heading"] = age["PVTSLNB_heading"]
      BY <1>1, <2>2, <2>5
    <3>3. \A g \in HeadingFeed : \/ latest'[g] = latest[g] /\ age'[g] = age[g]
                                 \/ g = "PVTSLNB_heading" /\ "nav" \notin use_binary
      BY <2>6, <2>9, <3>2
    <3>4. HeadingTopic!Next BY <2>3, <3>1, <3>3, HeadingOther
    <3>5. QED BY <2>7, <3>4
  <2>10. QED BY <2>8, <2>9
<1>4. ASSUME NEW log \in Feed \ HeadingFeed, NEW data, Store(log, data),
             use_binary' = use_binary, NoHeading
      PROVE  HeadingTopic!Next /\ HeadingData'
  <2>1. \A g \in HeadingFeed : latest'[g] = latest[g] /\ age'[g] = age[g]
    BY <1>1, <1>4 DEF Store, FeedTypes
  <2>2. HeadingData' BY <1>1, <2>1 DEF HeadingData
  <2>3. HeadingTopic!Next BY <1>4, <2>1, HeadingOther DEF NoHeading
  <2>4. QED BY <2>2, <2>3
<1>5. /\ AsciiFix \cup AsciiStatus \cup BinaryStatus \subseteq Feed
      /\ \A f \in AsciiFix \cup AsciiStatus \cup BinaryStatus : f \notin HeadingFeed
  BY DEF Feed, HeadingFeed, AsciiFix, AsciiHeading, AsciiStatus, BinaryStatus
<1>6. CASE Line
  BY <1>2, <1>4, <1>5, <1>6 DEF Line, FixLine, StatusLine, StoreStatus
<1>7. CASE Frame
  BY <1>3, <1>4, <1>5, <1>7 DEF Frame, StatusFrame, StoreStatus
<1>8. CASE Tick
  <2>1. HeadingData' BY <1>8 DEF Tick, HeadingData
  <2>2. QED BY <1>8, <2>1, HeadingTick
<1>9. QED BY <1>6, <1>7, <1>8 DEF Next

\* Nothing has been reported at the start.
LEMMA TopicsStart == Init => FixTopic!Init /\ HeadingTopic!Init /\ HeadingData
<1>1. SUFFICES ASSUME Init PROVE FixTopic!Init /\ HeadingTopic!Init /\ HeadingData OBVIOUS
<1>2. \A f \in Feed : latest[f] = None BY <1>1 DEF Init
<1>3. \A f \in FixFeed \cup HeadingFeed : f \in Feed
  BY DEF FixFeed, HeadingFeed, AsciiFix, AsciiHeading, Feed
<1>4. UsableFix = {} BY <1>2, <1>3, UsableMeans DEF UsableFix
<1>5. UsableHeading = {} BY <1>2, <1>3 DEF UsableHeading, Fresh
<1>6. FixLive = {} /\ HeadingLive = {} BY <1>4, <1>5, FixReports, HeadingReports DEF ReportsOf
<1>7. Plain(fix_out) = None /\ Plain(heading_out) = None BY <1>1 DEF Init, Plain
<1>8. HeadingData BY <1>2, <1>3 DEF HeadingData, HeadingFeed
<1>9. QED BY <1>6, <1>7, <1>8 DEF FixTopic!Init, HeadingTopic!Init, FixLive, HeadingLive

\* What the topics are made of is read from the variables.
LEMMA TopicsStutter ==
    ASSUME UNCHANGED vars
    PROVE  /\ UNCHANGED <<FixPreference, FixLive, Plain(fix_out)>>
           /\ UNCHANGED <<HeadingPreference, HeadingLive, Plain(heading_out)>>
           /\ HeadingData => HeadingData'
<1>1. UNCHANGED <<FixPreference, FixLive, Plain(fix_out)>>
  BY ZenonT(30) DEF vars, FixPreference, FixLive, Reports, Fresh, Plain
<1>2. UNCHANGED <<HeadingPreference, HeadingLive, Plain(heading_out)>>
  BY Zenon DEF vars, HeadingPreference, HeadingLive, Reports, Fresh, Plain
<1>3. HeadingData => HeadingData' BY DEF vars, HeadingData
<1>4. QED BY <1>1, <1>2, <1>3

\* Each NavSatFix and each Azimuth is the latest valid report of the preferred feed
\* that has one in time, and every valid report of a feed in use is answered by a
\* message, for all timeouts, contents and parameters: the node implements
\* PreferredFeed twice.
THEOREM KeepsPreference == Spec => ImplementsPreference
<1>1. ASSUME IInv, IInv', HeadingData, [Next]_vars
      PROVE  /\ HeadingData'
             /\ [FixTopic!Next]_<<FixPreference, FixLive, Plain(fix_out)>>
             /\ [HeadingTopic!Next]_<<HeadingPreference, HeadingLive, Plain(heading_out)>>
  <2>1. CASE Next BY <1>1, <2>1, FixStep, HeadingStep
  <2>2. CASE UNCHANGED vars BY <1>1, <2>2, TopicsStutter
  <2>3. QED BY <1>1, <2>1, <2>2
<1>2. FixTopic!Spec /\ HeadingTopic!Spec <=>
        /\ FixTopic!Init /\ HeadingTopic!Init
        /\ [][FixTopic!Next]_<<FixPreference, FixLive, Plain(fix_out)>>
        /\ [][HeadingTopic!Next]_<<HeadingPreference, HeadingLive, Plain(heading_out)>>
  BY DEF FixTopic!Spec, HeadingTopic!Spec, FixLive, HeadingLive
<1>3. QED BY Invariant, TopicsStart, <1>1, <1>2, PTL DEF Spec, ImplementsPreference
=============================================================================
