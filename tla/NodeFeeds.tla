------------------------------ MODULE NodeFeeds ------------------------------
(***************************************************************************)
(* What UnicoreNode (src/src/unicore_node.cpp) keeps of the receiver's     *)
(* messages, and what it publishes from them.  Of each log the latest      *)
(* message is kept with the time it was received at (the latest_*          *)
(* members); a feed is one of these members and is named after the log.    *)
(* The topics fix and heading are published from several feeds, the        *)
(* diagnostics (module Diagnostics) from all.                              *)
(*                                                                         *)
(* Time is counted in ticks.  Of a feed's time the model keeps the age, no *)
(* further than Old, where every timeout has passed.  A callback takes no  *)
(* time: the code reads the steady clock several times in one.             *)
(*                                                                         *)
(* A fix is its quality and valid_fix means quality > 0, as in the three   *)
(* parsers of fixes; which position it was is told by feed and age.  Not   *)
(* kept: latest_velocity_, latest_binary_velocity_ and sentence_counts_,   *)
(* which nothing reads.                                                    *)
(***************************************************************************)
EXTENDS Integers, Sequences

CONSTANTS
    None,
    DataTimeout,        \* data_timeout_sec_
    BinaryNavTimeout,   \* binary_nav_timeout_sec_
    Old,                \* an age above all timeouts
    RecentLimit,        \* length of recent_rtcm_message_ids_ (8)
    Backends,           \* choices of the use_binary_* parameters
    Profiles,           \* sets of logs the receiver may be told to send
    Content(_)          \* what a log may say

ASSUME TimeAssumption ==
    /\ DataTimeout \in Nat /\ BinaryNavTimeout \in Nat /\ RecentLimit \in Nat
    /\ Old \in Nat /\ Old > DataTimeout /\ Old > BinaryNavTimeout

AsciiFix == {"GGA", "PVTSLNA"}
AsciiHeading == {"HDT", "HPR"}
AsciiStatus == {"BESTNAVA", "RTKSTATUSA", "RTCMSTATUSA", "BESTSATA", "SATSINFOA", "AGCA",
                "HWSTATUSA", "JAMSTATUSA", "FREQJAMSTATUSA", "GPGSV", "GLGSV"}
BinaryStatus == {"BESTNAVB", "RTKSTATUSB", "RTCMSTATUSB", "BESTSATB", "SATSINFOB", "AGCB",
                 "HWSTATUSB", "JAMSTATUSB", "FREQJAMSTATUSB", "OBSVMCMPB"}

\* PVTSLNB carries a position and, in a feed of its own, a heading.
Feed == AsciiFix \cup AsciiHeading \cup AsciiStatus \cup BinaryStatus
          \cup {"PVTSLNB", "PVTSLNB_heading"}

\* The heading block of a PVTSLNB: all zero before there is a solution, with a
\* type other than 0 and no baseline, or with a baseline.
HeadingBlock == {"zeroed", "unsolved", "solved"}

\* No log ever says None; the logs below say a quality, a message id, or a
\* quality and a heading block.  The quality of a GGA is any number that parse_int
\* reads, the others come from a table of position types.
ASSUME ContentAssumption ==
    /\ \A log \in Feed : None \notin Content(log)
    /\ Content("GGA") \subseteq Int /\ Content("PVTSLNA") \subseteq Nat
    /\ Content("PVTSLNB") \subseteq [quality : Nat, block : HeadingBlock]
    /\ Content("RTCMSTATUSA") \subseteq Int /\ Content("RTCMSTATUSB") \subseteq Int
    /\ None \notin Int /\ None \notin HeadingBlock /\ None \notin Feed

\* None is no message of a topic either.
ASSUME NoneAssumption ==
    /\ None \notin [feed : Feed, value : Int, age : 0 .. Old,
                    status : {"NO_FIX", "FIX", "SBAS", "GBAS"}]
    /\ None \notin [feed : Feed, value : Content("HPR") \cup Content("HDT") \cup HeadingBlock,
                    age : 0 .. Old]

VARIABLES
    use_binary,         \* the use_binary_* parameters that are set, by their subject
    logged,             \* the logs the receiver sends
    latest, age,        \* per feed: the latest data and how long ago it came
    recent_ids,         \* recent_rtcm_message_ids_ and the one of the binary log
    fix_out,            \* the NavSatFix the last step published, or None
    heading_out,        \* the Azimuth the last step published, or None
    published           \* history: age of the position last published, Old if none

vars == <<use_binary, logged, latest, age, recent_ids, fix_out, heading_out, published>>

Init ==
    /\ use_binary \in Backends /\ logged \in Profiles
    /\ latest = [f \in Feed |-> None] /\ age = [f \in Feed |-> Old]
    /\ recent_ids = [log \in {"RTCMSTATUSA", "RTCMSTATUSB"} |-> <<>>]
    /\ fix_out = None /\ heading_out = None /\ published = Old

-----------------------------------------------------------------------------
(* Selection *)

\* is_fresh: the latest data of a feed is there and not older than the timeout.
Fresh(f, timeout) == latest[f] # None /\ age[f] <= timeout

ValidFix(f, timeout) == Fresh(f, timeout) /\ latest[f] > 0

Mut_active_ascii_fix ==
    LET valid == {f \in AsciiFix : ValidFix(f, DataTimeout)}
    IN  IF valid = {} THEN None
        ELSE CHOOSE f \in valid : \A g \in valid : latest[f] >= latest[g]

active_ascii_fix ==
    IF ValidFix("PVTSLNA", DataTimeout) THEN "PVTSLNA"
    ELSE IF ValidFix("GGA", DataTimeout) THEN "GGA" ELSE None

active_binary_fix == IF ValidFix("PVTSLNB", BinaryNavTimeout) THEN "PVTSLNB" ELSE None

active_fix ==
    IF "nav" \in use_binary /\ active_binary_fix # None
    THEN active_binary_fix ELSE active_ascii_fix

active_ascii_heading ==
    IF Fresh("HPR", DataTimeout) THEN "HPR"
    ELSE IF Fresh("HDT", DataTimeout) THEN "HDT" ELSE None

active_heading ==
    IF "nav" \in use_binary /\ Fresh("PVTSLNB_heading", BinaryNavTimeout)
    THEN "PVTSLNB_heading" ELSE active_ascii_heading

-----------------------------------------------------------------------------
(* Publication *)

Mut_build_nav_status(quality) ==
    LET q == IF Fresh("GGA", DataTimeout) THEN latest["GGA"] ELSE quality
    IN  CASE q = 0 -> "NO_FIX" [] q \in {2, 9} -> "SBAS" [] q \in {4, 5} -> "GBAS"
          [] OTHER -> "FIX"

\* A position without a quality takes the one of a fresh GGA.
build_nav_status(quality) ==
    LET q == IF quality <= 0 /\ Fresh("GGA", DataTimeout) THEN latest["GGA"] ELSE quality
    IN  CASE q = 0 -> "NO_FIX" [] q \in {2, 9} -> "SBAS" [] q \in {4, 5} -> "GBAS"
          [] OTHER -> "FIX"

NavSatFix ==
    IF active_fix = None THEN None
    ELSE [feed |-> active_fix, value |-> latest[active_fix], age |-> age[active_fix],
          status |-> build_nav_status(latest[active_fix])]

Azimuth ==
    IF active_heading = None THEN None
    ELSE [feed |-> active_heading, value |-> latest[active_heading],
          age |-> age[active_heading]]

\* publish_active_fix is called once latest' and age' are known.
publish_active_fix ==
    /\ fix_out' = NavSatFix'
    /\ published' = IF active_fix' = None THEN published ELSE age[active_fix]'

NoFix == fix_out' = None /\ UNCHANGED published

publish_active_heading == heading_out' = Azimuth'

NoHeading == heading_out' = None

-----------------------------------------------------------------------------
(* Messages *)

Store(f, data) ==
    /\ latest' = [latest EXCEPT ![f] = data]
    /\ age' = [age EXCEPT ![f] = 0]

\* process_line, a GGA or PVTSLNA.
FixLine(log, quality) ==
    /\ Store(log, quality)
    /\ UNCHANGED <<use_binary, logged, recent_ids>>
    /\ publish_active_fix /\ NoHeading

\* process_line, an HDT or HPR.
HeadingLine(log, data) ==
    /\ Store(log, data)
    /\ UNCHANGED <<use_binary, logged, recent_ids>>
    /\ publish_active_heading /\ NoFix

Mut_Remember(ids, id) ==
    LET all == Append(ids, id)
    IN  IF id < 0 THEN ids
        ELSE IF Len(ids) > RecentLimit THEN Tail(all) ELSE all

\* An id is kept unless negative, and the oldest one leaves.
Remember(ids, id) ==
    LET all == Append(ids, id)
    IN  IF id < 0 THEN ids
        ELSE IF Len(all) > RecentLimit THEN Tail(all) ELSE all

StoreStatus(log, data) ==
    /\ Store(log, data)
    /\ recent_ids' = IF log \in DOMAIN recent_ids
                     THEN [recent_ids EXCEPT ![log] = Remember(@, data)] ELSE recent_ids
    /\ NoFix /\ NoHeading
    /\ UNCHANGED <<use_binary, logged>>

\* process_line and process_binary_frame, the logs only diagnostics read.
StatusLine(log, data) == log \in AsciiStatus /\ StoreStatus(log, data)

StatusFrame(log, data) == log \in BinaryStatus /\ StoreStatus(log, data)

\* parse_pvtslnb: type 0, or a baseline, makes the block a heading.
HasHeading(block) == block \in {"zeroed", "solved"}

Mut_PvtslnbFrame(data) ==
    /\ latest' = [f \in Feed |-> IF f = "PVTSLNB" /\ data.quality > 0 THEN data.quality
                                 ELSE IF f = "PVTSLNB_heading" /\ HasHeading(data.block)
                                      THEN data.block ELSE latest[f]]
    /\ age' = [f \in Feed |-> IF \/ f = "PVTSLNB" /\ data.quality > 0
                                 \/ f = "PVTSLNB_heading" /\ HasHeading(data.block)
                              THEN 0 ELSE age[f]]
    /\ UNCHANGED <<use_binary, logged, recent_ids>>
    /\ IF "nav" \in use_binary THEN publish_active_fix ELSE NoFix
    /\ IF "nav" \in use_binary /\ HasHeading(data.block)
       THEN publish_active_heading ELSE NoHeading

\* process_binary_frame, a PVTSLNB.
PvtslnbFrame(data) ==
    LET stored == IF HasHeading(data.block) THEN {"PVTSLNB", "PVTSLNB_heading"} ELSE {"PVTSLNB"}
    IN  /\ latest' = [f \in Feed |-> IF f \notin stored THEN latest[f]
                                     ELSE IF f = "PVTSLNB" THEN data.quality ELSE data.block]
        /\ age' = [f \in Feed |-> IF f \in stored THEN 0 ELSE age[f]]
        /\ UNCHANGED <<use_binary, logged, recent_ids>>
        /\ IF "nav" \in use_binary THEN publish_active_fix ELSE NoFix
        /\ IF "nav" \in use_binary /\ HasHeading(data.block)
           THEN publish_active_heading ELSE NoHeading

Line ==
    \/ \E log \in AsciiFix \cap logged : \E q \in Content(log) : FixLine(log, q)
    \/ \E log \in AsciiHeading \cap logged : \E d \in Content(log) : HeadingLine(log, d)
    \/ \E log \in AsciiStatus \cap logged : \E d \in Content(log) : StatusLine(log, d)

Frame ==
    \/ "PVTSLNB" \in logged /\ \E d \in Content("PVTSLNB") : PvtslnbFrame(d)
    \/ \E log \in BinaryStatus \cap logged : \E d \in Content(log) : StatusFrame(log, d)

Older(n) == IF n < Old THEN n + 1 ELSE n

Tick ==
    /\ age' = [f \in Feed |-> Older(age[f])]
    /\ published' = Older(published)
    /\ fix_out' = None /\ NoHeading
    /\ UNCHANGED <<use_binary, logged, latest, recent_ids>>

Next == Line \/ Frame \/ Tick

Spec == Init /\ [][Next]_vars

-----------------------------------------------------------------------------
(* Properties *)

Message(topic) ==
    /\ topic.feed \in Feed /\ topic.age \in 0 .. Old

\* Every variable has its type: a feed without data has the age Old, ids are
\* kept up to the limit, a status is one of the four of NavSatStatus.
TypeOK ==
    /\ use_binary \in Backends /\ logged \in Profiles
    /\ DOMAIN latest = Feed
    /\ \A f \in AsciiFix \cup {"PVTSLNB"} : latest[f] \in Int \cup {None}
    /\ age \in [Feed -> 0 .. Old]
    /\ \A f \in Feed : latest[f] = None => age[f] = Old
    /\ recent_ids \in [{"RTCMSTATUSA", "RTCMSTATUSB"} -> Seq(Nat)]
    /\ \A log \in DOMAIN recent_ids : Len(recent_ids[log]) <= RecentLimit
    /\ fix_out # None => /\ Message(fix_out)
                         /\ fix_out.status \in {"NO_FIX", "FIX", "SBAS", "GBAS"}
    /\ heading_out # None => Message(heading_out)
    /\ published \in 0 .. Old

\* The status of a published position is that of its own quality, although
\* build_nav_status may borrow the quality of a GGA, which is of another epoch:
\* only of a position without a quality, and active_fix selects none.
StatusIsOwn ==
    fix_out # None => fix_out.status = CASE fix_out.value = 0 -> "NO_FIX"
                                         [] fix_out.value \in {2, 9} -> "SBAS"
                                         [] fix_out.value \in {4, 5} -> "GBAS"
                                         [] OTHER -> "FIX"

InvalidReport ==
    \/ \E log \in AsciiFix : \E q \in Content(log) : q <= 0 /\ FixLine(log, q)
    \/ \E block \in HeadingBlock : PvtslnbFrame([quality |-> 0, block |-> block])

\* A position is followed by an older one only when a feed reports that its fix
\* is lost.  With timeouts as configured (binary_nav_timeout_sec not below
\* data_timeout_sec), no expiry and no arrival of another feed makes the
\* published positions go back in time, although three feeds take turns.
RegressionOnlyOnLostFix ==
    [][/\ BinaryNavTimeout >= DataTimeout
       /\ fix_out' # None /\ fix_out'.age > published
       => InvalidReport]_vars

Reports(feeds, timeout(_)) ==
    {[feed |-> f, value |-> latest[f], age |-> age[f]] : f \in {g \in feeds : Fresh(g, timeout(g))}}

FeedTimeout(f) == IF f \in {"PVTSLNB", "PVTSLNB_heading"} THEN BinaryNavTimeout ELSE DataTimeout

\* What is promised of a topic does not mention the status.
Plain(topic) ==
    IF topic = None THEN None
    ELSE [feed |-> topic.feed, value |-> topic.value, age |-> topic.age]

FixPreference ==
    IF "nav" \in use_binary THEN <<"PVTSLNB", "PVTSLNA", "GGA">> ELSE <<"PVTSLNA", "GGA">>

HeadingPreference ==
    IF "nav" \in use_binary THEN <<"PVTSLNB_heading", "HPR", "HDT">> ELSE <<"HPR", "HDT">>

FixTopic == INSTANCE PreferredFeed WITH
    Value <- Content("GGA") \cup Content("PVTSLNA") \cup {d.quality : d \in Content("PVTSLNB")},
    Timeout <- FeedTimeout, preference <- FixPreference, out <- Plain(fix_out),
    live <- {r \in Reports({FixPreference[i] : i \in DOMAIN FixPreference}, FeedTimeout) :
               r.value > 0}

HeadingTopic == INSTANCE PreferredFeed WITH
    Value <- Content("HPR") \cup Content("HDT") \cup HeadingBlock,
    Timeout <- FeedTimeout, preference <- HeadingPreference, out <- Plain(heading_out),
    live <- Reports({HeadingPreference[i] : i \in DOMAIN HeadingPreference}, FeedTimeout)

\* Both topics keep the promise of PreferredFeed: each NavSatFix and each Azimuth
\* is the latest valid report of the preferred feed that has one in time, and
\* every valid report of a feed in use is answered by a message.
ImplementsPreference == FixTopic!Spec /\ HeadingTopic!Spec

\* As the comment in parse_pvtslnb has it: in hybrid mode the zeroed block of a
\* receiver without a heading is not published in place of the ASCII heading.
NoZeroedHeading ==
    heading_out # None /\ active_ascii_heading # None => heading_out.value # "zeroed"

\* As the comment in parse_pvtslna has it: a position with quality 0 is accepted
\* for those who gate on NavSatStatus.status, so that it is published (with the
\* status NO_FIX) when no feed has a better one.
PositionWithoutFixPublished ==
    latest["PVTSLNA"] = 0 /\ age["PVTSLNA"] = 0 /\ active_fix = None => published = 0
=============================================================================
