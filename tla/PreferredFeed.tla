--------------------------- MODULE PreferredFeed ---------------------------
(***************************************************************************)
(* What a topic of the node that is fed by several logs of the receiver    *)
(* promises: a message is the latest report of its feed, that report is    *)
(* valid and not older than the feed's timeout, and no preferred feed has  *)
(* such a report.  Whoever reports a valid value on one of the feeds is    *)
(* answered by a message; nothing else makes one.                          *)
(***************************************************************************)
EXTENDS Integers, Sequences

CONSTANTS
    None,
    Value,              \* what a valid report may say
    Timeout(_)          \* how long a report of a feed may be used

VARIABLES
    preference,         \* the feeds, the preferred one first
    live,               \* reports that may be used: [feed, value, age]
    out                 \* what the last step published, or None

Feeds == {preference[i] : i \in DOMAIN preference}

\* The live report of the feed that is preferred, None when there is none.
Best(reports) ==
    LET has(i) == \E r \in reports : r.feed = preference[i]
        i == CHOOSE n \in DOMAIN preference : has(n) /\ \A m \in 1 .. (n - 1) : ~ has(m)
    IN  IF reports = {} THEN None ELSE CHOOSE r \in reports : r.feed = preference[i]

Init == live = {} /\ out = None

\* A feed reports a value, or that it has none.
Report(f, reported) ==
    /\ live' = {r \in live : r.feed # f}
                 \cup {[feed |-> f, value |-> v, age |-> 0] : v \in reported}
    /\ out' = Best(live')

\* Time passes, and reports become too old.
Tick ==
    /\ live' = {[r EXCEPT !.age = @ + 1] : r \in {x \in live : x.age < Timeout(x.feed)}}
    /\ out' = None

\* The node does something else.
Other == out' = None /\ UNCHANGED live

Next ==
    /\ \/ \E f \in Feeds : Report(f, {}) \/ \E v \in Value : Report(f, {v})
       \/ Tick \/ Other
    /\ UNCHANGED preference

Spec == Init /\ [][Next]_<<preference, live, out>>
=============================================================================
