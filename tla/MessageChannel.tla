--------------------------- MODULE MessageChannel ---------------------------
(***************************************************************************)
(* What the framing layer promises on a line without noise: a first-in     *)
(* first-out channel of messages.  Whatever is sent is delivered once, in  *)
(* order and whole, and nothing else is delivered.                         *)
(***************************************************************************)
EXTENDS Naturals, Sequences

CONSTANT Message

VARIABLES
    sent,           \* the messages sent so far
    delivered       \* the messages delivered so far

Init == sent = <<>> /\ delivered = <<>>

Send ==
    /\ \E m \in Message : sent' = Append(sent, m)
    /\ UNCHANGED delivered

Deliver ==
    /\ Len(delivered) < Len(sent)
    /\ delivered' = Append(delivered, sent[Len(delivered) + 1])
    /\ UNCHANGED sent

Next == Send \/ Deliver

\* Nothing is lost, altered, reordered or made up.
Safety == Init /\ [][Next]_<<sent, delivered>>

\* And what is sent is delivered.
Spec == Safety /\ WF_<<sent, delivered>>(Deliver)

=============================================================================
