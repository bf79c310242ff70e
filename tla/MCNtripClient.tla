---------------------------- MODULE MCNtripClient ----------------------------
(***************************************************************************)
(* Two of the parameters that are checked, with one bad value each, and    *)
(* the batches that matter: one parameter, two, a bad one after a good one *)
(* and a bad one before it.                                                *)
(***************************************************************************)
EXTENDS NtripClient

MCParam == {"host", "port"}
MCValue == {"bad", "a", "b"}
MCInitial == [p \in MCParam |-> "a"]
MCRefused == MCParam \X {"bad"}
MCBatch == { <<<<"host", "b">>>>,
             <<<<"host", "b">>, <<"port", "b">>>>,
             <<<<"host", "a">>, <<"port", "b">>>>,
             <<<<"host", "b">>, <<"port", "bad">>>>,
             <<<<"port", "bad">>, <<"host", "b">>>> }

=============================================================================
