----------------------------- MODULE MCSerialLink -----------------------------
(***************************************************************************)
(* Messages that fit the output queue, that do not, and empty ones.        *)
(***************************************************************************)
EXTENDS SerialLink

MCRtcmSize == {0, 2}

===============================================================================
