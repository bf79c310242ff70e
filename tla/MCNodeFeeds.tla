----------------------------- MODULE MCNodeFeeds -----------------------------
(* NodeFeeds alone, with the logs of positions or with those of headings.       *)
EXTENDS NodeFeeds

MCBackends == {{}, {"nav"}}

MCProfiles == {{"GGA", "PVTSLNA", "PVTSLNB"}, {"HDT", "HPR", "PVTSLNB"}}

MCContent(log) ==
    CASE log = "GGA" -> {-1, 0, 2} [] log = "PVTSLNA" -> {0, 1, 4}
      [] log = "PVTSLNB" -> [quality : {0, 5}, block : {"zeroed", "unsolved", "solved"}]
      [] log \in {"HDT", "HPR"} -> {"ascii"}
      [] log \in {"RTCMSTATUSA", "RTCMSTATUSB"} -> {1005}
      [] OTHER -> {}
=============================================================================
