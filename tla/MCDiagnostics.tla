---------------------------- MODULE MCDiagnostics ----------------------------
(* Diagnostics, and the two topics of NodeFeeds with them, one at a time: a setup  *)
(* has the logs that a status or a topic reads.                                    *)
EXTENDS Diagnostics

Setup(logs, on, binary, corrections) ==
    {[logged |-> logs, enabled |-> on, use_binary |-> b, caster |-> corrections] : b \in binary}

MCSetups ==
    Setup({"GGA", "PVTSLNA", "PVTSLNB"}, {}, {{}, {"nav"}}, FALSE)
    \cup Setup({"HDT", "HPR", "PVTSLNB"}, {}, {{}, {"nav"}}, FALSE)
    \cup Setup({"PVTSLNA", "BESTNAVA"}, {}, {{}}, FALSE)
    \cup Setup({"BESTNAVA", "BESTNAVB", "RTKSTATUSA", "RTKSTATUSB"}, {"rtk"},
               {{}, {"rtk", "nav"}}, FALSE)
    \cup Setup({"GPGSV", "SATSINFOA", "BESTSATA"}, {"satellites", "satsinfo"}, {{}}, FALSE)
    \cup Setup({"GPGSV", "GLGSV", "BESTSATA"}, {"satellites"}, {{}}, FALSE)
    \cup Setup({"SATSINFOA", "SATSINFOB", "BESTSATA", "BESTSATB"}, {"satellites", "satsinfo"},
               {{"satellites"}}, FALSE)
    \cup Setup({"RTCMSTATUSA", "RTCMSTATUSB"}, {"rtcm"}, {{}, {"rtcm"}}, TRUE)
    \cup Setup({"AGCA", "AGCB"}, {"rf"}, {{}, {"rf"}}, FALSE)
    \cup Setup({"HWSTATUSA", "HWSTATUSB"}, {"hardware"}, {{}, {"hardware"}}, FALSE)
    \cup Setup({"JAMSTATUSA", "JAMSTATUSB", "FREQJAMSTATUSA", "FREQJAMSTATUSB"}, {"jamming"},
               {{"jamming"}}, FALSE)
    \cup Setup({"JAMSTATUSA", "FREQJAMSTATUSA"}, {"jamming"}, {{}}, FALSE)
    \cup Setup({"OBSVMCMPB"}, {"raw"}, {{}, {"raw"}}, FALSE)

MCBackends == {s.use_binary : s \in MCSetups}
MCProfiles == {s.logged : s \in MCSetups}

Bestnav(quality, solved, late) == [quality |-> quality, solved |-> solved, late |-> late]

MCContent(log) ==
    CASE log = "GGA" -> {0, 2}
      [] log = "PVTSLNA" -> {0, 1, 4}
      [] log = "PVTSLNB" -> [quality : {0, 4}, block : {"unsolved", "solved"}]
      [] log \in {"HDT", "HPR"} -> {"ascii"}
      [] log = "BESTNAVA" -> {Bestnav(4, TRUE, FALSE), Bestnav(4, TRUE, TRUE), Bestnav(0, FALSE, FALSE)}
      [] log = "BESTNAVB" -> {Bestnav(5, TRUE, FALSE)}
      [] log \in {"RTKSTATUSA", "RTKSTATUSB"} -> {"rtk"}
      [] log \in {"RTCMSTATUSA", "RTCMSTATUSB"} -> {-1, 1005}
      [] log \in {"GPGSV", "SATSINFOA"} -> {0, 7}
      [] log = "GLGSV" -> {2}
      [] log \in {"SATSINFOB", "BESTSATB"} -> {6}
      [] log = "BESTSATA" -> {0, 5}
      [] log \in {"AGCA", "AGCB"} -> {<<40, 50, 45>>, <<-1, 10, 40>>, <<90, 80, -1>>, <<-1, -1, -1>>}
      [] log = "HWSTATUSA" -> [rails : BOOLEAN, clock : BOOLEAN, pll : {TRUE}]
      [] log = "HWSTATUSB" -> [rails : {TRUE}, clock : {TRUE}, pll : BOOLEAN]
      [] log = "JAMSTATUSA" -> {0, 2} [] log = "JAMSTATUSB" -> {0}
      [] log = "FREQJAMSTATUSA" -> {<<0, 0, 0>>, <<0, 1, 0>>} [] log = "FREQJAMSTATUSB" -> {<<0, 0, 0>>}
      [] log = "OBSVMCMPB" -> {0, 3}
      [] OTHER -> {}
=============================================================================
