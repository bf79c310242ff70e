--------------------------- MODULE MCParserHealth ---------------------------
(* ParserHealth, one log at a time, and a receiver with other logs on a bad line. *)
EXTENDS ParserHealth

MCScenes ==
    {[logs |-> {log}, ids |-> {}, noise |-> FALSE] : log \in Nmea \cup DOMAIN MessageId}
    \cup {[logs |-> {}, ids |-> {1, 2, 3, 972}, noise |-> FALSE],
          [logs |-> {}, ids |-> {}, noise |-> TRUE]}

Sky == {<<>>} \cup {<<a>> : a \in {1, 2, 3}} \cup {<<a, b>> : a, b \in {1, 2, 3}}

\* A satellite that is received on k frequencies.
Satsinfo(i, k) == [prn |-> 10 + i, azimuth |-> 20 + i, elevation |-> 30 + i,
                   signals |-> [j \in 1 .. k |-> [system |-> i, cn0 |-> 40 + j, frequency |-> 50 + j]]]

Bestsat == <<[system |-> 0, id |-> 2, channel |-> 0, mask |-> 19],
             [system |-> 1, id |-> 57, channel |-> -4, mask |-> 3],
             [system |-> 1, id |-> 58, channel |-> 9, mask |-> 1]>>

\* The log whole, cut anywhere, or whole with a blank field; the names in a BESTSAT
\* are copied, blank or not, and stay.
Whole(cells) == {[cells |-> Len(cells), blank |-> 0]}
Cut(cells) == {[cells |-> n, blank |-> 0] : n \in 0 .. Len(cells)}
Blanked(cells, fields) == {[cells |-> Len(cells), blank |-> i] : i \in fields}

Sending(says, cells, told, variants) ==
    [says |-> says, cells |-> cells, told |-> told, variants |-> variants]

SatsinfoMessage(sky) ==
    LET s == [i \in DOMAIN sky |-> Satsinfo(i, sky[i])]
        c == SatsinfoCells(s)
    IN  Sending(s, c, [version |-> 2, flag |-> 63, satellites |-> s],
                Cut(c) \cup Blanked(c, DOMAIN c))

BestsatMessage(s) ==
    LET c == BestsatCells(s)
    IN  Sending(s, c, [satellites |-> ToldSatellites(s)],
                 Cut(c) \cup Blanked(c, {i \in DOMAIN c : IsNumber(c[i].text)}))

SendingFixed(log, c, all) ==
    Sending(c, c, Told(log, c),
            Whole(c) \cup IF all THEN Cut(c) \cup Blanked(c, DOMAIN c) ELSE {})

FixedMessage(log, type, as_number, all) ==
    SendingFixed(log, FixedCells(log, type, as_number), all)

\* A PVTSLN whose solution has no satellites.
NoSatellites == [FixedCells("PVTSLN", 0, FALSE) EXCEPT ![15] = Cell(1, 0)]

Table(log) ==
    CASE log = "SATSINFO" -> {SatsinfoMessage(sky) : sky \in Sky}
      [] log = "BESTSAT" ->
            {BestsatMessage([i \in DOMAIN sky |-> Bestsat[sky[i]]]) : sky \in Sky}
            \cup {BestsatMessage(<<[system |-> n, id |-> 4, channel |-> 0, mask |-> 1]>>) : n \in DOMAIN SystemName}
      [] log = "OBSVMCMP" ->
            {LET c == ObsvmcmpCells(o)
             IN  Sending(o, c, [observations |-> o], Cut(c)) : o \in {<<>>, <<1>>, <<2, 3>>}}
      [] log \in {"PVTSLN", "BESTNAV", "RTKSTATUS"} ->
            {FixedMessage(log, type, FALSE, type = 50) : type \in DOMAIN PositionTypeName}
            \cup {FixedMessage(log, type, TRUE, FALSE) : type \in IF log = "PVTSLN" THEN DOMAIN PositionTypeName ELSE {}}
            \cup IF log = "PVTSLN" THEN {SendingFixed(log, NoSatellites, TRUE)} ELSE {}
      [] OTHER -> {FixedMessage(log, 50, FALSE, TRUE)}

\* Computed once.
Messages == [log \in Nmea \cup DOMAIN MessageId |-> Table(log)]

MCSent(log) == Messages[log]
=============================================================================
