------------------------------- MODULE Parsers -------------------------------
(***************************************************************************)
(* The logs of the receiver and how the node reads them: UnicoreParser     *)
(* (src/src/unicore_parser.cpp) the ASCII lines and UnicoreBinaryNavParser *)
(* (src/src/unicore_binary_nav.cpp) the binary frames.                     *)
(*                                                                         *)
(* A log is a sequence of cells, each a value with a width in bytes.  The  *)
(* ASCII log writes a cell per comma, after its header; the binary log     *)
(* writes them one behind the other.  Where the code looks for them, by    *)
(* field index or by byte offset, is the subject of this module.           *)
(*                                                                         *)
(* Values are small numbers.  What a float, a mask or a satellite's band   *)
(* means is left out, and of the codes with a name only the position type  *)
(* and the satellite system have theirs.  Every Unicore parser cuts the    *)
(* header off the first data field, which shares field 9 with it.          *)
(***************************************************************************)
EXTENDS Integers, Sequences, SequencesExt

CONSTANT None           \* std::nullopt, or a member left at its default

\* The words of a line: a number, a text, or a word that stands for a code.
Number(v) == <<"number", v>>
Text(t) == <<"text", t>>
Code(v) == <<"code", v>>
IsNumber(f) == f[1] = "number"

\* The members that a line writes as such a word, and the parser copies.
Coded == {"status", "base_station_id", "velocity_status", "velocity_type"}

\* A value that was never sent.
Garbage == -1

-----------------------------------------------------------------------------
(* The receiver: the order and the widths of the cells. *)

Words(width, names) == [i \in DOMAIN names |-> [name |-> names[i], width |-> width]]

Mixed(names, widths) == [i \in DOMAIN names |-> [name |-> names[i], width |-> widths[i]]]

Layout(log) ==
    CASE log = "GGA" ->
            Words(1, <<"time", "latitude", "ns", "longitude", "ew", "quality", "satellites",
                      "hdop", "altitude", "-", "separation">>)
      [] log = "HDT" -> Words(1, <<"heading">>)
      [] log = "HPR" -> Words(1, <<"time", "heading", "pitch", "roll">>)
      [] log = "GSV" -> Words(1, <<"messages", "message", "in_view">>)
      [] log = "PVTSLN" ->
            Mixed(<<"type", "height", "latitude", "longitude", "height_std", "latitude_std",
                    "longitude_std", "-", "-", "-", "-", "-", "undulation", "tracked",
                    "solution", "-", "-", "-", "-", "-", "heading_type", "heading_length",
                    "heading_degree", "heading_pitch", "-", "-", "-", "-", "-", "-", "hdop",
                    "-", "-", "-">>,
                  <<4, 4, 8, 8, 4, 4, 4, 4, 4, 4, 8, 8, 4, 1, 1, 1, 1, 8, 8, 8, 4, 4, 4, 4, 1,
                    1, 1, 1, 4, 4, 4, 4, 4, 4>>)
      [] log = "BESTNAV" ->
            Mixed(<<"status", "type", "latitude", "longitude", "height", "undulation", "-",
                    "latitude_std", "longitude_std", "height_std", "base_station_id",
                    "diff_age", "sol_age", "tracked", "used", "-", "-", "-", "extended",
                    "mask1", "mask2", "velocity_status", "velocity_type", "latency",
                    "velocity_age", "speed", "track", "up_speed", "up_speed_std", "speed_std">>,
                  <<4, 4, 8, 8, 8, 4, 4, 4, 4, 4, 4, 4, 4, 1, 1, 1, 1, 1, 1, 1, 1, 4, 4, 4, 4,
                    8, 8, 4, 4, 4>>)
      [] log = "RTKSTATUS" ->
            Mixed(<<"gps", "-", "bds1", "bds2", "-", "glonass", "-", "galileo1", "galileo2",
                    "qzss", "-", "type", "calculate", "ion", "dual", "adr", "-">>,
                  <<4, 4, 4, 4, 4, 4, 4, 4, 4, 4, 4, 4, 4, 1, 1, 1, 1>>)
      [] log = "RTCMSTATUS" ->
            Mixed(<<"id", "count", "base", "satellites", "L1", "L2", "L3", "L4", "L5", "L6">>,
                  <<4, 4, 4, 4, 1, 1, 1, 1, 1, 1>>)
      [] log = "AGC" ->
            Words(2, <<"ant1_l1", "ant1_l2", "ant1_l5", "-", "-", "ant2_l1", "ant2_l2",
                      "ant2_l5", "-", "-">>)
      [] log = "HWSTATUS" ->
            Mixed(<<"-", "dc09", "dc10", "dc18", "clock", "drift", "-", "hw", "-", "pll", "-",
                    "-">>,
                  <<4, 4, 4, 4, 4, 4, 4, 1, 1, 2, 4, 4>>)
      [] log = "JAMSTATUS" ->
            Mixed(<<"-", "ratio", "flag", "-", "-">>,
                  <<4, 1, 1, 1, 1>>)
      [] log = "FREQJAMSTATUS" ->
            Mixed(<<"-", "ratio1", "flag1", "ratio2", "flag2", "ratio5", "flag5", "-", "-">>,
                  <<4, 1, 1, 1, 1, 1, 1, 1, 1>>)

\* The position types with their names, and the satellite systems of a BESTSAT.
PositionTypeName ==
    [code \in {0, 1, 2, 8, 16, 17, 18, 32, 33, 34, 48, 49, 50, 52, 53, 54, 55, 56, 68, 69} |->
        CASE code = 0 -> "NONE" [] code = 1 -> "FIXEDPOS" [] code = 2 -> "FIXEDHEIGHT"
          [] code = 8 -> "DOPPLER_VELOCITY" [] code = 16 -> "SINGLE" [] code = 17 -> "PSRDIFF"
          [] code = 18 -> "SBAS" [] code = 32 -> "L1_FLOAT" [] code = 33 -> "IONOFREE_FLOAT"
          [] code = 34 -> "NARROW_FLOAT" [] code = 48 -> "L1_INT" [] code = 49 -> "WIDE_INT"
          [] code = 50 -> "NARROW_INT" [] code = 52 -> "INS" [] code = 53 -> "INS_PSRSP"
          [] code = 54 -> "INS_PSRDIFF" [] code = 55 -> "INS_RTKFLOAT"
          [] code = 56 -> "INS_RTKFIXED" [] code = 68 -> "PPP_CONVERGING" [] code = 69 -> "PPP"]

SystemName ==
    [system \in {0, 1, 2, 5, 6, 7, 9} |->
        CASE system = 0 -> "GPS" [] system = 1 -> "GLONASS" [] system = 2 -> "SBAS"
          [] system = 5 -> "GALILEO" [] system = 6 -> "BEIDOU" [] system = 7 -> "QZSS"
          [] system = 9 -> "NAVIC"]

\* The words a member may have in a line, given its value; of a cell that no parser
\* reads ("-") both are possible, the datum of a BESTNAV is one.
Wording(name, value) ==
    CASE name = "type" -> {Number(value), Text(PositionTypeName[value])}
      [] name \in Coded -> {Code(value)}
      [] name = "-" -> {Number(value), Code(value)}
      [] name = "ns" -> {Text("N"), Text("S")}
      [] name = "ew" -> {Text("E"), Text("W")}
      [] OTHER -> {Number(value)}

\* The logs of fixed layout: a cell per word of the layout, as wide as the word.
IsFixedLog(log, cells) ==
    /\ cells = [i \in DOMAIN Layout(log) |-> cells[i]]
    /\ \A i \in DOMAIN Layout(log) :
          LET word == Layout(log)[i]
          IN  /\ cells[i].width = word.width /\ cells[i].value \in Int
              /\ word.name = "type" => cells[i].value \in DOMAIN PositionTypeName
              /\ word.name \in {"tracked", "solution"} => cells[i].value \in Nat
              /\ cells[i].text \in Wording(word.name, cells[i].value)

Cell(width, value) == [width |-> width, value |-> value, text |-> Number(value)]
Named(width, value, text) == [width |-> width, value |-> value, text |-> Text(text)]

\* A log of fixed layout: cell i says 200 + i, the type is given, in ASCII by its
\* name or its number, the hemispheres are letters, and the words that stand for
\* codes, the datum of a BESTNAV among them, are such words.
FixedCells(log, type, as_number) ==
    [i \in DOMAIN Layout(log) |->
        LET word == Layout(log)[i]
        IN  CASE word.name = "type" /\ ~ as_number -> Named(word.width, type, PositionTypeName[type])
              [] word.name = "type" /\ as_number -> Cell(word.width, type)
              [] word.name = "ns" -> Named(word.width, 200 + i, "N")
              [] word.name = "ew" -> Named(word.width, 200 + i, "E")
              [] word.name \in Coded \/ (log = "BESTNAV" /\ i = 7) ->
                    [width |-> word.width, value |-> 200 + i, text |-> Code(200 + i)]
              [] OTHER -> Cell(word.width, 200 + i)]

\* A satellite of a SATSINFO is received on at least one frequency.
SatsinfoSatellite ==
    [prn : Int, azimuth : Int, elevation : Int,
     signals : Seq([system : Int, cn0 : Int, frequency : Int]) \ {<<>>}]

SatsinfoCells(satellites) ==
    <<Cell(1, Len(satellites)), Cell(1, 2), Cell(1, 0), Cell(1, 0), Cell(1, 0), Cell(1, 63)>>
    \o FlattenSeq([i \in DOMAIN satellites |->
          LET s == satellites[i]
          IN  <<Cell(1, s.prn), Cell(2, s.azimuth), Cell(1, s.elevation)>>
              \o FlattenSeq([j \in DOMAIN s.signals |->
                    <<Cell(1, s.signals[j].system), Cell(1, s.signals[j].cn0),
                      Cell(1, s.signals[j].frequency), Cell(1, Len(s.signals))>>])])

\* Of a BESTSAT, only the satellites of GLONASS have a channel: the upper half of
\* the binary identifier, in two's complement.
Int16 == {i \in Int : -32768 <= i /\ i <= 32767}

BestsatSatellite ==
    {s \in [system : DOMAIN SystemName, id : Int, channel : Int16, mask : Int] :
        s.system # 1 => s.channel = 0}

BestsatCells(satellites) ==
    <<Cell(4, Len(satellites))>>
    \o FlattenSeq([i \in DOMAIN satellites |->
          LET s == satellites[i]
          IN  <<Named(4, s.system, SystemName[s.system]),
                Named(4, <<s.channel % 65536, s.id>>, <<s.id, s.channel>>),
                Named(4, 0, "GOOD"), Cell(4, s.mask)>>])

ObsvmcmpCells(observations) ==
    <<Cell(4, Len(observations))>> \o [i \in DOMAIN observations |-> Cell(24, observations[i])]

-----------------------------------------------------------------------------
(* The two encodings of the first n cells. *)

Nmea == {"GGA", "HDT", "HPR", "GSV"}

FirstField(log) == IF log \in Nmea THEN 1 ELSE 9

\* The fields of a line; the blank cell, if any, is written as an empty field.
Fields(log, cells, n, blank) ==
    [i \in 1 .. FirstField(log) |-> Text("header")]
    \o [i \in 1 .. n |-> IF i = blank THEN Text("") ELSE cells[i].text]

Offset(cells, i) ==
    LET at[j \in 1 .. Len(cells) + 1] == IF j = 1 THEN 0 ELSE at[j - 1] + cells[j - 1].width
    IN  at[i]

\* The bytes of a frame: their number, and which cell begins where.
Payload(cells, n) ==
    [size |-> Offset(cells, n + 1),
     begins |-> [o \in {Offset(cells, i) : i \in 1 .. n} |->
                    cells[CHOOSE i \in 1 .. n : Offset(cells, i) = o]]]

-----------------------------------------------------------------------------
(* Reading a line.  Fields are counted from 0, as in the code. *)

\* A field beyond the end is whatever lies there; here a number nobody sent.
At(fields, i) == IF i < Len(fields) THEN fields[i + 1] ELSE Number(Garbage)

\* position_type_to_gga_quality of the ASCII parser, a name or a number.
AsciiQuality(f) ==
    IF IsNumber(f)
    THEN CASE f[2] \in {1, 2, 16, 52, 53, 68, 69} -> 1 [] f[2] \in {17, 54} -> 2
           [] f[2] = 18 -> 9 [] f[2] \in {32, 33, 34, 55} -> 5
           [] f[2] \in {48, 49, 50, 56} -> 4 [] OTHER -> 0
    ELSE CASE f[2] \in {"FIXEDPOS", "FIXEDHEIGHT", "SINGLE", "INS", "INS_PSRSP",
                        "PPP_CONVERGING", "PPP"} -> 1
           [] f[2] \in {"PSRDIFF", "DGPS", "INS_PSRDIFF"} -> 2
           [] f[2] \in {"WAAS", "SBAS"} -> 9
           [] f[2] \in {"L1_FLOAT", "IONOFREE_FLOAT", "NARROW_FLOAT", "RTK_FLOAT",
                        "INS_RTKFLOAT"} -> 5
           [] f[2] \in {"L1_INT", "WIDE_INT", "NARROW_INT", "RTK_FIXED", "INS_RTKFIXED"} -> 4
           [] OTHER -> 0

Legible(name, f) ==
    IF name \in {"ns", "ew"} THEN f \in {Text("N"), Text("S"), Text("E"), Text("W")}
    ELSE IsNumber(f)

\* A line of fixed layout.  It is refused when it has fewer than min fields, or a
\* member that is not optional is illegible; a member that is last may also be
\* missing, in the lines of an older firmware.
FixedLine(fields, min, index, optional, last) ==
    LET f(name) == At(fields, index[name])
        value(name) ==
            CASE name \in last /\ index[name] >= Len(fields) -> None
              [] name = "type" -> AsciiQuality(f(name))
              [] name \in {"ns", "ew"} -> f(name)[2]
              [] name \in Coded -> IF f(name) = Text("") THEN None ELSE f(name)[2]
              [] OTHER -> IF IsNumber(f(name)) THEN f(name)[2] ELSE None
    IN  IF \/ Len(fields) < min
           \/ \E name \in DOMAIN index \ optional : ~ Legible(name, f(name))
        THEN None
        ELSE [name \in DOMAIN index |-> value(name)]

parse_gga(fields) ==
    FixedLine(fields, 10,
        [latitude |-> 2, ns |-> 3, longitude |-> 4, ew |-> 5, quality |-> 6, satellites |-> 7,
         hdop |-> 8, altitude |-> 9, separation |-> 11],
        {"quality", "satellites", "hdop", "altitude", "separation"},
        {"satellites", "hdop", "separation"})

parse_hdt(fields) == FixedLine(fields, 2, [heading |-> 1], {}, {})

parse_hpr(fields) == FixedLine(fields, 5, [heading |-> 2, pitch |-> 3, roll |-> 4], {}, {})

parse_gsv(fields) == FixedLine(fields, 4, [in_view |-> 3], {}, {})

PvtslnaFields(fields) ==
    FixedLine(fields, 16,
        [type |-> 9, height |-> 10, latitude |-> 11, longitude |-> 12, height_std |-> 13,
         latitude_std |-> 14, longitude_std |-> 15, undulation |-> 21, tracked |-> 22,
         solution |-> 23, hdop |-> 39],
        {"type", "undulation", "tracked", "solution", "hdop"},
        {"undulation", "tracked", "solution", "hdop"})

\* The position of a PVTSLN has one count of satellites.
WithSatellites(log, count) ==
    [name \in (DOMAIN log \ {"tracked", "solution"}) \cup {"satellites"} |->
        IF name = "satellites" THEN count ELSE log[name]]

\* The satellites are those of the solution, also when there are none; those tracked
\* when the field of the solution is missing or blank.
parse_pvtslna(fields) ==
    LET log == PvtslnaFields(fields)
    IN  IF log = None THEN None
        ELSE WithSatellites(log, IF log.solution # None /\ log.solution >= 0
                                 THEN log.solution ELSE log.tracked)

\* The "backward-compatible fallback": whatever a short line ends with is taken for
\* the velocity of the older layout, if it is five numbers.
VelocityOfLastFields(fields) ==
    LET f(k) == At(fields, Len(fields) - k)
    IN  IF Len(fields) < 6 \/ \E k \in 1 .. 5 : ~ IsNumber(f(k)) THEN None
        ELSE [speed |-> f(5)[2], track |-> f(4)[2], up_speed |-> f(3)[2],
              up_speed_std |-> f(2)[2], speed_std |-> f(1)[2]]

parse_bestnava(fields) ==
    IF Len(fields) >= 39
    THEN FixedLine(fields, 39,
            [status |-> 9, type |-> 10, latitude |-> 11, longitude |-> 12, height |-> 13,
             undulation |-> 14, latitude_std |-> 16, longitude_std |-> 17, height_std |-> 18,
             base_station_id |-> 19, diff_age |-> 20, sol_age |-> 21, tracked |-> 22, used |-> 23,
             extended |-> 27, mask1 |-> 28, mask2 |-> 29, velocity_status |-> 30,
             velocity_type |-> 31, latency |-> 32, velocity_age |-> 33, speed |-> 34,
             track |-> 35, up_speed |-> 36, up_speed_std |-> 37, speed_std |-> 38],
            {"status", "type", "base_station_id", "mask1", "mask2", "velocity_status",
             "velocity_type"}, {})
    ELSE VelocityOfLastFields(fields)

parse_rtkstatusa(fields) ==
    FixedLine(fields, 25,
        [gps |-> 9, bds1 |-> 11, bds2 |-> 12, glonass |-> 14, galileo1 |-> 16, galileo2 |-> 17,
         qzss |-> 18, type |-> 20, calculate |-> 21, ion |-> 22, dual |-> 23, adr |-> 24],
        {"type"}, {})

parse_rtcmstatusa(fields) ==
    FixedLine(fields, 19,
        [id |-> 9, count |-> 10, base |-> 11, satellites |-> 12, L1 |-> 13, L2 |-> 14, L3 |-> 15,
         L4 |-> 16, L5 |-> 17, L6 |-> 18], {}, {})

parse_agca(fields) ==
    FixedLine(fields, 17, [ant1_l1 |-> 9, ant1_l2 |-> 10, ant1_l5 |-> 11,
                           ant2_l1 |-> 14, ant2_l2 |-> 15, ant2_l5 |-> 16], {}, {})

parse_hwstatusa(fields) ==
    FixedLine(fields, 19, [dc09 |-> 10, dc10 |-> 11, dc18 |-> 12, clock |-> 13, drift |-> 14,
                           hw |-> 16, pll |-> 18], {}, {})

parse_jamstatusa(fields) == FixedLine(fields, 12, [ratio |-> 10, flag |-> 11], {}, {})

parse_freqjamstatusa(fields) ==
    FixedLine(fields, 16, [ratio1 |-> 10, flag1 |-> 11, ratio2 |-> 12, flag2 |-> 13,
                           ratio5 |-> 14, flag5 |-> 15], {}, {})

\* Starts of the satellites, and of what follows the last one; None after one that
\* does not fit.
Mut_SatsinfoaStarts(fields) ==
    LET number(a, b) == b < Len(fields) /\ \A i \in a .. b : IsNumber(At(fields, i))
        extra(c) == 4 * (At(fields, c + 6)[2] - 1)
        start[i \in Nat] ==
            IF i = 0 THEN 15
            ELSE LET c == start[i - 1]
                 IN  IF c = None THEN None
                     ELSE IF number(c, c + 6) /\ At(fields, c + 6)[2] > 0
                     THEN c + 7 + extra(c) ELSE None
    IN  start

SatsinfoaStarts(fields) ==
    LET number(a, b) == b < Len(fields) /\ \A i \in a .. b : IsNumber(At(fields, i))
        extra(c) == 4 * (At(fields, c + 6)[2] - 1)
        start[i \in Nat] ==
            IF i = 0 THEN 15
            ELSE LET c == start[i - 1]
                 IN  IF c = None THEN None
                     ELSE IF /\ number(c, c + 6) /\ At(fields, c + 6)[2] > 0
                             /\ number(c + 7, c + 6 + extra(c))
                     THEN c + 7 + extra(c) ELSE None
    IN  start

parse_satsinfoa(fields) ==
    LET v(i) == At(fields, i)[2]
        start == SatsinfoaStarts(fields)
    IN  IF Len(fields) <= 14 \/ \E i \in {9, 10, 14} : ~ IsNumber(At(fields, i)) THEN None
        ELSE IF v(9) < 0 \/ start[v(9)] = None THEN None
        ELSE [version |-> v(10), flag |-> v(14),
              satellites |-> [i \in 1 .. v(9) |->
                LET c == start[i - 1]
                IN  [prn |-> v(c), azimuth |-> v(c + 1), elevation |-> v(c + 2),
                     signals |-> [j \in 1 .. v(c + 6) |->
                        LET s == c + 3 + 4 * (j - 1)
                        IN  [system |-> v(s), cn0 |-> v(s + 1), frequency |-> v(s + 2)]]]]]

normalize_constellation_name(text) ==
    CASE text \in {"GLONASS", "GLO"} -> "GLO" [] text \in {"GALILEO", "GAL"} -> "GAL"
      [] text \in {"BEIDOU", "BDS"} -> "BDS" [] text \in {"IRNSS", "NAVIC"} -> "IRNSS"
      [] OTHER -> text

parse_bestsata(fields) ==
    LET n == At(fields, 9)[2]
        entry(i) == 10 + 4 * (i - 1)
    IN  IF Len(fields) <= 9 \/ ~ IsNumber(At(fields, 9)) THEN None
        ELSE IF n < 0 \/ Len(fields) < 10 + 4 * n THEN None
        ELSE IF \E i \in 1 .. n : ~ IsNumber(At(fields, entry(i) + 3)) THEN None
        ELSE [satellites |-> [i \in 1 .. n |->
                [constellation |-> normalize_constellation_name(At(fields, entry(i))[2]),
                 id |-> At(fields, entry(i) + 1)[2], mask |-> At(fields, entry(i) + 3)[2]]]]

\* parse_line, of a line whose checksum holds.
Parse(log, fields) ==
    CASE log = "GGA" -> parse_gga(fields)
      [] log = "HDT" -> parse_hdt(fields)
      [] log = "HPR" -> parse_hpr(fields)
      [] log = "GSV" -> parse_gsv(fields)
      [] log = "PVTSLN" -> parse_pvtslna(fields)
      [] log = "BESTNAV" -> parse_bestnava(fields)
      [] log = "RTKSTATUS" -> parse_rtkstatusa(fields)
      [] log = "RTCMSTATUS" -> parse_rtcmstatusa(fields)
      [] log = "BESTSAT" -> parse_bestsata(fields)
      [] log = "SATSINFO" -> parse_satsinfoa(fields)
      [] log = "AGC" -> parse_agca(fields)
      [] log = "HWSTATUS" -> parse_hwstatusa(fields)
      [] log = "JAMSTATUS" -> parse_jamstatusa(fields)
      [] log = "FREQJAMSTATUS" -> parse_freqjamstatusa(fields)

-----------------------------------------------------------------------------
(* Reading a frame.  Nothing is read beyond the end (has_range). *)

has_range(payload, offset, size) == offset + size <= payload.size

\* Bytes that are not those of one cell give a number nobody sent.
ReadAt(payload, offset, width) ==
    IF ~ has_range(payload, offset, width) THEN None
    ELSE IF offset \in DOMAIN payload.begins /\ payload.begins[offset].width = width
    THEN payload.begins[offset].value ELSE Garbage

\* position_type_to_gga_quality of the binary parser.
BinaryQuality(code) ==
    CASE code \in {1, 2, 16, 52, 53, 68, 69} -> 1 [] code \in {17, 54} -> 2 [] code = 18 -> 9
      [] code \in {32, 33, 34, 55} -> 5 [] code \in {48, 49, 50, 56} -> 4 [] OTHER -> 0

\* A frame of fixed layout, with at least min bytes; each member has its place,
\* <<offset, width>>.
FixedFrame(payload, min, place) ==
    LET v(name) == ReadAt(payload, place[name][1], place[name][2])
    IN  IF payload.size < min \/ \E name \in DOMAIN place : v(name) = None THEN None
        ELSE [name \in DOMAIN place |-> IF name = "type" THEN BinaryQuality(v(name)) ELSE v(name)]

PvtslnbBytes(payload) ==
    FixedFrame(payload, 140,
        [type |-> <<0, 4>>, height |-> <<4, 4>>, latitude |-> <<8, 8>>, longitude |-> <<16, 8>>,
         height_std |-> <<24, 4>>, latitude_std |-> <<28, 4>>, longitude_std |-> <<32, 4>>,
         undulation |-> <<64, 4>>, tracked |-> <<68, 1>>, solution |-> <<69, 1>>,
         heading_type |-> <<96, 4>>, heading_length |-> <<100, 4>>, heading_degree |-> <<104, 4>>,
         heading_pitch |-> <<108, 4>>, hdop |-> <<124, 4>>])

\* Here a solution without satellites gives way to those tracked.
parse_pvtslnb(payload) ==
    LET log == PvtslnbBytes(payload)
    IN  IF log = None THEN None
        ELSE WithSatellites(log, IF log.solution > 0 THEN log.solution ELSE log.tracked)

parse_bestnavb(payload) ==
    FixedFrame(payload, 116,
        [status |-> <<0, 4>>, type |-> <<4, 4>>, latitude |-> <<8, 8>>, longitude |-> <<16, 8>>,
         height |-> <<24, 8>>, undulation |-> <<32, 4>>, latitude_std |-> <<40, 4>>,
         longitude_std |-> <<44, 4>>, height_std |-> <<48, 4>>, base_station_id |-> <<52, 4>>,
         diff_age |-> <<56, 4>>, sol_age |-> <<60, 4>>, tracked |-> <<64, 1>>, used |-> <<65, 1>>,
         extended |-> <<69, 1>>, mask1 |-> <<70, 1>>, mask2 |-> <<71, 1>>,
         velocity_status |-> <<72, 4>>, velocity_type |-> <<76, 4>>, latency |-> <<80, 4>>,
         velocity_age |-> <<84, 4>>, speed |-> <<88, 8>>, track |-> <<96, 8>>,
         up_speed |-> <<104, 4>>, up_speed_std |-> <<108, 4>>, speed_std |-> <<112, 4>>])

parse_rtkstatusb(payload) ==
    FixedFrame(payload, 56,
        [gps |-> <<0, 4>>, bds1 |-> <<8, 4>>, bds2 |-> <<12, 4>>, glonass |-> <<20, 4>>,
         galileo1 |-> <<28, 4>>, galileo2 |-> <<32, 4>>, qzss |-> <<36, 4>>, type |-> <<44, 4>>,
         calculate |-> <<48, 4>>, ion |-> <<52, 1>>, dual |-> <<53, 1>>, adr |-> <<54, 1>>])

parse_rtcmstatusb(payload) ==
    FixedFrame(payload, 22,
        [id |-> <<0, 4>>, count |-> <<4, 4>>, base |-> <<8, 4>>, satellites |-> <<12, 4>>,
         L1 |-> <<16, 1>>, L2 |-> <<17, 1>>, L3 |-> <<18, 1>>, L4 |-> <<19, 1>>, L5 |-> <<20, 1>>,
         L6 |-> <<21, 1>>])

parse_agcb(payload) ==
    FixedFrame(payload, 20,
        [ant1_l1 |-> <<0, 2>>, ant1_l2 |-> <<2, 2>>, ant1_l5 |-> <<4, 2>>,
         ant2_l1 |-> <<10, 2>>, ant2_l2 |-> <<12, 2>>, ant2_l5 |-> <<14, 2>>])

parse_hwstatusb(payload) ==
    FixedFrame(payload, 40,
        [dc09 |-> <<4, 4>>, dc10 |-> <<8, 4>>, dc18 |-> <<12, 4>>, clock |-> <<16, 4>>,
         drift |-> <<20, 4>>, hw |-> <<28, 1>>, pll |-> <<30, 2>>])

parse_jamstatusb(payload) == FixedFrame(payload, 8, [ratio |-> <<4, 1>>, flag |-> <<5, 1>>])

parse_freqjamstatusb(payload) ==
    FixedFrame(payload, 12,
        [ratio1 |-> <<4, 1>>, flag1 |-> <<5, 1>>, ratio2 |-> <<6, 1>>, flag2 |-> <<7, 1>>,
         ratio5 |-> <<8, 1>>, flag5 |-> <<9, 1>>])

\* As in the ASCII log; a satellite without a frequency is refused.
SatsinfobStarts(payload) ==
    LET start[i \in Nat] ==
            IF i = 0 THEN 6
            ELSE LET c == start[i - 1]
                     count == ReadAt(payload, c + 7, 1)
                 IN  IF c = None THEN None
                     ELSE IF has_range(payload, c, 8) /\ count # 0
                             /\ has_range(payload, c, 4 + 4 * count)
                     THEN c + 4 + 4 * count ELSE None
    IN  start

parse_satsinfob(payload) ==
    LET v(offset) == ReadAt(payload, offset, 1)
        start == SatsinfobStarts(payload)
    IN  IF payload.size < 6 \/ start[v(0)] = None THEN None
        ELSE [version |-> v(1), flag |-> v(5),
              satellites |-> [i \in 1 .. v(0) |->
                LET c == start[i - 1]
                IN  [prn |-> v(c), azimuth |-> ReadAt(payload, c + 1, 2), elevation |-> v(c + 3),
                     signals |-> [j \in 1 .. v(c + 7) |->
                        LET s == c + 4 + 4 * (j - 1)
                        IN  [system |-> v(s), cn0 |-> v(s + 1), frequency |-> v(s + 2)]]]]]

bestsat_constellation_name_from_system_id(system) ==
    CASE system = 0 -> "GPS" [] system = 1 -> "GLO" [] system = 2 -> "SBAS" [] system = 5 -> "GAL"
      [] system = 6 -> "BDS" [] system = 7 -> "QZSS" [] system = 9 -> "IRNSS"
      [] OTHER -> "UNKNOWN"

\* The upper half is a signed channel, of GLONASS satellites only.
bestsat_satellite_id(system, raw) ==
    <<raw[2], IF system # 1 THEN 0 ELSE IF raw[1] >= 32768 THEN raw[1] - 65536 ELSE raw[1]>>

parse_bestsatb(payload) ==
    LET n == ReadAt(payload, 0, 4)
        v(i, offset) == ReadAt(payload, 4 + 16 * (i - 1) + offset, 4)
    IN  IF n = None THEN None
        ELSE IF payload.size < 4 + 16 * n THEN None
        ELSE [satellites |-> [i \in 1 .. n |->
                [constellation |-> bestsat_constellation_name_from_system_id(v(i, 0)),
                 id |-> bestsat_satellite_id(v(i, 0), v(i, 4)), mask |-> v(i, 12)]]]

parse_obsvmcmpb(payload) ==
    LET n == ReadAt(payload, 0, 4)
    IN  IF n = None THEN None
        ELSE IF payload.size < 4 + 24 * n THEN None
        ELSE [observations |-> [i \in 1 .. n |-> ReadAt(payload, 4 + 24 * (i - 1), 24)]]

\* parse.
ParseFrame(log, payload) ==
    CASE log = "OBSVMCMP" -> parse_obsvmcmpb(payload)
      [] log = "HWSTATUS" -> parse_hwstatusb(payload)
      [] log = "AGC" -> parse_agcb(payload)
      [] log = "RTKSTATUS" -> parse_rtkstatusb(payload)
      [] log = "JAMSTATUS" -> parse_jamstatusb(payload)
      [] log = "FREQJAMSTATUS" -> parse_freqjamstatusb(payload)
      [] log = "PVTSLN" -> parse_pvtslnb(payload)
      [] log = "BESTSAT" -> parse_bestsatb(payload)
      [] log = "BESTNAV" -> parse_bestnavb(payload)
      [] log = "SATSINFO" -> parse_satsinfob(payload)
      [] log = "RTCMSTATUS" -> parse_rtcmstatusb(payload)

-----------------------------------------------------------------------------
(* What a reader of a log should find in it. *)

\* The values of a fixed layout by name.
Told(log, cells) ==
    LET names == {Layout(log)[i].name : i \in DOMAIN Layout(log)} \ {"-"}
        cell(name) == cells[CHOOSE i \in DOMAIN cells : Layout(log)[i].name = name]
    IN  [name \in names |->
            CASE name = "type" -> BinaryQuality(cell(name).value)
              [] name \in {"ns", "ew"} -> cell(name).text[2]
              [] OTHER -> cell(name).value]

ToldSatellites(satellites) ==
    [i \in DOMAIN satellites |->
        LET s == satellites[i]
        IN  [constellation |-> normalize_constellation_name(SystemName[s.system]),
             id |-> <<s.id, s.channel>>, mask |-> s.mask]]
=============================================================================
