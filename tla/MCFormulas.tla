----------------------------- MODULE MCFormulas -----------------------------
(***************************************************************************)
(* The formulas evaluated on every history of at most MaxLen readings over *)
(* small sets of levels, times and calibrations, against reference         *)
(* definitions that do not use the closed forms of the code; and the       *)
(* parsers of the device's payloads on measurements and firmwares that are *)
(* first written into payloads of every form.                              *)
(***************************************************************************)
EXTENDS Formulas, Payloads

CONSTANTS Levels, Times, Distances, MaxLen, Millivolts, Curves,
          Measurements,     \* what a /read can carry
          Garbage,          \* texts that are no integer
          Versions, Others, \* the words of a /log line: versions, and any others
          MaxWords          \* other words before and after the version

ASSUME ValuesAssumption ==
  /\ Levels \subseteq Int /\ Distances \subseteq Int /\ Millivolts \subseteq Int
  /\ Times \subseteq Int

(* Tables of at least one breakpoint. *)
ASSUME CurvesAssumption ==
  \A c \in Curves : c # <<>> /\ c \in Seq(Int \X Int)

(* What a text, a decoded raw string and a decoded reading look like. *)
Texts == {Empty} \cup [kind : {"number"}, is : Int] \cup [kind : {"word"}, is : STRING]
Frames == [version : Texts, sensor : Texts, level_mm : Int, battery_mv : Int, amp : Int,
           temp : Int, read_no : Int, last_sent : Int, rest : Seq(Int)]
Readings == [sensor : Texts, lvl : Int, battery_mv : Int, version : Texts \cup {Absent},
             read_no : Int \cup {Absent}, last_sent : Int \cup {Absent},
             amp1 : Int \cup {Absent}, temp : Int \cup {Absent}, raw : Frames \cup {Absent}]

ASSUME MeasurementsAssumption ==
  /\ Measurements # {}
  /\ \A m \in Measurements :
       /\ {m.version, m.sensor} \subseteq Texts \ {Empty}
       /\ {m.mm, m.battery, m.amp1, m.temp, m.read_no, m.last_sent} \subseteq Int

ASSUME GarbageAssumption ==
  \A g \in Garbage : g \in Texts \ {Empty} /\ g.kind = "word"

(* What stands for None, for Err and for a wrong type is no value. *)
ASSUME DistinctAssumption ==
  /\ Absent # Malformed /\ Absent # Mistyped
  /\ \A v \in {Absent, Malformed, Mistyped} :
       /\ v \notin Int /\ v \notin Texts /\ v \notin Frames /\ v \notin Readings
       /\ v \notin Seq(Texts)
       /\ \A w \in Versions \cup Others : v # w /\ v # <<w>>

(* A version has a dot, and neither a colon nor what JSON has.  The other  *)
(* words are any: with a dot, a colon, both, or as long as they like.      *)
ASSUME WordsAssumption ==
  /\ MaxWords \in Nat /\ Versions \cap Others = {}
  /\ \A w \in Versions \cup Others : w.len \in Nat
  /\ \A w \in Versions : "." \in w.has /\ w.has \cap {":", "{", ","} = {} /\ w.len < 64

VARIABLES h,      \* a reading history
          cal,    \* a calibration
          mv,     \* a battery voltage
          curve,  \* breakpoints handed to BatteryCurve::new
          read,   \* a /read: what the JSON and the raw string say, and how
          log     \* a /log line, with the version the device means, if any
vars == <<h, cal, mv, curve, read, log>>

Calibrations == {[full |-> f, empty |-> e] : f, e \in Distances}

MCCurves == {DefaultCurve,
             <<<<4200, 100>>, <<3300, 0>>, <<3600, 40>>, <<3770, 83>>>>,
             <<<<3300, 5>>, <<4200, 95>>, <<3300, 7>>>>,
             <<<<4200, 20>>, <<3770, 20>>, <<4200, 0>>>>}
MCMillivolts == {3299, 3300, 3301, 3450, 3600, 3601, 3769, 3770, 3771, 4000, 4199, 4200, 4201}

(* A measurement, as the texts and numbers of the raw string. *)
MCMeasurements ==
  {[version |-> Word("e23"), sensor |-> Word("ae5058"), mm |-> 1502, battery |-> 3770,
    amp1 |-> 59, temp |-> 0, read_no |-> 73044, last_sent |-> 72976],
   [version |-> Number(23), sensor |-> Number(505812), mm |-> 0, battery |-> 4200,
    amp1 |-> 7, temp |-> -5, read_no |-> 1, last_sent |-> 0]}
MCGarbage == {Word("3.7V")}
JsonFields == {"version", "sensor", "read1", "battery", "amp1", "temp", "read_no", "last_sent"}

Segments(m) ==
  <<m.version, m.sensor, Number(m.mm), Number(m.battery), Number(m.amp1), Number(m.temp),
    Number(m.read_no), Number(m.last_sent)>>
WholeRaws(m) ==
  {Segments(m), <<Empty>> \o Segments(m), <<Empty>> \o Segments(m) \o <<Empty>>,
   <<Empty>> \o Segments(m) \o <<Number(1), Number(2)>>}
Cut(m, n) == <<Empty>> \o SubSeq(Segments(m), 1, n)
Garbled(m, i, g) == [(<<Empty>> \o Segments(m) \o <<Number(1)>>) EXCEPT ![i] = g]
CorruptRaws(m) == {Cut(m, n) : n \in 0..7} \cup {Garbled(m, i, g) : i \in 4..10, g \in Garbage}

(* A /read whose JSON says m and whose raw string says n, which need not   *)
(* be the same.  What is wrong with it is its raw string, its battery, or  *)
(* what is spoilt: the payload, which is no JSON, or a field, which is of  *)
(* another type.                                                           *)
Read(m, n, json, raw, battery, spoilt) ==
  [of |-> m, raw_of |-> n, json |-> json, raw |-> raw, battery |-> battery, spoilt |-> spoilt]
Reads(m, n) ==
  UNION {{Read(m, n, json, raw, battery, "nothing") :
            raw \in WholeRaws(n) \cup {Absent}, battery \in {Number(m.battery), Empty} \cup Garbage}
         \cup {Read(m, n, json, raw, Number(m.battery), "nothing") : raw \in CorruptRaws(n)}
         \cup {Read(m, n, json, Segments(n), Number(m.battery), spoilt) :
                 spoilt \in PayloadFields \cup {"payload"}} : json \in SUBSET JsonFields}
NoRead == CHOOSE m \in Measurements : TRUE
Idle == Read(NoRead, NoRead, JsonFields, Absent, Number(NoRead.battery), "nothing")

(* Words of a /log line: versions, and a MAC, braces, a word with a dot    *)
(* (-67.5), one with a dot and a colon, and an endless one.                *)
MCVersions == {[has |-> {"."}, len |-> 13], [has |-> {".", "_"}, len |-> 63]}
MCOthers == {[has |-> {":"}, len |-> 17], [has |-> {"{", ","}, len |-> 6], [has |-> {"."}, len |-> 5],
             [has |-> {".", ":"}, len |-> 20], [has |-> {"."}, len |-> 64]}
NoJson == [k \in {"v", "version", "fw", "ver"} |-> Absent]

(* A line is text, with the version at the place at, if anywhere, or JSON  *)
(* that names one; its words are apart by spaces or by other white space.  *)
Line(names, json, text, at, sep) ==
  [names |-> names, json |-> json, text |-> text, at |-> at, sep |-> sep]
Silent == Line(Absent, NoJson, <<>>, 1, " ")

OtherTexts == SeqOf(Others, MaxWords)
AllTexts == SeqOf(Versions \cup Others, MaxWords)
Separators == {" ", "tab"}
Naming(v) == [DOMAIN NoJson -> {v, Absent}] \ {NoJson}
Plain(t, sep) == Line(Absent, NoJson, t, Len(t) + 1, sep)
Around(v, before, after, sep) ==
  Line(<<v>>, NoJson, before \o <<v>> \o after, Len(before) + 1, sep)
Named(v, json, t) == Line(<<v>>, json, t, 1, " ")
PlainLines == {Plain(t, sep) : t \in OtherTexts, sep \in Separators}
VersionLines == {Around(v, before, after, sep) :
                   v \in Versions, before \in OtherTexts, after \in OtherTexts, sep \in Separators}
JsonLines(v) == {Named(v, json, t) : json \in Naming(v), t \in AllTexts}
Lines == PlainLines \cup VersionLines \cup UNION {JsonLines(v) : v \in Versions}

Init == /\ h = <<>> /\ cal \in Calibrations
        /\ \/ mv \in Millivolts /\ curve \in Curves /\ read = Idle /\ log = Silent
           \/ /\ mv = 3300 /\ curve = DefaultCurve
              /\ cal = (CHOOSE c \in Calibrations : TRUE)
              /\ \/ \E m, n \in Measurements : read \in Reads(m, n) /\ log = Silent
                 \/ read = Idle /\ log \in Lines

(* A reading arrives; the voltage and the curve are then of no interest.   *)
Record == /\ Len(h) < MaxLen
          /\ mv = 3300 /\ curve = DefaultCurve /\ read = Idle /\ log = Silent
          /\ \E l \in Levels, t \in Times : h' = Append(h, [ts |-> t, lvl |-> l])
          /\ UNCHANGED <<cal, mv, curve, read, log>>
Next == Record
Spec == Init /\ [][Next]_vars

-----------------------------------------------------------------------------
Abs(x) == IF x < 0 THEN -x ELSE x

(* calibration.rs:39-46: pct is in 0..100 and no other percentage is       *)
(* nearer to the exact fill level (empty - lvl) / (empty - full).          *)
PctIsNearest ==
  \A l \in Levels :
    LET span == Abs(cal.empty - cal.full)
        exact == 100 * (IF cal.empty > cal.full THEN cal.empty - l ELSE l - cal.empty)
    IN /\ Pct(l, cal) \in 0..100
       /\ span > 0 => \A p \in 0..100 : Abs(Pct(l, cal) * span - exact) <= Abs(p * span - exact)

(* calibration.rs:3-5: for a tank calibrated the right way round a smaller *)
(* distance never reads emptier, nor further from full.                    *)
CloserIsFuller ==
  cal.full < cal.empty =>
    \A k, l \in Levels : k <= l => /\ Pct(k, cal) >= Pct(l, cal)
                                   /\ LvlToFull(k, cal) <= LvlToFull(l, cal)

(* battery.rs:28-32: new drops no breakpoint and invents none, puts them   *)
(* in the order of their voltages, and keeps those of one voltage in the   *)
(* order in which they were given.                                         *)
NewSorts ==
  LET c == NewCurve(curve)
  IN /\ Len(c) = Len(curve)
     /\ \E p \in Bijection(DOMAIN curve, DOMAIN curve) :
          /\ \A k \in DOMAIN curve : c[k] = curve[p[k]]
          /\ \A k, l \in DOMAIN curve :
               k < l => \/ c[k][1] < c[l][1]
                        \/ (c[k][1] = c[l][1] /\ p[k] < p[l])

(* No breakpoint of a higher voltage, or of the same one and given later,  *)
(* has a lower percentage.                                                 *)
Rising(points) ==
  \A i, j \in DOMAIN points :
    (points[i][1] < points[j][1] \/ (points[i][1] = points[j][1] /\ i < j))
      => points[i][2] <= points[j][2]

(* battery.rs:3-7: whatever the order of the rising breakpoints handed to  *)
(* new, the curve is monotonic and stays between its end points.           *)
BatteryMonotone ==
  LET c == NewCurve(curve) IN
  Rising(curve) =>
    \A v \in Millivolts :
      /\ v <= mv => BatteryPercent(c, v) <= BatteryPercent(c, mv)
      /\ BatteryPercent(c, v) \in c[1][2] .. c[Len(c)][2]

(* The squared error of the line of slope p/q through the readings with    *)
(* its best intercept, times len(h) * q^2.                                 *)
Error(p, q) ==
  LET R(r) == q * r.lvl - p * r.ts
      RR(r) == R(r) * R(r)
  IN Len(h) * SumOver(h, RR) - SumOver(h, R) * SumOver(h, R)

(* history.rs:29-31: the fitted slope is a least-squares fit: no           *)
(* neighbouring slope has a smaller squared error.                         *)
SlopeIsLeastSquares ==
  Projects(h) => \A d \in {-1, 1} : Error(Sxy(h), Sxx(h)) <= Error(Sxy(h) + d, Sxx(h))

(* history.rs:29-31,75-77: while the surface is below full, the distance   *)
(* that closes at the fitted rate in daysLeft days is the distance to full,*)
(* to within half a day's fill; at or above full it is 0.                  *)
ProjectionReachesFull ==
  Projects(h) =>
    LET d == DaysLeft(h, cal.full)
        gap == h[Len(h)].lvl - cal.full
    IN IF gap <= 0 THEN d = 0
       ELSE 2 * Abs(gap * Sxx(h) + Sxy(h) * d * DaySecs) <= -Sxy(h) * DaySecs

(* history.rs:33-35,82-83: there is a projection exactly when there are    *)
(* two readings or more, every one at a time that is known and not all at  *)
(* one, and the tank fills: some line of falling distance fits them better *)
(* than the flat one.                                                      *)
ProjectsIffFilling ==
  Projects(h) <=> /\ Len(h) >= 2
                  /\ \A i \in DOMAIN h : h[i].ts # NoTime
                  /\ \E i, j \in DOMAIN h : h[i].ts # h[j].ts
                  /\ \E d \in 1..3 : Error(-d, Sxx(h)) < Error(0, Sxx(h))

-----------------------------------------------------------------------------
Payload ==
  LET m == read.of
      In(k, v) == CASE k = read.spoilt -> Mistyped
                    [] k # read.spoilt /\ k \in read.json \cup {"raw"} -> v
                    [] OTHER -> Absent
  IN [is_json |-> read.spoilt # "payload",
      version |-> In("version", m.version), sensor |-> In("sensor", m.sensor),
      read1 |-> In("read1", 10 * m.mm), battery |-> In("battery", read.battery),
      amp1 |-> In("amp1", m.amp1), temp |-> In("temp", m.temp),
      read_no |-> In("read_no", m.read_no), last_sent |-> In("last_sent", m.last_sent),
      raw |-> In("raw", read.raw)]
Whole == /\ read.spoilt = "nothing"
         /\ read.raw \in WholeRaws(read.raw_of) \cup {Absent}
         /\ "battery" \in read.json => read.battery = Number(read.of.battery)

(* reading.rs:3-7,123-124: the payload carries a measurement twice, and    *)
(* the two may disagree: each field decoded is the JSON's, in the same     *)
(* unit, and the raw string's where the JSON leaves it out; what the raw   *)
(* string says is kept beside them as it says it.  A payload that says     *)
(* nowhere its level, its battery or its sensor is refused.                *)
DecodesTheMeasurement ==
  Whole =>
    LET m == read.of
        n == read.raw_of
        r == ParseReading(Payload)
        Known(k) == k \in read.json \/ read.raw # Absent
        Said(k, v, w) == IF k \in read.json THEN v ELSE IF read.raw # Absent THEN w ELSE Absent
    IN IF \A k \in {"read1", "battery", "sensor"} : Known(k)
       THEN /\ r # Malformed
            /\ r.lvl = Said("read1", 10 * m.mm, 10 * n.mm)
            /\ r.battery_mv = Said("battery", m.battery, n.battery)
            /\ r.sensor = Said("sensor", m.sensor, n.sensor)
            /\ r.version = Said("version", m.version, n.version)
            /\ r.amp1 = Said("amp1", m.amp1, n.amp1) /\ r.temp = Said("temp", m.temp, n.temp)
            /\ r.read_no = Said("read_no", m.read_no, n.read_no)
            /\ r.last_sent = Said("last_sent", m.last_sent, n.last_sent)
            /\ IF read.raw = Absent THEN r.raw = Absent
               ELSE /\ r.raw.level_mm = n.mm /\ r.raw.battery_mv = n.battery
                    /\ r.raw.sensor = n.sensor /\ r.raw.version = n.version
                    /\ r.raw.amp = n.amp1 /\ r.raw.temp = n.temp
                    /\ r.raw.read_no = n.read_no /\ r.raw.last_sent = n.last_sent
       ELSE r = Malformed

(* reading.rs:78-81,97,120: a payload that is no JSON, a field of another  *)
(* type, a raw string that is cut or garbled, or a battery that is no      *)
(* number, spoils the whole payload: nothing half decoded reaches the      *)
(* history.                                                                *)
CorruptRefused == ~Whole => ParseReading(Payload) = Malformed

(* server.rs:284-285, onboard.rs:228-231: the onboarding modes learn the   *)
(* version a line means unless another word with a dot and no colon comes  *)
(* before it, and only then something else.  What serve echoes of the line *)
(* is what they learn of it or nothing, a MAC never, except where it takes *)
(* a line for one version whole: a single word with both a dot and a       *)
(* colon, or words that no space sets apart.                               *)
EchoesWhatIsLearned ==
  LET learned == FirmwareFromLog(log)
      echoed == ServeFirmware(log)
      Alike(w) == "." \in w.has /\ ":" \notin w.has /\ w.len < 64
  IN /\ learned = log.names <=> \A i \in DOMAIN log.text : i < log.at => ~Alike(log.text[i])
     /\ echoed \notin {learned, Absent} =>
          /\ echoed = log.text /\ \E w \in ToSet(log.text) : "." \in w.has
          /\ IF Len(log.text) = 1 THEN ":" \in log.text[1].has ELSE log.sep # " "
=============================================================================
