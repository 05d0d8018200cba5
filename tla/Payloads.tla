------------------------------ MODULE Payloads ------------------------------
(***************************************************************************)
(* What a device's payloads are decoded into: a /read (aquilo-core's       *)
(* reading.rs) and the firmware in a /log line, for which `serve` and the  *)
(* onboarding modes each have a parser of their own.                       *)
(*                                                                         *)
(* A string is known by whether it is empty, an integer or something else; *)
(* a JSON number that is an i64 is an integer, and null is Absent.  Levels *)
(* are in the unit of read1, 0.01 cm: the code's two divisions, by 100 and *)
(* by 10, round the same quotient.                                         *)
(***************************************************************************)
EXTENDS Integers, SequencesExt

CONSTANTS Absent,    \* Option::None
          Malformed, \* Err
          Mistyped   \* a JSON value of another type than the field's

Empty == [kind |-> "empty"]
Number(n) == [kind |-> "number", is |-> n]
Word(w) == [kind |-> "word", is |-> w]

(* str::parse::<i64> *)
ParseInt(s) == IF s.kind = "number" THEN s.is ELSE Malformed

(* Option::or, a JSON field before the raw string's. *)
OrElse(field, frame, k) ==
  CASE field # Absent                   -> field
    [] field = Absent /\ frame # Absent -> frame[k]
    [] OTHER                            -> Absent

-----------------------------------------------------------------------------
(* The k-th smallest of a set of indices. *)
Nth(S, k) == CHOOSE i \in S : Cardinality({j \in S : j <= i}) = k

(* RawFrame::parse, of the segments between the underscores: the empty     *)
(* ones are dropped, wherever they are.                                    *)
Parts(raw) ==
  LET kept == {i \in DOMAIN raw : raw[i] # Empty}
  IN [k \in 1..Cardinality(kept) |-> raw[Nth(kept, k)]]

RawFrame(raw) ==
  LET p == Parts(raw)
      num == [i \in 3..Len(p) |-> ParseInt(p[i])]
  IN IF Len(p) < 8 \/ \E i \in 3..Len(p) : num[i] = Malformed
     THEN Malformed
     ELSE [version |-> p[1], sensor |-> p[2], level_mm |-> num[3], battery_mv |-> num[4],
           amp |-> num[5], temp |-> num[6], read_no |-> num[7], last_sent |-> num[8],
           rest |-> [i \in 1..Len(p) - 8 |-> num[i + 8]]]

(* Bug: the raw string's level comes first. *)
LevelOfRawFirst(p, frame) ==
  CASE frame # Absent                     -> 10 * frame.level_mm
    [] frame = Absent /\ p.read1 # Absent -> p.read1
    [] OTHER                              -> Absent

(* read1, or the millimetres of the raw string. *)
LevelOf(p, frame) ==
  CASE p.read1 # Absent                   -> p.read1
    [] p.read1 = Absent /\ frame # Absent -> 10 * frame.level_mm
    [] OTHER                              -> Absent

BatteryOf(p, frame) ==
  CASE p.battery # Absent                   -> ParseInt(p.battery)
    [] p.battery = Absent /\ frame # Absent -> frame.battery_mv
    [] OTHER                                -> Absent

Decode(p, frame) ==
  LET lvl == LevelOf(p, frame)
      mv  == BatteryOf(p, frame)
      id  == OrElse(p.sensor, frame, "sensor")
  IN IF lvl = Absent \/ mv \in {Absent, Malformed} \/ id = Absent
     THEN Malformed
     ELSE [sensor |-> id, lvl |-> lvl, battery_mv |-> mv,
           version |-> OrElse(p.version, frame, "version"),
           read_no |-> OrElse(p.read_no, frame, "read_no"),
           last_sent |-> OrElse(p.last_sent, frame, "last_sent"),
           amp1 |-> OrElse(p.amp1, frame, "amp"),
           temp |-> OrElse(p.temp, frame, "temp"),
           raw |-> frame]

(* serde_json::from_slice: of a payload that is no JSON object, or of one  *)
(* with a field of another type than the struct's, nothing is read.        *)
PayloadFields ==
  {"sensor", "version", "read1", "battery", "read_no", "last_sent", "amp1", "temp", "raw"}
Deserializes(p) == p.is_json /\ \A k \in PayloadFields : p[k] # Mistyped

(* Bug: a raw string that does not parse counts as none. *)
ParseReadingLeniently(p) ==
  LET frame == IF p.raw = Absent THEN Absent ELSE RawFrame(p.raw)
  IN IF Deserializes(p) THEN Decode(p, IF frame = Malformed THEN Absent ELSE frame) ELSE Malformed

(* Reading::parse: a raw string that does not parse fails it, whatever the *)
(* JSON fields say.                                                        *)
ParseReading(p) ==
  LET frame == IF p.raw = Absent THEN Absent ELSE RawFrame(p.raw)
  IN IF ~Deserializes(p) \/ frame = Malformed THEN Malformed ELSE Decode(p, frame)

-----------------------------------------------------------------------------
(* A log line: the JSON fields that may name a version, and the text as    *)
(* its words, with what separates them.  A word is known by the characters *)
(* the parsers look for and by its length.  A version found is a sequence  *)
(* of words.                                                               *)
VersionKeys == <<"v", "version", "fw", "ver">>

(* The first of the fields that is a string. *)
FromJson(line) ==
  LET named == {i \in DOMAIN VersionKeys : line.json[VersionKeys[i]] # Absent}
  IN IF named = {} THEN Absent ELSE <<line.json[VersionKeys[Min(named)]]>>

(* The words, and what separates them. *)
TextLength(words) == SumFunction([i \in DOMAIN words |-> words[i].len]) + Len(words) - 1

(* Bug: a line is echoed as far as its first space. *)
ServeFirmwareFirst(line) ==
  CASE FromJson(line) # Absent                     -> FromJson(line)
    [] FromJson(line) = Absent /\ line.text # <<>> -> <<line.text[1]>>
    [] OTHER                                       -> Absent

(* parse_firmware of serve: a trimmed text with a dot, and without a       *)
(* space, a brace or a comma, is a version as a whole.                     *)
ServeFirmware(line) ==
  LET words == ToSet(line.text)
      versionLike == /\ \E w \in words : "." \in w.has
                     /\ \A w \in words : w.has \cap {"{", ","} = {}
                     /\ Len(line.text) > 1 => line.sep # " "
                     /\ TextLength(line.text) < 64
  IN CASE FromJson(line) # Absent -> FromJson(line)
       [] FromJson(line) = Absent /\ versionLike -> line.text
       [] OTHER -> Absent

(* firmware_from_log of the onboarding modes: the first word with a dot    *)
(* and without a colon, which a MAC has.                                   *)
FirmwareFromLog(line) ==
  LET Like(w) == "." \in w.has /\ ":" \notin w.has /\ w.len < 64
      likes == {i \in DOMAIN line.text : Like(line.text[i])}
  IN CASE FromJson(line) # Absent -> FromJson(line)
       [] FromJson(line) = Absent /\ likes # {} -> <<line.text[Min(likes)]>>
       [] OTHER -> Absent
=============================================================================
