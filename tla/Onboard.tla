------------------------------ MODULE Onboard -------------------------------
(***************************************************************************)
(* What the two onboarding modes share (aquilo-server/src/onboard.rs): the *)
(* facts collected about a device, when they suffice, and the writing of   *)
(* config.toml and the initial state file.                                 *)
(*                                                                         *)
(* A value is known by where it came from: the device d itself, FromCloud, *)
(* or Chatter[d], a word with a dot and no colon in a log line of d that   *)
(* is not its version.  client_id goes nowhere and is left out.            *)
(***************************************************************************)
EXTENDS Integers, Sequences

CONSTANTS Devices, FromCloud, Chatter,
          Scripts,   \* what a device sends when it connects, in order
          OddScripts, \* the same, of one that names no user or no firmware
          Replies,   \* the orders in which the cloud delivers what it retains
          Escapes,   \* <<field, value>>: the text holds a quote or backslash
          None,      \* Option::None, no file
          Default,   \* the documented default of an optional field
          Misread,   \* what TOML makes of a text that was not escaped
          Torn,      \* a config.toml cut short by a failing write
          MaxFaults  \* bound on failing writes, lost connections and restarts

(* A CONNECT; one without user and password; a log line that names the     *)
(* version, one that holds another such word before it, one that holds     *)
(* neither; "close" is the end of the device's stream.                     *)
Packets == {"connect", "anonymous", "log", "chatter", "text", "subscribe",
            "read", "ping", "disconnect", "close"}
(* A /state of a sensor, of one without id and name, of none; radarParams, *)
(* and one with skip alone.                                                *)
CloudPackets == {"version", "state", "stateBare", "stateEmpty", "radarParams", "radarSkip"}

Value == Devices \cup {FromCloud} \cup {Chatter[d] : d \in Devices}

ASSUME OnboardAssumption ==
  /\ MaxFaults \in Nat
  /\ Scripts \cup OddScripts \subseteq Seq(Packets) /\ Replies \subseteq Seq(CloudPackets)
  /\ None \notin Packets
  /\ FromCloud \notin Devices /\ \A d \in Devices : Chatter[d] \notin Devices \cup {FromCloud}
  /\ Value \cap {None, Default, Misread, Torn} = {}
  /\ None \notin {Default, Misread, Torn} /\ Default # Misread

VARIABLES facts,    \* struct Facts
          written,  \* the outputs have been written
          config,   \* config.toml
          state,    \* state.json
          faults    \* counts for MaxFaults
outputs == <<written, config, state, faults>>

Optional == {"name", "skip", "repeat"}
Field == {"rid", "user", "pass", "firmware", "sensor", "seed"} \cup Optional
NoFacts == [k \in Field |-> None]
Config == {c \in [Field -> Value \cup {Default}] :
             \A k \in Field \ Optional : c[k] # Default}
StateFile == [{"sensor", "name", "seed"} -> Value \cup {Default, Misread}]

OnboardTypeOK ==
  /\ facts \in [Field -> Value \cup {None}]
  /\ written \in BOOLEAN
  /\ config \in Config \cup {None, Torn}
  /\ state \in StateFile \cup {None}
  /\ faults \in 0..MaxFaults

-----------------------------------------------------------------------------
(* A device opens a connection.  One in which it does not name itself or   *)
(* its firmware counts as a fault.                                         *)
Opening(sent) == \/ sent \in Scripts /\ UNCHANGED faults
                 \/ sent \in OddScripts /\ faults < MaxFaults /\ faults' = faults + 1

(* Bug: what comes later takes the place of what was known. *)
RecordLatest(f, keys, value) == [k \in Field |-> IF k \in keys THEN value ELSE f[k]]

(* Option::get_or_insert of some fields: the first value stays. *)
Record(f, keys, value) ==
  [k \in Field |-> IF k \in keys /\ f[k] = None THEN value ELSE f[k]]

(* apply_device_connect and apply_device_publish; firmware_from_log takes  *)
(* the first word of a line that looks like a version.                     *)
ApplyDevice(f, d, packet) ==
  CASE packet = "connect"   -> Record(f, {"rid", "user", "pass"}, d)
    [] packet = "anonymous" -> Record(f, {"rid"}, d)
    [] packet = "log"       -> Record(f, {"firmware"}, d)
    [] packet = "chatter"   -> Record(f, {"firmware"}, Chatter[d])
    [] packet = "read"      -> Record(f, {"sensor", "name", "seed"}, d)
    [] OTHER                -> f

(* apply_cloud_publish and apply_cloud_state. *)
ApplyCloud(f, packet) ==
  CASE packet = "version"     -> Record(f, {"firmware"}, FromCloud)
    [] packet = "state"       -> Record(f, {"sensor", "name", "seed"}, FromCloud)
    [] packet = "stateBare"   -> Record(f, {"seed"}, FromCloud)
    [] packet = "radarParams" -> Record(f, {"sensor", "skip", "repeat"}, FromCloud)
    [] packet = "radarSkip"   -> Record(f, {"skip"}, FromCloud)
    [] OTHER                  -> f

(* Bug: the firmware is not waited for. *)
CompleteWithoutFirmware(f) == \A k \in Field \ (Optional \cup {"firmware"}) : f[k] # None

(* is_complete: the optional fields have a default. *)
IsComplete(f) == \A k \in Field \ Optional : f[k] # None

(* Bug: what is missing has no default. *)
RenderConfigBare(f) == f

(* render_config: each value, as it is, between quotes. *)
RenderConfig(f) ==
  [k \in Field |-> IF k \in Optional /\ f[k] = None THEN Default ELSE f[k]]

(* The first state of a configuration. *)
InitialState(c) == [k \in {"sensor", "name", "seed"} |-> c[k]]

(* Config::load of what render_config wrote: what would have needed an     *)
(* escape makes it refuse the file or reads as something else.  A config   *)
(* cut short is taken to be refused; cut after its last mandatory line it  *)
(* would load, with defaults.                                              *)
Plain(c) == \A k \in Field : <<k, c[k]>> \notin Escapes
Loads(c) ==
  IF c \notin Config THEN {None}
  ELSE IF Plain(c) THEN {c}
  ELSE {None, [k \in Field |-> IF <<k, c[k]>> \in Escapes THEN Misread ELSE c[k]]}

(* One of the two writes of write_outputs fails; a failing fs::write may   *)
(* leave the config cut short, a failing save leaves the state file alone. *)
WriteFails(f) ==
  /\ faults < MaxFaults /\ faults' = faults + 1
  /\ config' \in {config, Torn, RenderConfig(f)}
  /\ UNCHANGED state

WriteOutputs(f) ==
  /\ config' = RenderConfig(f)
  /\ state' = InitialState(RenderConfig(f))
  /\ UNCHANGED faults

(* Bugs: a failed write is not retried; the outputs are written again. *)
MaybeFinalizeOnce(f) ==
  IF ~IsComplete(f) \/ written THEN UNCHANGED outputs
  ELSE written' = TRUE /\ (WriteOutputs(f) \/ WriteFails(f))
MaybeFinalizeAgain(f) ==
  IF ~IsComplete(f) THEN UNCHANGED outputs
  ELSE \/ WriteOutputs(f) /\ written' = TRUE
       \/ WriteFails(f) /\ written' = written

(* maybe_finalize: on a failure a later packet retries.  The handler is    *)
(* not interrupted, so written.swap and written.store are one step.        *)
MaybeFinalize(f) ==
  IF ~IsComplete(f) \/ written THEN UNCHANGED outputs
  ELSE \/ WriteOutputs(f) /\ written' = TRUE
       \/ WriteFails(f) /\ written' = FALSE

OnboardInit == /\ facts = NoFacts /\ written = FALSE
               /\ config = None /\ state = None /\ faults = 0

-----------------------------------------------------------------------------
(* onboard.rs:377-383: `written` stays set only if both files are whole    *)
(* and were made from the same complete facts.                             *)
WrittenMeansBoth ==
  written => /\ config \in Config
             /\ state = InitialState(config)
             /\ IsComplete(config)

(* onboard.rs:366-368: once written, in this run of the program, neither   *)
(* file is touched again, whichever direction completes the facts next.    *)
WrittenOnce == [][written /\ written' => UNCHANGED <<config, state>>]_<<written, config, state>>
=============================================================================
