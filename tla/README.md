# A verification project for aquilo-offline

`aquilo-offline` replaces the vendor's cloud of a septic-tank level sensor. Its
program has three modes: `serve` computes and publishes the device's state over
MQTT, `learn` and `observe` find out how a device is configured. This directory
holds TLA+ models of the program, TLC configurations that check them on small
instances, and TLAPS proofs.

Paths are relative to the repository; `server.rs`, `onboard.rs`, `mqtt_wire.rs`,
`broker.rs`, `config.rs` are in `aquilo-server/src`, `lib.rs` is
`aquilo-store/src/lib.rs`, the others are in `aquilo-core/src`.

## 1. Inventory

| Component | State | Operations | Modules |
| --- | --- | --- | --- |
| formulas: `calibration.rs`, `battery.rs`, `history.rs` | none | `pct`, `lvl_to_full`, `BatteryCurve`, `is_pump_out`, `days_left` | `Formulas`, `FormulasProofs`, `MCFormulasProofs` |
| state computer: `state.rs` | none | `SensorState::compute`, `to_json` | in `Tank` |
| reading parser: `reading.rs` | none | `Reading::parse`, `RawFrame::parse` | `Payloads` |
| store: `lib.rs` | `state.json`, its temp file | `load`, `save` | `AtomicStore`, `JsonStore`, `JsonStoreProofs` |
| serve runtime: `server.rs`, `config.rs` | `Runtime`: current state, history, `lst_empty` | `load_runtime`, `seed_runtime`, `apply_reading`, `persist` | `Tank`, `TankProofs` |
| serve loop: `server.rs` | request channel, MQTT session | `run`, `seed_retained`, `handle_publish`, `handle_read`, `spawn_ping`, `parse_firmware` | `Custody`, `Serve`, `ServeProofs`, `CustodyProofs` |
| embedded broker: `broker.rs` (or Mosquitto) | retained messages, sessions | external | in `Serve` |
| onboarding facts: `onboard.rs` | `Facts`, `written`, two files | `apply_*`, `is_complete`, `maybe_finalize`, `write_outputs` | `Onboard`, `Onboarding`, `OnboardingProofs` |
| `learn`: `onboard.rs` | one proxied connection | `run_learn`, `proxy_connection` | `Learn`, in `Onboarding` |
| `observe`: `onboard.rs` | one served connection | `run_observe`, `observe_connection`, `seed_retained` | `Observe`, in `Onboarding` |
| mode and configuration: `main.rs`, `config.rs` | `config.toml` | choice of a mode, `Config::load` | partly, in `Onboarding` |
| codec: `mqtt_wire.rs` | `Decoder.buf` | `push`, `decode_*`, encoders | `Wire`, `WireProofs` |
| TOML and arguments, topics, clock | none | parsing, templates | not modelled |
| add-on packaging, capture scripts | | | not modelled |

**How they interact.** One task runs `serve`'s loop: it polls the MQTT client's
event loop and handles each event to the end. A reading goes through the parser
to `apply_reading`, which asks the formulas; the new runtime is saved to the store
and then its state is handed to the client. Handlers and the ping task hand
their requests to the client through a channel of 64 slots, which only polling
empties. The broker keeps the three retained messages (`/version`,
`radarParams`, `/state`) and passes them to the device. `learn` and `observe`
run instead of `serve`; they feed the bytes of a connection through the codec
into `Facts` and write, once, the two files that `serve` starts from. A user runs
the modes one after the other, over the same files, in whatever order.

**What is hard.** A loop that waits on a channel it empties itself; reconnects
at any point, with or without the broker having forgotten everything; crashes
and power losses between a save's system calls and between a save and a
publication; failing saves that are only logged; a configuration that changes
between restarts while persisted values do not; a clock that jumps; two
directions of a proxied connection that are dropped together; facts that arrive
in any order from two sources and several devices; two output files of which one
may be cut short or left from an earlier run; payloads that say one thing twice,
in JSON fields and in a raw string; bytes cut into reads anywhere. The list is in
`PROJECT.json` under `hazards`, each at its line.

**What makes each component correct.** The formulas agree with their textbook
definitions, at the degenerate inputs too. The store is never torn and does what
it answers. The runtime's state, history and baseline tell one story, in memory
and on disk. The loop restores the retained set on every connection, never shows
the device an older state or a foreign firmware, and never publishes what a
crash of the process could make it forget (a power loss of the host can: the
rename is not synced). Onboarding writes both files from one consistent set of
facts, once, in the end, and `serve` then starts from just those, if no value
needed an escape in TOML. Of a payload the JSON fields count, then the raw string,
and a corrupt one is refused. The codec is indifferent to how the stream was cut.

## 2. Modules

```
AtomicStore <-- JsonStore (implements)        Custody <-- Serve (implements)
     ^                                        (a /state is a number; its content is Tank's)
     |
   Tank --> Formulas

 Onboard <-- Learn ---.
    ^ ^                +--< Onboarding        Wire     (the packets of Learn and Observe
    | '----- Observe -'         |                       come out of it)
    '---------------------------'             Payloads (what is in a /read and a /log)
```

- **`Formulas`** has levels and distances as integers in the device's own
  unit, times as integers; quotients are exact and rounded where the code rounds
  (`RoundDiv` is `f64::round`, `AsInt` is `as i64`). A zero span gives what
  the code's infinities and NaN give. Floating-point error itself is abstracted.
- **`Payloads`** has `Reading::parse` and `RawFrame::parse` on payloads that are JSON or
  not, whose fields are present, absent or of another type (`Deserializes`, what serde
  refuses), and whose raw string is whole, cut or garbled and need not say what the
  JSON says; a string is the sequence of its segments, a segment is empty, an
  integer or a word. It also has both parsers of a firmware announcement, that of
  `serve` and that of onboarding, on the same lines: a word is known by the
  characters the parsers look for and by its length.
- **`AtomicStore`** is the promise of the store: a register replaced whole, whose
  last replacements a power loss may undo. **`JsonStore`** has one action for each
  system call of `save` (`Create`, `Write`, `SyncAll`, `Rename`, each of which
  may fail), with `Crash`, `PowerLoss` and the journal's `Commit` at any time. The
  directory is not synced by the code, so a rename becomes durable with `Commit`.
- **`Tank`**: `BootLoaded`, `BootSeeded` (the two outcomes of `load_runtime`, each
  with the `persist` that follows it), `HandleRead` (`apply_reading` and `persist`,
  which may fail), `Crash`, `PowerLoss`, `Flush`, `Reconfigure` between runs. It
  saves to an instance of `AtomicStore`. `BootSeeded` may happen whatever is on
  disk: it is also the outcome of an unreadable file. Identity, names and the
  battery are left out: they are carried through.
- **`Custody`** is what `serve` promises of a state (`server.rs:5-9`): it is on disk
  before anybody is shown it, and what the broker and the device are shown moves
  only forward, until the disk fails. It has six actions: a newer state becomes
  known, it is saved or not, the program restores what was saved or starts
  without, outlets are shown something.
- **`Serve`** implements it. `Boot` is what every start of the process does; `Start` reads
  the file, `StartUnreadable` seeds from the configuration where it cannot be read. `todo`
  holds the awaits the running handler has before it, one `Enqueue` or `Persist` each; the
  loop polls (`ConnAck`, `SendRequest`, `HandleRead`, `HandleLog`, `ConnLost`) only when
  `todo` is empty, as the one task does. The environment is `PingTick`, crashes, broken
  sessions, a broker that stops and forgets, a device that connects, drops and reads. A
  crash is one of the process: it leaves the file as it is. The power losses that undo a
  save are in `JsonStore` and `Tank`. What the client library does is modelled from its use:
  a lost connection drops what the channel holds; failed connection attempts leave it there.
- **`Onboard`** has the facts, each known by its origin: a device, the cloud, or
  `Chatter[d]`, a dotted word in a log line of `d` that is not its version, which
  `firmware_from_log` takes all the same. `MaybeFinalize` has writes that may fail or leave
  a file cut short; `get_or_insert` is `Record`. `Escapes` are the values whose text holds a
  quote or a backslash; `Loads` is what `Config::load` makes of a config with one: nothing,
  or something else than was written. A device may also connect without a user
  (`OddScripts`), which counts as a fault. **`Learn`** and **`Observe`** are the two modes
  around it. In `Learn` each direction reads and forwards (an await), then tees; the two
  interleave between, and `TearDown` drops what either holds. `Observe` serves one
  connection, chunk by chunk, and seeds at a chunk's end.
- **`Onboarding`** composes them as `main.rs` runs them: the program ends at any time and is
  run again in another mode (`Onboard(m)`, a fault, since a user waits for the
  end) or as `serve`, whose start reads both files (`Config::load`,
  `load_runtime`). What a mode held in memory is gone, the files stay. An instance
  of `Learn` and one of `Observe` share the facts, the files and the one connection there
  is at a time.
- **`Wire`** has the decoder as the code has it, on real bytes, and the encoders; `Lossy`
  is `String::from_utf8_lossy`, character by character. A peer's
  stream is a sequence of items, each with the packet it means; `Push` is `Decoder::push`
  of whatever a read returned.

Definitions named after a bug ("Bug: ..." in their comment) are not part of the
models: each is put in the place of the definition below it to show that a
property notices.

## 3. Runs

Constants not named here only say what the levels, the times, the firmware
strings are.

| Run | Shows | Bounds, and why they suffice |
| --- | --- | --- |
| `formulas` | each formula equals its reference definition, and there is a projection exactly when the tank fills; `new` sorts the curve; of a payload each field is what the JSON says, else what the raw string says, or all is refused; the two firmware parsers learn different versions of a line in two named cases only | three kinds of input, apart from each other. Histories up to 3 readings over 4 levels and 4 times (equal, decreasing and unparseable ones included), distances that are equal or inverted, four curves: sorted, unsorted, with doubles, not rising. Payloads of two measurements, one in the JSON and the same or the other in the raw string: any set of JSON fields, each in turn of another type, no JSON, raw strings whole, short, with a word for a number, with empty segments at their ends. Log lines: one of two versions with up to two other words (`MaxWords`) before and after it, no version, JSON that names one in any of its fields, words apart by spaces or not; the other words have a dot, a colon, both, braces or too many characters |
| `json_store` | never torn, Ok means stored, refinement of `AtomicStore` | 3 values: one on disk, one in the cache, one being saved. No other bound |
| `tank` | state, history and baseline stay together; restarts change nothing; the cap holds; `lstEmpty` dates the last pump-out in the history | two configurations, with histories of 2 records or none and the baseline unset or set; 3 readings, so that a history fills, trims and is restored between; three levels, one above the full mark, that make falls and rises, one fall just at the threshold; three times, in any order |
| `tank_recalibrated` | violation, see disagreement 2 | |
| `tank_since_empty` | violation, see disagreement 3 | |
| `serve` | a published state is stored, no state regresses, no foreign firmware; the loop implements `Custody`; every connection is seeded and subscribed, the device converges, no handler waits for its own task | both deployments, 2 readings, 2 faults (so a fault during the recovery from a fault), 2 publishes under way, 1 ping; 12 slots: the ping, the six requests of a seed and room for what the readings and log lines within the bounds ask for |
| `serve_wedge` | violation, see disagreement 1 | a channel of 7, 2 pings |
| `serve_log_line` | violation, see disagreement 4 | |
| `onboarding` | both files are written in the end, once, from one set of facts that nothing heard later contradicts; `observe` tells a device the version its own log named first and describes one device; `serve` run after a completed onboarding starts, with what that recorded, unless a value needed an escape | 2 devices that connect in turn, so that the facts of one meet those of the other; 2 faults (writes that fail or are cut short, broken connections, devices that vanish, name no user or no firmware, reruns in another mode), so a rerun after a failure; four ways a device talks, with the version first, late, after another dotted word, after a reading; the cloud's messages in three orders, some without the fields they may lack; a password of one device and a name of the cloud's that need an escape. 499,914 states |
| `learn_radar` | violation, see disagreement 5 | 1 device, no faults |
| `learn_firmware` | violation, see disagreement 6 | 1 device, no faults |
| `wire` | each item by itself is read as the packet it means (`DecodesWhole`); the packets decoded from a stream are those sent; what is held back is the incomplete one; no malformed length is waited for | seven streams, among them one of texts in UTF-8 of two to four bytes and of texts that are none (a stray byte, a character cut short, one too long, a surrogate, one past the last); every way of cutting them into reads, connections that end at any byte |

`MaxReads`, `MaxFaults`, `MaxPings` and `InboxCap` are the bounds of the counters
that have none in the code. The channel's 64 slots are `ChanCap`: the loop cannot
wait on itself (`NeverWedged`) if there are slots for the pings of the longest outage and
for the other requests that may wait. Nothing in the code says in which order `poll` sends
and receives, so the model lets it receive all there is first, and a flood of
readings could fill any channel. `NeverWaitsForItself` therefore says it of a `poll` that
takes in no publish while `most` requests wait, six or more (`Prompt(most)`): then
`MaxPings + most <= ChanCap` is enough, for any number of readings, faults and restarts
(proved). In the run the bounds on readings and faults limit what can wait instead:
with 9 slots nothing waits, with 8 it does. With 7 and two pings it does in
`serve_wedge`. In the program 64 slots and
a ping every 1200 s fill up after some 19 hours of outage, with
`ping_interval_secs = 1` after a minute.

Deadlock is checked except where the system may really stop: `formulas` has
no behaviour of its own (a state is an input); in `serve_wedge` the loop is stuck
and the faults are used up; in `onboarding` a device that vanished leaves
`observe` waiting for ever, and so does one that is connected and names no user; of
`serve` only the start is there.

**Fairness.** `Serve`: weak fairness of the loop's own steps only (the runtime
schedules the task; `poll` serves requests and incoming packets alike).
Nothing is assumed of the broker, the device, the ping timer, or whoever restarts
the process; the liveness properties are about what follows once they are
there. `Onboarding`: weak fairness of the program's steps, and of a
device that connects again and goes on talking, as `README.md:254-265` describes it.
Failures are finitely many (`MaxFaults`); without that no retry could be
promised to succeed.

### Disagreements with what the code says of itself

1. **`serve_wedge`**: the loop waits on its own channel. After an outage long
   enough for the pings to fill the channel, the `ConnAck` handler waits for a slot
   and never polls again: no retained message, no reconnection, until a restart
   (`server.rs:95-96,108`). That it stays so is proved (`WedgesForGood`).
2. **`tank_recalibrated`**: the first reading after a recalibration is compared with a
   percentage of the old calibration (`config.rs:40-41`, `history.rs:21-24`).
3. **`tank_since_empty`**: `daysLeft` is fitted to the whole history, not to the readings
   since `lstEmpty` (`README.md:303`).
4. **`serve_log_line`**: a log line that holds version and MAC teaches `serve` nothing,
   though `onboard.rs` parses the same line (`README.md:253-254`).
5. **`learn_radar`**: the config is written before the cloud's `radarParams` arrive, with
   defaults, and never again (`README.md:101-102`).
6. **`learn_firmware`**: the cloud's `/version` is kept if it comes before the device's log
   line, although the comment calls it a fallback, and may be another than the device runs
   (`Record`; `onboard.rs:139-140`).

More is visible in the models and has no run of its own, since nothing in the
repository says otherwise or a property says what the code does instead:

- `Serve`: a reconnect publishes the configured firmware over the one the device
  reported and was echoed (`SeedSteps`; `server.rs:284-285`). That no other
  version is sent (`NoOTA`) is therefore said only where the configured one is the
  device's: there the types of `Serve` say it (`TypeOK`, and `NeverOTA` by proof).
- `Onboard`: a reading that comes before the cloud's `/state` becomes the seed, although
  the comment calls the cloud's authoritative (`Record`; `onboard.rs:181`).
- `Learn`: facts of two devices that connect before the first is complete are merged,
  since they are kept across connections; `OneDevice` is said of `observe` only, which
  starts each connection with none. And an onboarding that is run again replaces a
  state file that `serve` has filled with one whose history is empty (`WriteOutputs`).
- `Payloads`, `Onboard`: the first word of a log line with a dot and no colon is taken for
  the version, `-67.5` too (`FirmwareFromLog`, `Chatter`; `onboard.rs:240-243`).
  `EchoesWhatIsLearned` says when that happens; `ToldItsOwn` says that `observe` tells the
  device this very word, which need not be its version.
- `Onboard`: values go into `config.toml` unescaped (`RenderConfig`; `onboard.rs:261-296`),
  so a quote or backslash in a password or name makes `serve` refuse the file or read
  another value.
- `Wire`: a password that is not UTF-8 is decoded, and written to the config, as its lossy
  text (`TextIf`; `mqtt_wire.rs:164`).
- `Observe`, `Learn`: a CONNECT without a user fills the receiver id alone, and the mode
  waits for a user as long as that device stays (`ApplyDevice`; `onboard.rs:91-103`,
  `Unnamed` in `Completes`).

## 4. Proofs

TLAPS checks the theorems for every value of the constants.

- **`FormulasProofs`**: `RoundDiv` is the nearest integer, and of two as near the one away from
  zero; `Pct` is within 0..100 for every
  calibration, and monotone for one the right way up; a sorted curve of any length gives
  percentages between its ends that do not fall (`BatteryPercentMonotone`). Then what the
  projection rests on: the sum of a function over a finite set. `Sum` is a fold, a
  recursion over chosen elements; that it exists, does not depend on the choice and is
  linear is shown by induction on the set's size (`SumIs`, `SumRec`, `SumLinear`). From it,
  `Residuals`: the squared error of any line through a history is a quadratic form in the
  four sums that `days_left` collects.
- **`MCFormulasProofs`**: all properties of the `formulas` run, for any values: levels,
  distances, voltages, times, histories of any length; breakpoints of any number and order;
  measurements, garbage and the words of a log line. `LeastSquares` completes the square in
  the quadratic form: the slope the code computes in one pass is that of the line with the
  least error, since the variance of the times is positive where not all are equal.
  `ProjectionIffFilling` says when there is a projection, in both directions: a falling line
  fits better than the flat one exactly when the fitted slope falls (`FallingIsBetter`).
  `ProjectionIsExact` says that it is the nearest number of days. `CurvesAreSorted` counts:
  the place of a breakpoint is the number of those not after it, no two have the same one
  (`PlaceFacts`), and a one-to-one function of a finite set into itself is onto; so the
  places are a permutation. `BatteryNeverFalls` needs no more than that the percentages rise
  with the voltages. For the payloads, `PartsOf` says what is left of a raw string wherever
  its empty segments are, `RawCarriesTheMeasurement` and `CorruptFails` what
  `RawFrame::parse` makes of a whole one and of one cut or garbled anywhere; with the case
  of each field, `DecodeOf`, they give `ReadingIsTheMeasurement` and `CorruptIsRefused`. The
  JSON and the raw string may carry different measurements throughout. `EchoIsLearned` is
  the claim about the two firmware parsers for any words, with texts of any length
  (`MaxWords`) around the version; the cases in which they differ, or learn what is no
  version, are in the statement. Assumed of the constants: `Scale, DaySecs \in Nat \ {0}`,
  the values are integers, no curve is empty; `Absent`, `Malformed` and `Mistyped` are no
  value; garbage is no integer; a version has a dot, no colon and none of what JSON has, and
  is shorter than 64. Of the other words nothing is assumed but that they are others.
- **`JsonStoreProofs`**: type correctness, `NeverTorn`, `OkMeansStored`, and that `JsonStore`
  implements `AtomicStore`. `NeverTorn` is not inductive: that `Rename` puts a whole
  file in place rests on what the temp file is at each step of a save. `InSave` says
  so (before the fsync it holds the argument, before the rename it is synced too),
  and the inductive invariant is `TypeOK` (with `InSave`) and `NeverTorn` and
  `OkMeansStored` together. In the refinement `Rename` is `Save`, `Commit` is `Flush`,
  `PowerLoss` is `PowerLoss`, all else stutters; a power loss maps to one because
  the durable entry is whole.
- **`TankProofs`**: type correctness (with `pct` in 0..100 and `daysLeft` never negative),
  `StateMatchesHistory`, `ShownBaseline`, `RestartTransparent`, `CapHonoured`,
  `LatestPumpOut`, `ResetOnlyOnAFall`. Each is proved from an invariant that says the same
  of three places at once, memory, disk and what a power loss brings back, since a restart
  turns one into another: that each snapshot is coherent with itself; for
  `RestartTransparent`, that while `saved` holds the disk has what memory has; for
  `LatestPumpOut`, that a snapshot's last percentage is that of the last reading in its
  history, which is what makes the comparison in `apply_reading` the one between consecutive
  readings. The last two theorems assume that all configurations share calibration and
  threshold (`SameDetection`), and the last one a calibration the right way up with a
  positive threshold (`Upright`): without them they fail, as `tank_recalibrated` shows.
- **`ServeProofs`**: `PublishedIsStored`. It needs what relates the whole pipeline from
  reading to device: that readings wait in order and are newer than all that is known
  (`ReadingsOrdered`), so that no handler makes the state older; that a handler
  publishes the current state only, and persists before it does (`HandlerForm`); that
  nothing waits while the process is down (`Offline`), so that a restart, which may
  go back to an older stored state, meets no reading of before; and that outside a
  handler about to persist the disk has the current state (`Settled`). `OrderInv` is
  their conjunction. Type correctness, from which it follows that the device is sent no version
  but its own when that one is configured (`NoOTA`): all that reaches the channel
  is the configured version or one parsed from the device's log. And `WedgesForGood`:
  nothing but a crash changes what the wedged handler waits for, since polling alone
  empties the channel and the task that polls is the one waiting. `NeverWedged`,
  under the hypothesis of §3: `RoomInv(most)` counts what waits besides the pings (`Load`)
  and what the running handler has still to ask for (`Due`); their sum stays within
  `most`. A seed is six requests and meets an empty channel, since without a session nothing
  but pings waits (what losing the pending requests with the session gives); a publish
  that is taken in asks for one at most, and is taken in only where `Prompt(most)`
  leaves a slot for it.

- **`CustodyProofs`**: `StateNeverRegresses`, and that `Serve` implements `Custody`. The invariant
  is about the pipe, the channel followed by what the running handler has still to
  do, so that handing a request over does not change it. States leave the pipe in
  order and are none newer than the current one (`InOrder`); what the broker
  retains, and what the device shows, is behind all of them (`BrokerBehind`,
  `DeviceBehind`). That alone is not inductive: after a failed save and a crash the
  loop restarts from an older state and may really go back. It holds again when the
  disk does: a reading newer than all that was sent is waiting or being persisted
  (`Recovered`). Such a reading is heard only by a session that is subscribed, and the
  seed goes before the subscription: where the subscription has been sent, or
  is to be with no state before it (`Seeded`), the broker is behind the pipe. And
  without a session nothing waits in the pipe but pings (`DownIdle`), which is why a
  new session's seed is not overtaken. In the refinement `HandleRead` is `Learn`, `Persist`
  is `Save` or `SaveFails`, `Start` and `StartUnreadable` are `Restore` and `RestoreNothing`, and
  all else is `Show`, where what is shown has left the pipe.
- **`OnboardingProofs`**: type correctness and the six safety properties of `onboarding`, for any
  devices, scripts and orders, any number of faults, and modes run in any order. Every
  step does one of few things to facts and files (`StepEffects`): it keeps them, it
  tells the facts something and may finalize (`Tells`), or it forgets them with what was
  written. The inductive invariant has, besides the types, what is held in each mode
  (`HoldsInMode`): what one mode holds is gone when another runs, without which a
  connection of an earlier run could speak for this one, and in `observe` a fact is
  the connection's own device's or none, from which `OneDevice` and `ToldItsOwn` follow; and
  that `written` means that both files are whole and of one set of complete
  facts (`WrittenMeansBoth`). `ConfigAgrees` rests on the latter: what is complete is not
  overwritten by `Record`. So does `ServesWhatWasLearned`, where `Loads` of a whole and plain
  config is that config, so that `serve` cannot refuse it. Nothing is assumed of which
  devices chatter or which values need an escape; only that `None` is no runtime
  (`NothingAssumption`).

- **`WireProofs`**: the decoder and its encoders, for any items, bytes and reads. Four
  definitions are recursive functions (`Drain`, `Varint`, and the fold and the function
  inside `FlattenSeq`); that functions with these equations exist is one lemma,
  `RecursionExists`, for a recursion whose argument shrinks, instantiated for each.
  Induction is done over a set of numbers with the least-element principle of well-founded
  sets (`NatInduction0`). Then: a frame that is complete is not changed by what follows it
  (`FrameStable`), a malformed length stays one (`CorruptStable`), and less than a frame is
  none (`ShortOfAFrame`). The inductive invariant `IInv` says that the connection is in sync
  (`InSync`: the packets are the items arrived, and the buffer is the stream from the first
  item that has not) or that a malformed length has been passed (`Lost`: the packets begin
  with all items before it). `Pushed` shows that a read keeps it: it is an induction over
  the items that the new bytes complete, however many, with the buffer always short of an
  item at the end. From `IInv` follow `DecodedAsSent` and `HoldsTheRest`, under the
  hypothesis `[]DecodesWhole`, that each item alone is read as what it means, which is about
  the items and not about the decoder's state. `NothingCorruptKept` needs no hypothesis.
  That hypothesis is then discharged for what the encoders write: `VarintCarries` (by the
  number of digits) and `FrameRead` show that a body of up to 268435455 bytes comes back
  from its frame (`FramesDecodeWhole`), `PublishRoundTrip` that `decode_publish` undoes
  `encode_publish`, but for a topic that is no UTF-8; so streams of framed packets, and of
  publications, arrive without any hypothesis but the protocol's limits (`FramesArrive`,
  `PublicationsArrive`). CONNECT and SUBSCRIBE, which the program only decodes, are chains
  of fields: `At` says what is left of a body from an offset on, `ReadAt` that a reader sees
  only that, and so each field is read as it was written and leaves the next (`TextAt`,
  `FieldAt`, `WishesLength`). `ConnectRoundTrip` follows the six fields, of which four are
  there or not by the flags; `SubscribeRoundTrip` is an induction over the topics from the
  last one, on the recursion that `TopicsUnfold` shows to exist; it assumes that `Ignored`,
  which stands for an `Option::None`, is no list of topics. Each text comes out in its lossy
  form, and `Utf8IsKept` says, by an induction over its bytes, that a text in UTF-8 is its
  own; so `ConnectRoundTrip` gives the client's very texts where they are UTF-8.
  `ClientsAreHeard` puts them together: any mixture of these packets, binary passwords
  included, arrives as the packets that were sent, their texts in lossy form. Assumed of
  `Sendings`: finite sequences of items, each of at least one byte.

Only model-checked: everything temporal beyond `[][A]_v` (liveness is out of the
prover's reach: `ReseededOnConnect`, `DeviceConverges`, `Completes`), and what the bodies that
are no packet, the publications of QoS 1 and 2, and a SUBSCRIBE without its last QoS byte mean
(in `DecodesWhole`, as items of `MCWire`), and a length field longer than it need be.

## 5. Not modelled

- The grammar of TOML, arguments, topic strings, the wall clock, logging, JSON layout: pure
  conversions. The configuration is a constant of `Tank` and `Serve`. In `Onboarding` is
  that `Config::load` refuses a missing or cut `config.toml`, and what it makes of values
  that needed an escape; a config cut after its last mandatory line, which would load with
  defaults, is taken to be refused as well.
- A power loss of the host under `Serve`: a save that returned Ok may be undone by one
  (`AtomicStore`), and the loop's promises about states, published or shown, are of crashes of
  the process.
- `rumqttd`, Mosquitto, `rumqttc`, the kernel, the device and the cloud are external:
  modelled as far as the code relies on them.
- The history's memory use, floating-point error, `i64` overflow of `read1`, and
  `ping_interval_secs = 0`, which makes the timer panic.
- In the inputs of `formulas` a raw string with an empty segment in its middle (the code
  drops it, and the values after it move up one place), and JSON log lines that name two
  different versions.
- A configuration that changes under `Serve` (in `Tank`), and connections of two devices at
  the same time (`learn` and `observe` serve one after the other).
- The add-on's packaging and the capture scripts.

## 6. Order of work

The runtime and what it rests on came first (`Formulas`, `AtomicStore`, `JsonStore`, `Tank`), with
proofs; then the loop around it (`Serve`), onboarding and the codec; then the payloads,
the abstract specification of the loop, the composition of the modes, and the proofs of
both; then the proofs about the formulas, the codec and the payloads. What could follow:

1. `Serve`'s state numbers mapped to `Tank`'s snapshots, so that `Custody` is about the
   content of a state.
2. In `Wire`, what each cut of a body is taken for: `ReadAt` covers the fields before the cut.
