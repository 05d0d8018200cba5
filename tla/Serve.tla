------------------------------- MODULE Serve --------------------------------
(***************************************************************************)
(* The `serve` loop as an MQTT client (aquilo-server/src/server.rs), with  *)
(* the broker and the device around it.                                    *)
(*                                                                         *)
(* One task runs the loop: it polls the event loop, and handles each event *)
(* to the end before it polls again.  A handler hands its requests to the  *)
(* client one by one, through a channel of ChanCap slots (64 in the code)  *)
(* that only polling empties; `todo` is what the running handler has still *)
(* to do, so the task polls exactly when todo is empty.  The ping task     *)
(* uses the same channel.                                                  *)
(*                                                                         *)
(* A /state is the number of the reading it was computed from, 0 for the   *)
(* configured seed: Tank says what is in it.  The file it is persisted to  *)
(* is one register, which a crash of the process leaves as it is:          *)
(* JsonStore says why.  A power loss, which may undo the last saves, is    *)
(* not among the faults of this module.                                    *)
(***************************************************************************)
EXTENDS Integers, Sequences, FiniteSets

CONSTANTS Deployments, \* TRUE: the broker is embedded, FALSE: an external one is configured
          ChanCap,     \* slots of the request channel
          FwCfg,       \* cfg.firmware_version
          FwDev,       \* the firmware the device runs
          LogFormats,  \* forms of the device's /log payloads
          NoVersion,   \* no firmware version
          MaxPings,    \* bound on the pings that wait in the channel
          MaxReads, MaxFaults,   \* bounds on readings and on faults
          InboxCap     \* bound on the publishes on their way to the loop

ASSUME ServeAssumption ==
  /\ Deployments \subseteq BOOLEAN
  /\ ChanCap \in Nat \ {0}
  /\ NoVersion \notin {FwCfg, FwDev}
  /\ LogFormats \subseteq {"json", "bare", "withMac", "text"}
  /\ {MaxReads, MaxPings, MaxFaults, InboxCap} \subseteq Nat

VARIABLES
  up,        \* the process runs
  current,   \* rt.current
  stored,    \* the last_state of the state file
  todo,      \* what the running handler has still to do
  chan,      \* the request channel
  link,      \* the session: "down", "up", or "broken" and not yet noticed
  inbox,     \* publishes on their way to the loop
  broker,    \* [embedded, up, retained, subs]: subs are our session's
  dev,       \* the device: [on, version, state], the last ones it was sent
  unsaved,   \* history variable: the last persist failed, or the file was given up
  heard,     \* history variable: this process has handled a /log line that
             \* names the firmware
  reads, faults   \* counters for the bounds
server == <<up, current, stored, todo, chan, link, inbox, unsaved, heard>>
vars == <<server, broker, dev, reads, faults>>

NoState == -1
Versions == {FwCfg, FwDev, NoVersion}
States == 0..MaxReads
DeviceTopics == <<"read", "log", "connection">>

VersionReq(fw) == [kind |-> "version", fw |-> fw]
StateReq(n) == [kind |-> "state", n |-> n]
SubReq(t) == [kind |-> "sub", topic |-> t]
RadarReq == [kind |-> "radarParams"]
PingReq == [kind |-> "ping"]
Requests == {VersionReq(fw) : fw \in {FwCfg, FwDev}} \cup {StateReq(n) : n \in States}
              \cup {SubReq(t) : t \in {"read", "log", "connection"}} \cup {RadarReq, PingReq}
(* A step of a handler that is not a request: the call of persist. *)
PersistStep == [kind |-> "persist"]

ReadMsg(n) == [kind |-> "read", n |-> n]
LogMsg(f) == [kind |-> "log", format |-> f]
Messages == {ReadMsg(n) : n \in States} \cup {LogMsg(f) : f \in LogFormats}

NothingRetained == [version |-> NoVersion, radarParams |-> FALSE, state |-> NoState]
Retained == [version : Versions, radarParams : BOOLEAN, state : States \cup {NoState}]

TypeOK ==
  /\ up \in BOOLEAN /\ unsaved \in BOOLEAN /\ heard \in BOOLEAN
  /\ current \in States /\ stored \in States
  /\ todo \in Seq(Requests \cup {PersistStep})
  /\ chan \in Seq(Requests) /\ Len(chan) <= ChanCap
  /\ link \in {"down", "up", "broken"}
  /\ inbox \in Seq(Messages)
  /\ broker \in [embedded : Deployments, up : BOOLEAN, retained : Retained,
                 subs : SUBSET {"read", "log", "connection"}]
  /\ dev \in [on : BOOLEAN, version : Versions, state : States \cup {NoState}]
  /\ reads \in States /\ faults \in 0..MaxFaults

-----------------------------------------------------------------------------
(* Bug: any text is a version. *)
ParseAnyText(format) == IF format = "text" THEN "text" ELSE FwDev

(* parse_firmware: a JSON field or a bare token; a line with a space in it *)
(* is neither.                                                             *)
ParseFirmware(format) == IF format \in {"json", "bare"} THEN FwDev ELSE NoVersion

(* Bug: a reconnect seeds, and forgets that a clean session has no         *)
(* subscriptions.                                                          *)
SeedOnly(n) == <<VersionReq(FwCfg), RadarReq, StateReq(n)>>

(* Bug: a reconnect seeds the configured state. *)
SeedConfigured(n) ==
  <<VersionReq(FwCfg), RadarReq, StateReq(0)>>
    \o [i \in 1..3 |-> SubReq(DeviceTopics[i])]

(* seed_retained and the subscriptions, in order. *)
SeedSteps(n) ==
  <<VersionReq(FwCfg), RadarReq, StateReq(n)>>
    \o [i \in 1..3 |-> SubReq(DeviceTopics[i])]

(* Bugs: publish before persist; the state is not republished. *)
PublishFirst(n) == <<StateReq(n), PersistStep>>
PersistOnly(n) == <<PersistStep>>

(* handle_read after apply_reading: persist, then publish. *)
ReadSteps(n) == <<PersistStep, StateReq(n)>>

(* Bug: what was not parsed is echoed too. *)
EchoAlways(format) == <<VersionReq(ParseFirmware(format))>>

LogSteps(format) ==
  IF ParseFirmware(format) # NoVersion THEN <<VersionReq(ParseFirmware(format))>> ELSE <<>>

-----------------------------------------------------------------------------
Init ==
  /\ up = FALSE /\ current = 0 /\ stored = 0
  /\ todo = <<>> /\ chan = <<>> /\ link = "down" /\ inbox = <<>>
  /\ \E e \in Deployments :
       broker = [embedded |-> e, up |-> ~e, retained |-> NothingRetained, subs |-> {}]
  /\ dev = [on |-> FALSE, version |-> NoVersion, state |-> NoState]
  /\ unsaved = FALSE /\ heard = FALSE
  /\ reads = 0 /\ faults = 0

Polling == up /\ todo = <<>>

(* run: spawn the broker if it is ours, load the runtime, make a client. *)
Boot(n) ==
  /\ ~up /\ up' = TRUE
  /\ current' = n
  /\ broker' = [broker EXCEPT !.up = @ \/ broker.embedded]
  /\ UNCHANGED <<todo, chan, link, inbox, heard, dev, reads>>

(* Bug: every start seeds from the configuration. *)
StartFromSeed == Boot(0) /\ UNCHANGED <<stored, unsaved, faults>>

(* load_runtime reads the file; what run then persists is what it read. *)
Start == Boot(stored) /\ UNCHANGED <<stored, unsaved, faults>>

(* The file cannot be read: load_runtime seeds from the configuration, and *)
(* run persists that at once, or fails to.                                 *)
StartUnreadable ==
  /\ faults < MaxFaults /\ faults' = faults + 1
  /\ Boot(0)
  /\ stored' \in {0, stored} /\ unsaved' = TRUE

(* spawn_ping: a tick of the interval, waiting for a slot.  MaxPings says  *)
(* how many intervals the longest outage spans.                            *)
PingsWaiting == {i \in DOMAIN chan : chan[i] = PingReq}
PingTick ==
  /\ up /\ Cardinality(PingsWaiting) < MaxPings
  /\ Len(chan) < ChanCap
  /\ chan' = Append(chan, PingReq)
  /\ UNCHANGED <<up, current, stored, todo, link, inbox, unsaved, heard, broker, dev, reads, faults>>

(* poll connects and returns ConnAck; the handler starts to seed.  What    *)
(* the last session left unsent is forgotten.                              *)
ConnAck ==
  /\ Polling /\ link = "down" /\ broker.up
  /\ link' = "up"
  /\ todo' = SeedSteps(current)
  /\ UNCHANGED <<up, current, stored, chan, inbox, unsaved, heard, broker, dev, reads, faults>>

(* The running handler: client.publish or subscribe, waiting for a slot. *)
Enqueue ==
  /\ up /\ todo # <<>> /\ Head(todo) # PersistStep
  /\ Len(chan) < ChanCap
  /\ chan' = Append(chan, Head(todo))
  /\ todo' = Tail(todo)
  /\ UNCHANGED <<up, current, stored, link, inbox, unsaved, heard, broker, dev, reads, faults>>

(* The running handler: persist, whose failure is only logged. *)
Persist ==
  /\ up /\ todo # <<>> /\ Head(todo) = PersistStep
  /\ \/ stored' = current /\ unsaved' = FALSE
     \/ stored' = stored /\ unsaved' = TRUE
  /\ todo' = Tail(todo)
  /\ UNCHANGED <<up, current, chan, link, inbox, heard, broker, dev, reads, faults>>

(* What the broker does with a request: keep what is retained and pass it  *)
(* on to the device.                                                       *)
BrokerAfter(b, r) ==
  CASE r.kind = "version"     -> [b EXCEPT !.retained.version = r.fw]
    [] r.kind = "radarParams" -> [b EXCEPT !.retained.radarParams = TRUE]
    [] r.kind = "state"       -> [b EXCEPT !.retained.state = r.n]
    [] r.kind = "sub"         -> [b EXCEPT !.subs = @ \cup {r.topic}]
    [] OTHER                  -> b
DeviceAfter(d, r) ==
  CASE d.on /\ r.kind = "version" -> [d EXCEPT !.version = r.fw]
    [] d.on /\ r.kind = "state"   -> [d EXCEPT !.state = r.n]
    [] OTHER                      -> d

(* poll sends a request; on a broken session it goes nowhere. *)
SendRequest ==
  /\ Polling /\ link # "down" /\ chan # <<>>
  /\ chan' = Tail(chan)
  /\ broker' = IF link = "up" THEN BrokerAfter(broker, Head(chan)) ELSE broker
  /\ dev' = IF link = "up" THEN DeviceAfter(dev, Head(chan)) ELSE dev
  /\ UNCHANGED <<up, current, stored, todo, link, inbox, unsaved, heard, reads, faults>>

(* poll returns a Publish on the read topic: apply_reading. *)
HandleRead ==
  /\ Polling /\ link # "down" /\ inbox # <<>> /\ Head(inbox).kind = "read"
  /\ inbox' = Tail(inbox)
  /\ current' = Head(inbox).n
  /\ todo' = ReadSteps(Head(inbox).n)
  /\ UNCHANGED <<up, stored, chan, link, unsaved, heard, broker, dev, reads, faults>>

(* poll returns a Publish on the log topic. *)
HandleLog ==
  /\ Polling /\ link # "down" /\ inbox # <<>> /\ Head(inbox).kind = "log"
  /\ inbox' = Tail(inbox)
  /\ todo' = LogSteps(Head(inbox).format)
  /\ heard' = (heard \/ Head(inbox).format # "text")
  /\ UNCHANGED <<up, current, stored, chan, link, unsaved, broker, dev, reads, faults>>

(* Bug: what the channel holds outlives the session. *)
ConnLostKeeps ==
  /\ Polling /\ link = "broken"
  /\ link' = "down"
  /\ inbox' = <<>>
  /\ UNCHANGED <<up, current, stored, todo, chan, unsaved, heard, broker, dev, reads, faults>>

(* poll notices that the session is gone: what the channel holds is moved  *)
(* to the pending list, which the next ConnAck clears; of the publishes,   *)
(* those that had been read from the socket stay.                          *)
ConnLost ==
  /\ Polling /\ link = "broken"
  /\ link' = "down"
  /\ chan' = <<>>
  /\ \E k \in 0..Len(inbox) : inbox' = SubSeq(inbox, 1, k)
  /\ UNCHANGED <<up, current, stored, todo, unsaved, heard, broker, dev, reads, faults>>

-----------------------------------------------------------------------------
Fault == faults < MaxFaults /\ faults' = faults + 1
Broken == IF link = "up" THEN "broken" ELSE link

Stopped(b, kept) == [b EXCEPT !.up = FALSE, !.retained = kept, !.subs = {}]

(* The process dies; an embedded broker dies with it. *)
Crash ==
  /\ up /\ Fault
  /\ up' = FALSE
  /\ todo' = <<>> /\ chan' = <<>> /\ inbox' = <<>> /\ link' = "down" /\ heard' = FALSE
  /\ broker' = IF broker.embedded THEN Stopped(broker, NothingRetained)
               ELSE [broker EXCEPT !.subs = {}]
  /\ dev' = [dev EXCEPT !.on = @ /\ ~broker.embedded]
  /\ UNCHANGED <<current, stored, unsaved, reads>>

(* The connection to the broker breaks; subscriptions end with it. *)
Disconnect ==
  /\ link = "up" /\ Fault
  /\ link' = "broken"
  /\ broker' = [broker EXCEPT !.subs = {}]
  /\ UNCHANGED <<up, current, stored, todo, chan, inbox, unsaved, heard, dev, reads>>

(* An external broker stops, with or without losing what it retained. *)
BrokerStop ==
  /\ ~broker.embedded /\ broker.up /\ Fault
  /\ \E kept \in {broker.retained, NothingRetained} : broker' = Stopped(broker, kept)
  /\ link' = Broken
  /\ dev' = [dev EXCEPT !.on = FALSE]
  /\ UNCHANGED <<up, current, stored, todo, chan, inbox, unsaved, heard, reads>>

BrokerStart ==
  /\ ~broker.embedded /\ ~broker.up
  /\ broker' = [broker EXCEPT !.up = TRUE]
  /\ UNCHANGED <<server, dev, reads, faults>>

(* A device publish reaches our session if it is subscribed; QoS 0. *)
Forward(topic, m) ==
  inbox' = IF link = "up" /\ topic \in broker.subs /\ Len(inbox) < InboxCap
           THEN Append(inbox, m) ELSE inbox

(* The device connects, subscribes (what is retained is delivered) and     *)
(* publishes a log line.                                                   *)
DeviceConnect ==
  /\ broker.up /\ ~dev.on
  /\ dev' = [on |-> TRUE, version |-> broker.retained.version,
             state |-> IF broker.retained.state = NoState THEN dev.state
                       ELSE broker.retained.state]
  /\ \E f \in LogFormats : Forward("log", LogMsg(f))
  /\ UNCHANGED <<up, current, stored, todo, chan, link, unsaved, heard, broker, reads, faults>>

DeviceDrop ==
  /\ dev.on /\ Fault
  /\ dev' = [dev EXCEPT !.on = FALSE]
  /\ UNCHANGED <<server, broker, reads>>

DeviceRead ==
  /\ dev.on /\ reads < MaxReads
  /\ reads' = reads + 1
  /\ Forward("read", ReadMsg(reads + 1))
  /\ UNCHANGED <<up, current, stored, todo, chan, link, unsaved, heard, broker, dev, faults>>

-----------------------------------------------------------------------------
ServerStep == \/ ConnAck \/ Enqueue \/ Persist \/ SendRequest
              \/ HandleRead \/ HandleLog \/ ConnLost
Next == \/ Start \/ StartUnreadable \/ PingTick \/ ServerStep
        \/ Crash \/ Disconnect \/ BrokerStop \/ BrokerStart
        \/ DeviceConnect \/ DeviceDrop \/ DeviceRead

Spec == Init /\ [][Next]_vars

(* The runtime schedules the loop task, and poll serves both directions;   *)
(* nothing is assumed of the broker, the device, the ping timer or of      *)
(* whoever restarts the process.                                           *)
FairSpec == /\ Spec
            /\ WF_vars(Enqueue) /\ WF_vars(Persist)
            /\ WF_vars(ConnAck) /\ WF_vars(ConnLost)
            /\ WF_vars(SendRequest) /\ WF_vars(HandleRead) /\ WF_vars(HandleLog)

-----------------------------------------------------------------------------
Published == {chan[i] : i \in DOMAIN chan} \cap {StateReq(n) : n \in States}

(* server.rs:303-327, 5-9: a /state is on disk before it leaves the        *)
(* handler: unless the last persist failed or the file was unreadable, no  *)
(* state in the channel, at the broker or at the device is newer than it,  *)
(* so a crash of the process forgets nothing that was shown.               *)
PublishedIsStored ==
  unsaved \/ /\ \A r \in Published : r.n <= stored
             /\ broker.retained.state <= stored
             /\ dev.state <= stored

(* server.rs:5-7, 95-96: whatever is replayed after a reconnect or a       *)
(* restart, the retained /state and the device's never go back to an older *)
(* reading, unless a persist failed or the file could not be read (or,     *)
(* outside of this module, a power loss undid the last saves).             *)
StateNeverRegresses ==
  [][~unsaved => /\ broker'.retained.state \in {NoState} \cup (broker.retained.state..MaxReads)
                 /\ dev'.state >= dev.state]_vars

(* server.rs:5-9, 74-77, 303-327: the loop, its channel and the broker     *)
(* implement custody of the state: what the broker and the device show     *)
(* moves forward among what is on disk, whatever is lost or replayed.      *)
Custody == INSTANCE Custody WITH
  Last <- MaxReads, Outlets <- {"broker", "device"}, Blank <- NoState,
  known <- current, saved <- stored, failed <- unsaved,
  shown <- [o \in {"broker", "device"} |->
              IF o = "broker" THEN broker.retained.state ELSE dev.state]
KeepsCustody == Custody!CustodySpec

(* server.rs:284-285: what the device is sent on /version is its own       *)
(* firmware, so it never starts an OTA.  Holds when the configured version *)
(* is the device's.                                                        *)
NoOTA == dev.version \in {NoVersion, FwDev}

(* README.md:253-254, server.rs:284-285: the firmware string is learned    *)
(* from the device's log and echoed back, so it needs no config.           *)
FirmwareEchoed ==
  (heard /\ Polling /\ chan = <<>> /\ link = "up") => broker.retained.version = FwDev

(* server.rs:95-96,108: on every (re)connect the retained set is restored  *)
(* and the device's topics are subscribed, unless the session is lost      *)
(* again first.                                                            *)
Restored == /\ broker.retained.version # NoVersion
            /\ broker.retained.radarParams
            /\ broker.retained.state = current
            /\ broker.subs = {"read", "log", "connection"}
ReseededOnConnect == (up /\ link = "up") ~> (Restored \/ link # "up" \/ ~up)

(* server.rs:1-3: while the process and the device are both there, the     *)
(* device ends up with the state of the newest reading handled.            *)
DeviceConverges == <>[](up /\ dev.on => dev.state = current)

(* A handler waits for a slot that only polling can free. *)
Wedged == up /\ todo # <<>> /\ Head(todo) # PersistStep /\ Len(chan) = ChanCap

(* server.rs:87-114: no handler waits for a slot that only its own task    *)
(* would free, while the channel has room for the pings of an outage and   *)
(* the requests that wait when poll takes another publish in.              *)
NeverWedged == ~Wedged

(* server.rs:91-114: a handler that waits on a full channel waits until    *)
(* the process ends: the one task that could empty it is the one waiting.  *)
WedgedForever == [][Wedged => Wedged' \/ ~up']_vars
=============================================================================
