------------------------------ MODULE Observe -------------------------------
(***************************************************************************)
(* `observe` (onboard.rs): the stand-in broker that serves one connection  *)
(* at a time, seeds the device when it can, and learns who it is.          *)
(*                                                                         *)
(* What a device sends when it connects is its script; after it, a seeded  *)
(* device sends readings, and one that is not gives up and reconnects      *)
(* (README.md:263-265).                                                    *)
(***************************************************************************)
EXTENDS Onboard

VARIABLES conn,       \* the device whose connection is served, or None
          gone,       \* it has gone without closing the connection
          script,     \* what it has still to send
          inChunk,    \* packets of the last read are still to be handled
          subscribed, seeded,
          told        \* the version the last device was told
link == <<conn, gone, script, inChunk, subscribed, seeded, told>>
vars == <<facts, outputs, link>>

TypeOK ==
  /\ OnboardTypeOK
  /\ conn \in Devices \cup {None}
  /\ gone \in BOOLEAN
  /\ script \in Seq(Packets)
  /\ inChunk \in BOOLEAN /\ (inChunk => script # <<>>)
  /\ subscribed \in BOOLEAN /\ seeded \in BOOLEAN
  /\ told \in Value \cup {None, Default}

Init == /\ OnboardInit
        /\ conn = None /\ gone = FALSE /\ script = <<>> /\ inChunk = FALSE
        /\ subscribed = FALSE /\ seeded = FALSE /\ told = None

-----------------------------------------------------------------------------
Fault == faults < MaxFaults /\ faults' = faults + 1

(* Bug: the facts are those of the connection before. *)
AcceptKeepingFacts(d) ==
  /\ conn = None /\ conn' = d
  /\ Opening(script')
  /\ subscribed' = FALSE /\ seeded' = FALSE /\ told' = None
  /\ UNCHANGED <<facts, written, config, state, gone, inChunk>>

(* run_observe accepts; observe_connection starts with fresh facts. *)
Accept(d) ==
  /\ conn = None /\ conn' = d
  /\ Opening(script')
  /\ facts' = NoFacts
  /\ subscribed' = FALSE /\ seeded' = FALSE /\ told' = None
  /\ UNCHANGED <<written, config, state, gone, inChunk>>

(* observe_connection returns. *)
Ended == /\ conn' = None /\ gone' = FALSE /\ script' = <<>> /\ inChunk' = FALSE
         /\ UNCHANGED <<facts, subscribed, seeded, told>>

(* Bugs: the subscription is not waited for; the sensor is waited for. *)
SeedUnasked(f, sub) ==
  IF ~seeded /\ f.rid # None
  THEN seeded' = TRUE /\ told' = (IF f.firmware = None THEN Default ELSE f.firmware)
  ELSE UNCHANGED <<seeded, told>>

SeedAfterReading(f, sub) ==
  IF sub /\ ~seeded /\ f.rid # None /\ f.firmware # None /\ f.sensor # None
  THEN seeded' = TRUE /\ told' = f.firmware
  ELSE UNCHANGED <<seeded, told>>

(* seed_retained, at the end of a chunk, once the device has subscribed    *)
(* and its receiver id and its firmware are known.                         *)
Seed(f, sub) ==
  IF sub /\ ~seeded /\ f.rid # None /\ f.firmware # None
  THEN seeded' = TRUE /\ told' = f.firmware
  ELSE UNCHANGED <<seeded, told>>

(* One packet of a chunk.  A PUBLISH applies and finalizes; a CONNECT, a   *)
(* SUBSCRIBE and a ping are answered.  The chunk may hold the next packet. *)
Handle(packet) ==
  /\ conn # None /\ ~gone /\ script # <<>> /\ Head(script) = packet
  /\ packet \notin {"disconnect", "close"}
  /\ facts' = ApplyDevice(facts, conn, packet)
  /\ IF packet \in {"log", "chatter", "text", "read"} THEN MaybeFinalize(facts') ELSE UNCHANGED outputs
  /\ subscribed' = (subscribed \/ packet = "subscribe")
  /\ script' = Tail(script)
  /\ \/ /\ inChunk' = FALSE
        /\ Seed(facts', subscribed')
     \/ /\ inChunk' = TRUE /\ script' # <<>> /\ Head(script') # "close"
        /\ UNCHANGED <<seeded, told>>
  /\ UNCHANGED <<conn, gone>>

HandleDisconnect ==
  /\ conn # None /\ ~gone /\ script # <<>> /\ Head(script) \in {"disconnect", "close"}
  /\ Ended
  /\ UNCHANGED outputs

-----------------------------------------------------------------------------
Idle == conn # None /\ ~gone /\ script = <<>>

(* A device that has been sent its state reports a reading, or pings. *)
Report == /\ Idle /\ seeded
          /\ script' \in {<<"read">>, <<"ping", "read">>}
          /\ UNCHANGED <<facts, outputs, conn, gone, inChunk, subscribed, seeded, told>>

(* One that has not gives up, and closes. *)
GiveUp == Idle /\ ~seeded /\ Ended /\ UNCHANGED outputs

(* The connection breaks: read returns nothing, or a write fails. *)
TearDown == /\ conn # None /\ ~gone /\ Fault
            /\ Ended
            /\ UNCHANGED <<written, config, state>>

(* The device goes silent without closing; nothing is on its way to it, so *)
(* nothing ever tells the program. *)
Vanish == /\ Idle /\ Fault
          /\ gone' = TRUE
          /\ UNCHANGED <<facts, written, config, state, conn, script, inChunk,
                         subscribed, seeded, told>>

(* The program ends and is run again; the files stay. *)
Restart == /\ Fault
           /\ facts' = NoFacts /\ written' = FALSE
           /\ conn' = None /\ gone' = FALSE /\ script' = <<>> /\ inChunk' = FALSE
           /\ subscribed' = FALSE /\ seeded' = FALSE /\ told' = None
           /\ UNCHANGED <<config, state>>

Next == \/ \E d \in Devices : Accept(d)
        \/ \E packet \in Packets : Handle(packet)
        \/ HandleDisconnect
        \/ Report \/ GiveUp \/ TearDown \/ Vanish \/ Restart

Spec == Init /\ [][Next]_vars

-----------------------------------------------------------------------------
(* What d may have said that fills a field: for its firmware, any word of  *)
(* its log that looks like a version.                                      *)
Own(k, d) == IF k = "firmware" THEN {d, Chatter[d]} ELSE {d}

(* onboard.rs:591-594: a device is told a version only if it listens, and  *)
(* it is the one its own log named first, which is also the one that the   *)
(* config will hold: never a default, never another device's.              *)
ToldItsOwn == (conn # None /\ seeded) =>
  subscribed /\ told = facts.firmware /\ told \in Own("firmware", conn)

(* onboard.rs:547: what is written describes one device, also where two    *)
(* devices connect in turn.                                                *)
OneDevice == config \in Config =>
  \E d \in Devices : \A k \in Field :
    config[k] \in Own(k, d) \/ (k \in Optional /\ config[k] = Default)
=============================================================================
