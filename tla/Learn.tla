------------------------------- MODULE Learn --------------------------------
(***************************************************************************)
(* `learn` (onboard.rs): the proxy between the device and the cloud.       *)
(*                                                                         *)
(* Each direction of a connection reads, forwards and then tees; the two   *)
(* are polled by one task, so they interleave where forwarding waits, and  *)
(* what one holds is dropped when the other ends (tokio::select).  A chunk *)
(* from the device is one packet: each is applied and finalized by itself, *)
(* so longer chunks give the same facts.  A chunk from the cloud is        *)
(* finalized only after its last packet.                                   *)
(***************************************************************************)
EXTENDS Onboard

VARIABLES conn,       \* the device whose connection is served, or None
          script,     \* what it has still to send
          heldDevice, \* the device's packet forwarded and not yet applied
          retained,   \* what the cloud has sent and s2c has not yet read
          heldCloud   \* the cloud's chunk forwarded and not yet applied
link == <<conn, script, heldDevice, retained, heldCloud>>
vars == <<facts, outputs, link>>

TypeOK ==
  /\ OnboardTypeOK
  /\ conn \in Devices \cup {None}
  /\ script \in Seq(Packets) /\ heldDevice \in Packets \cup {None}
  /\ retained \in Seq(CloudPackets) /\ heldCloud \in Seq(CloudPackets)

NoLink == /\ conn' = None /\ script' = <<>>
          /\ heldDevice' = None /\ retained' = <<>> /\ heldCloud' = <<>>

Init == /\ OnboardInit
        /\ conn = None /\ script = <<>>
        /\ heldDevice = None /\ retained = <<>> /\ heldCloud = <<>>

-----------------------------------------------------------------------------
(* run_learn accepts; one connection at a time. *)
Accept(d) ==
  /\ conn = None /\ conn' = d
  /\ Opening(script')
  /\ UNCHANGED <<facts, written, config, state, heldDevice, retained, heldCloud>>

(* c2s reads a packet and forwards it; the cloud answers a subscription    *)
(* with what it retains.  A device that disconnects closes.                *)
ForwardDevice ==
  /\ conn # None /\ heldDevice = None /\ script # <<>> /\ Head(script) # "close"
  /\ heldDevice' = Head(script)
  /\ script' = IF Head(script) = "disconnect" THEN <<"close">> ELSE Tail(script)
  /\ IF Head(script) = "subscribe"
     THEN \E r \in Replies : retained' = retained \o r
     ELSE UNCHANGED retained
  /\ UNCHANGED <<facts, outputs, conn, heldCloud>>

(* Bug: only the cloud's packets finalize. *)
TeeDeviceQuiet ==
  /\ heldDevice # None
  /\ facts' = ApplyDevice(facts, conn, heldDevice)
  /\ heldDevice' = None
  /\ UNCHANGED <<outputs, conn, script, retained, heldCloud>>

(* c2s applies it; maybe_finalize after every packet, a DISCONNECT too. *)
TeeDevice ==
  /\ heldDevice # None
  /\ facts' = ApplyDevice(facts, conn, heldDevice)
  /\ MaybeFinalize(facts')
  /\ heldDevice' = None
  /\ UNCHANGED <<conn, script, retained, heldCloud>>

(* s2c reads a chunk and forwards it. *)
ForwardCloud ==
  /\ heldCloud = <<>>
  /\ \E k \in 1..Len(retained) :
       /\ heldCloud' = SubSeq(retained, 1, k)
       /\ retained' = SubSeq(retained, k + 1, Len(retained))
  /\ UNCHANGED <<facts, outputs, conn, script, heldDevice>>

(* s2c applies the chunk; maybe_finalize after its last packet. *)
TeeCloud ==
  /\ heldCloud # <<>>
  /\ facts' = ApplyCloud(facts, Head(heldCloud))
  /\ heldCloud' = Tail(heldCloud)
  /\ IF Tail(heldCloud) = <<>> THEN MaybeFinalize(facts') ELSE UNCHANGED outputs
  /\ UNCHANGED <<conn, script, heldDevice, retained>>

(* The device keeps its connection alive. *)
Ping ==
  /\ conn # None /\ script = <<>> /\ heldDevice = None
  /\ script' = <<"ping">>
  /\ UNCHANGED <<facts, outputs, conn, heldDevice, retained, heldCloud>>

(* The device has closed: the read of nothing ends both halves. *)
Leave ==
  /\ conn # None /\ heldDevice = None /\ script # <<>> /\ Head(script) = "close"
  /\ NoLink
  /\ UNCHANGED <<facts, outputs>>

-----------------------------------------------------------------------------
Fault == faults < MaxFaults /\ faults' = faults + 1

(* Either peer closes or a write fails: both halves are dropped with what  *)
(* they hold.  The facts stay.                                             *)
TearDown ==
  /\ conn # None /\ Fault
  /\ NoLink
  /\ UNCHANGED <<facts, written, config, state>>

(* The program ends and is run again; the files stay. *)
Restart ==
  /\ Fault
  /\ facts' = NoFacts /\ written' = FALSE
  /\ NoLink
  /\ UNCHANGED <<config, state>>

Proxy == ForwardDevice \/ TeeDevice \/ ForwardCloud \/ TeeCloud
Next == \/ \E d \in Devices : Accept(d)
        \/ Proxy \/ Ping \/ Leave \/ TearDown \/ Restart

Spec == Init /\ [][Next]_vars

-----------------------------------------------------------------------------
(* onboard.rs:388-390: what was written stays true: nothing that is        *)
(* learned afterwards, on this connection or a later one, contradicts the  *)
(* config, except that an optional field may still have had its default.   *)
ConfigAgrees ==
  written => \A k \in Field : config[k] = facts[k] \/ (k \in Optional /\ config[k] = Default)

(* README.md:101-102: learn records the cloud's actual radarParams.        *)
RadarRecorded ==
  written => \A k \in {"skip", "repeat"} : facts[k] # None => config[k] = facts[k]

(* onboard.rs:139-140 and the config's header (263-264): the firmware is   *)
(* the one the device itself announced.                                    *)
FirmwareIsTheDevices == config \in Config => config.firmware = config.rid
=============================================================================
