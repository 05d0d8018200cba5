----------------------------- MODULE Onboarding -----------------------------
(***************************************************************************)
(* The program as main.rs runs it: `learn`, `observe` and `serve`, one     *)
(* after the other, in the order of the user's choice, over one config     *)
(* file and one data directory.  Learn and Observe are the two onboarding  *)
(* modes; of serve there is the start, which reads what they left.  A run  *)
(* that ends before its time counts as a fault.                            *)
(***************************************************************************)
EXTENDS Onboard

VARIABLES mode,      \* the mode the program runs in
          serving,   \* what serve started with, or None if it refused to
          conn, script,
          heldDevice, retained, heldCloud,            \* of learn
          gone, inChunk, subscribed, seeded, told     \* of observe
learnLink == <<heldDevice, retained, heldCloud>>
observeLink == <<gone, inChunk, subscribed, seeded, told>>
vars == <<mode, serving, facts, outputs, conn, script, learnLink, observeLink>>

L == INSTANCE Learn
O == INSTANCE Observe

Modes == {"learn", "observe", "serve"}
Loaded == [Field -> Value \cup {Default, Misread}]

ASSUME NothingAssumption ==
  None \notin Loaded \cup StateFile \cup [config : Loaded, last : StateFile]

TypeOK ==
  /\ mode \in Modes
  /\ L!TypeOK /\ O!TypeOK
  /\ serving \in [config : Loaded, last : StateFile] \cup {None}

Init == /\ mode \in {"learn", "observe"} /\ serving = None
        /\ L!Init /\ O!Init

-----------------------------------------------------------------------------
RunLearn == mode = "learn" /\ L!Next /\ UNCHANGED <<mode, serving, observeLink>>
RunObserve == mode = "observe" /\ O!Next /\ UNCHANGED <<mode, serving, learnLink>>

(* What the run before held in memory is gone. *)
NothingHeld == /\ L!NoLink
               /\ gone' = FALSE /\ inChunk' = FALSE
               /\ subscribed' = FALSE /\ seeded' = FALSE /\ told' = None

(* The program ends and is run in an onboarding mode; the files stay. *)
Onboard(m) ==
  /\ mode # m /\ mode' = m /\ serving' = None
  /\ faults < MaxFaults /\ faults' = faults + 1
  /\ facts' = NoFacts /\ written' = FALSE
  /\ NothingHeld
  /\ UNCHANGED <<config, state>>

(* load_runtime: the state file, or the configuration's seed. *)
InitialRuntime(c) == IF state = None THEN InitialState(c) ELSE state

(* The program ends and is run as serve, which a config that does not load *)
(* ends at once; it persists what it starts with, unless that fails.       *)
(* `written` is still of the onboarding run before.                        *)
StartServe ==
  /\ mode # "serve" /\ mode' = "serve"
  /\ \E c \in Loads(config) :
       IF c = None
       THEN serving' = None /\ UNCHANGED <<state, faults>>
       ELSE /\ serving' = [config |-> c, last |-> InitialRuntime(c)]
            /\ \/ state' = InitialRuntime(c) /\ UNCHANGED faults
               \/ UNCHANGED state /\ faults < MaxFaults /\ faults' = faults + 1
  /\ NothingHeld
  /\ UNCHANGED <<facts, written, config>>

Next == \/ RunLearn \/ RunObserve
        \/ \E m \in {"learn", "observe"} : Onboard(m)
        \/ StartServe

Spec == Init /\ [][Next]_vars

(* The runtime polls both halves of a proxied connection and observe reads *)
(* what is there; a device that can come back does, keeps its connection   *)
(* alive, and reports readings when it has been seeded.  Connections do    *)
(* not break for ever (MaxFaults).                                         *)
InLearn(A) == mode = "learn" /\ A /\ UNCHANGED <<mode, serving, observeLink>>
InObserve(A) == mode = "observe" /\ A /\ UNCHANGED <<mode, serving, learnLink>>
FairSpec ==
  /\ Spec
  /\ WF_vars(InLearn(\E d \in Devices : L!Accept(d))) /\ WF_vars(InLearn(L!Ping))
  /\ WF_vars(InLearn(L!Leave))
  /\ WF_vars(InLearn(L!ForwardDevice)) /\ WF_vars(InLearn(L!TeeDevice))
  /\ WF_vars(InLearn(L!ForwardCloud)) /\ WF_vars(InLearn(L!TeeCloud))
  /\ WF_vars(InObserve(\E d \in Devices : O!Accept(d)))
  /\ WF_vars(InObserve(\E packet \in Packets : O!Handle(packet)))
  /\ WF_vars(InObserve(O!HandleDisconnect))
  /\ WF_vars(InObserve(O!Report)) /\ WF_vars(InObserve(O!GiveUp))

-----------------------------------------------------------------------------
(* onboard.rs:388-390: what learn has written stays true of all it learns  *)
(* afterwards, whatever an earlier run left in the files.                  *)
ConfigAgrees == mode = "learn" => L!ConfigAgrees

(* onboard.rs:591-594: the version observe tells a device is the one its   *)
(* own log named first, and it is told one only if it listens.             *)
ToldItsOwn == mode = "observe" => O!ToldItsOwn

(* onboard.rs:547: what a run of observe writes describes one device, also *)
(* where several connect in turn.                                          *)
OneDevice == mode = "observe" /\ written => O!OneDevice

(* onboard.rs:361: when an onboarding run has said it is complete, the     *)
(* serve that is run next starts, with that run's configuration and the    *)
(* state it recorded, whatever had failed or torn before, unless a value   *)
(* would have needed an escape.                                            *)
ServesWhatWasLearned ==
  mode = "serve" /\ written /\ (config \in Config => Plain(config)) =>
    /\ serving # None
    /\ serving.config = config /\ IsComplete(config)
    /\ serving.last = InitialState(config)

(* A device that names no user stays connected. *)
Unnamed == conn # None /\ facts.rid # None /\ facts.user = None

(* onboard.rs:377-383, 591-594: through lost connections, failing writes   *)
(* and reruns in either mode both files are written in the end, unless a   *)
(* device has vanished without closing its connection or keeps one up in   *)
(* which it names no user.                                                 *)
Completes ==
  <>[]( \/ mode = "serve" \/ gone \/ Unnamed
        \/ written /\ config \in Config /\ state \in StateFile)
=============================================================================
