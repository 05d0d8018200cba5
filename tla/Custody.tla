------------------------------ MODULE Custody -------------------------------
(***************************************************************************)
(* What `serve` promises about a device's state (server.rs:5-9): it keeps  *)
(* the newest state it was told on disk before it shows it to anybody, and *)
(* what it shows only moves forward.  States are numbered as they become   *)
(* known.  A promise is void while the disk is known to have failed.       *)
(***************************************************************************)
EXTENDS Integers

CONSTANTS Last,    \* the number of the last state; 0 is the configured one
          Outlets, \* who is shown states: the broker's retained message, the device
          Blank    \* shown nothing: smaller than every state

VARIABLES known,  \* the state the program would show
          saved,  \* the one on disk
          shown,  \* the one each outlet shows
          failed  \* the disk has failed since the last save
custodyVars == <<known, saved, shown, failed>>

CustodyInit == /\ known = 0 /\ saved = 0 /\ failed = FALSE
               /\ shown = [o \in Outlets |-> Blank]

(* A newer state than any before. *)
Learn == /\ \E n \in 0..Last : /\ n > known /\ \A o \in Outlets : n > shown[o]
                               /\ known' = n
         /\ UNCHANGED <<saved, shown, failed>>

Save == /\ saved' = known /\ failed' = FALSE
        /\ UNCHANGED <<known, shown>>

SaveFails == /\ failed' = TRUE
             /\ UNCHANGED <<known, saved, shown>>

(* The program is run again, from what is on disk; or, where that cannot   *)
(* be read, from the configuration.                                        *)
Restore == known' = saved /\ UNCHANGED <<saved, shown, failed>>
RestoreNothing == /\ known' = 0 /\ failed' = TRUE /\ saved' \in {0, saved}
                  /\ UNCHANGED shown

(* Outlets are shown states between what they show and what is on disk, or *)
(* forget.                                                                 *)
Show == /\ \A o \in Outlets :
             \/ shown'[o] \in {shown[o], Blank}
             \/ shown'[o] \in 0..Last /\ failed
             \/ shown'[o] \in shown[o]..saved
        /\ shown' \in [Outlets -> {Blank} \cup 0..Last]
        /\ UNCHANGED <<known, saved, failed>>

CustodyNext == Learn \/ Save \/ SaveFails \/ Restore \/ RestoreNothing \/ Show

CustodySpec == CustodyInit /\ [][CustodyNext]_custodyVars
=============================================================================
