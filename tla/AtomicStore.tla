---------------------------- MODULE AtomicStore -----------------------------
(***************************************************************************)
(* What aquilo-store promises (lib.rs:9-12): a register that is replaced   *)
(* whole.  A load sees the last saved value; a power loss may take back    *)
(* saves that had not reached the disk yet, and then an earlier saved      *)
(* value is seen, never a mixture.                                         *)
(***************************************************************************)
CONSTANTS Values,   \* the snapshots that may be saved
          Absent    \* nothing has been saved yet

VARIABLES view,      \* what a load returns
          durable    \* what a load returns after a power loss
storeVars == <<view, durable>>

StoreInit == view = Absent /\ durable = Absent

Save(v) == view' = v /\ UNCHANGED durable

(* The file system writes its metadata back, in its own time. *)
Flush == durable' = view /\ UNCHANGED view

PowerLoss == view' = durable /\ UNCHANGED durable

StoreNext == (\E v \in Values : Save(v)) \/ Flush \/ PowerLoss

StoreSpec == StoreInit /\ [][StoreNext]_storeVars
=============================================================================
