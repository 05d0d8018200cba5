-------------------------- MODULE JsonStoreProofs ---------------------------
(***************************************************************************)
(* JsonStore is type correct, never shows a torn file, answers Ok          *)
(* truthfully and implements the register of AtomicStore, for every set of *)
(* snapshots.                                                              *)
(***************************************************************************)
EXTENDS JsonStore, TLAPS

(* TypeOK with NeverTorn is inductive: a rename happens only after the     *)
(* temp file was written and synced (InSave, in TypeOK), and a commit or a *)
(* power loss only copies a file that is whole.                            *)
StoreInv == TypeOK /\ NeverTorn /\ OkMeansStored

LEMMA Files == NoFile \in File /\ [data |-> Torn, synced |-> FALSE] \in File
<1>1. NoFile \in File
  BY Zenon DEF NoFile, File
<1>2. [data |-> Torn, synced |-> FALSE] \in File
  BY Zenon DEF File
<1> QED
  BY <1>1, <1>2

LEMMA StoreInvInit == Init => StoreInv
  BY JsonStoreAssumption
  DEF Init, StoreInv, TypeOK, InSave, NeverTorn, Whole, OkMeansStored, NoFile, File

LEMMA StoreInvStep == StoreInv /\ [Next]_vars => StoreInv'
<1> SUFFICES ASSUME StoreInv, [Next]_vars
             PROVE  StoreInv'
  OBVIOUS
<1> USE JsonStoreAssumption DEF StoreInv
<1>1. ASSUME NEW v \in Values, Create(v) PROVE StoreInv'
  <2>1. tmp' \in File
    BY <1>1, Files DEF Create, TypeOK
  <2>2. InSave'
    BY <1>1 DEF Create, Fail, TypeOK, InSave
  <2>3. TypeOK'
    BY <1>1, <2>1, <2>2 DEF Create, Fail, TypeOK
  <2>4. NeverTorn' /\ OkMeansStored'
    BY <1>1 DEF Create, Fail, NeverTorn, Whole, OkMeansStored
  <2> QED
    BY <2>3, <2>4
<1>2. CASE Write
  <2>1. TypeOK'
    BY <1>2 DEF Write, Fail, TypeOK, InSave, File
  <2>2. NeverTorn' /\ OkMeansStored'
    BY <1>2 DEF Write, Fail, NeverTorn, Whole, OkMeansStored
  <2> QED
    BY <2>1, <2>2
<1>3. CASE SyncAll
  <2>1. TypeOK'
    BY <1>3 DEF SyncAll, Fail, TypeOK, InSave, File
  <2>2. NeverTorn' /\ OkMeansStored'
    BY <1>3 DEF SyncAll, Fail, NeverTorn, Whole, OkMeansStored
  <2> QED
    BY <2>1, <2>2
<1>4. CASE Rename
  <2>1. TypeOK'
    BY <1>4, Files DEF Rename, Fail, TypeOK, InSave
  <2>2. NeverTorn' /\ OkMeansStored'
    BY <1>4 DEF Rename, Fail, NeverTorn, Whole, OkMeansStored, Load, TypeOK, InSave
  <2> QED
    BY <2>1, <2>2
<1>5. CASE Commit
  <2>1. TypeOK'
    BY <1>5 DEF Commit, TypeOK, InSave
  <2>2. NeverTorn' /\ OkMeansStored'
    BY <1>5 DEF Commit, NeverTorn, Whole, OkMeansStored, Load
  <2> QED
    BY <2>1, <2>2
<1>6. CASE Crash
  <2>1. TypeOK'
    BY <1>6 DEF Crash, TypeOK, InSave
  <2>2. NeverTorn' /\ OkMeansStored'
    BY <1>6 DEF Crash, NeverTorn, Whole, OkMeansStored
  <2> QED
    BY <2>1, <2>2
<1>7. CASE PowerLoss
  <2>1. path' = dpath /\ dpath' = dpath
    BY <1>7 DEF PowerLoss, Surviving, NeverTorn, Whole
  <2>2. tmp' \in File
    <3>1. ASSUME tmp' = [data |-> Torn, synced |-> TRUE] PROVE tmp' \in File
      BY <3>1, Zenon DEF File
    <3> QED
      BY <1>7, <3>1, Files DEF PowerLoss, Surviving, TypeOK
  <2>3. TypeOK'
    BY <1>7, <2>1, <2>2 DEF PowerLoss, TypeOK, InSave
  <2>4. NeverTorn' /\ OkMeansStored'
    BY <1>7, <2>1 DEF PowerLoss, NeverTorn, Whole, OkMeansStored
  <2> QED
    BY <2>3, <2>4
<1>8. CASE UNCHANGED vars
  BY <1>8 DEF vars, TypeOK, InSave, NeverTorn, Whole, OkMeansStored, Load
<1> QED
  BY <1>1, <1>2, <1>3, <1>4, <1>5, <1>6, <1>7, <1>8 DEF Next

LEMMA StoreInvAlways == Spec => []StoreInv
  BY StoreInvInit, StoreInvStep, PTL DEF Spec

-----------------------------------------------------------------------------
(* lib.rs:91-114: the variables keep their types, and each call of save    *)
(* finds what the calls before it left.                                    *)
THEOREM TypeCorrect == Spec => []TypeOK
  BY StoreInvAlways, PTL DEF StoreInv

(* lib.rs:9-11: no crash, power loss or failed call leaves a state file    *)
(* that does not parse.                                                    *)
THEOREM NeverTornAlways == Spec => []NeverTorn
  BY StoreInvAlways, PTL DEF StoreInv

(* lib.rs:48-49: what save said Ok to is what a load returns.              *)
THEOREM OkMeansStoredAlways == Spec => []OkMeansStored
  BY StoreInvAlways, PTL DEF StoreInv

-----------------------------------------------------------------------------
(* Only the rename changes what a load sees, and then to the snapshot      *)
(* being saved: every step is a Save, a Flush, a PowerLoss or a stutter of *)
(* the register.                                                           *)
LEMMA StepImplements ==
  StoreInv /\ [Next]_vars => [Atomic!StoreNext]_(Atomic!storeVars)
<1> SUFFICES ASSUME StoreInv, [Next]_vars
             PROVE  [Atomic!StoreNext]_(Atomic!storeVars)
  OBVIOUS
<1> USE DEF Atomic!StoreNext, Atomic!storeVars
<1>1. ASSUME NEW v \in Values, Create(v) PROVE UNCHANGED Atomic!storeVars
  BY <1>1 DEF Create
<1>2. CASE Write \/ SyncAll \/ Crash
  BY <1>2 DEF Write, SyncAll, Crash
<1>3. CASE Rename
  <2>1. CASE path' = tmp
    <3>1. tmp.data = arg /\ arg \in Values
      BY <1>3 DEF Rename, StoreInv, TypeOK, InSave
    <3>2. Atomic!Save(arg)
      BY <1>3, <2>1, <3>1 DEF Rename, Atomic!Save
    <3> QED
      BY <3>1, <3>2
  <2>2. CASE UNCHANGED path
    BY <1>3, <2>2 DEF Rename
  <2> QED
    BY <1>3, <2>1, <2>2 DEF Rename
<1>4. CASE Commit
  BY <1>4 DEF Commit, Atomic!Flush
<1>5. CASE PowerLoss
  BY <1>5 DEF PowerLoss, Surviving, StoreInv, NeverTorn, Whole, Atomic!PowerLoss
<1>6. CASE UNCHANGED vars
  BY <1>6 DEF vars
<1> QED
  BY <1>1, <1>2, <1>3, <1>4, <1>5, <1>6 DEF Next

(* lib.rs:9-12: the file store implements the atomic register.             *)
THEOREM ImplementsAtomicStore == Spec => AtomicSpec
<1>1. Init => Atomic!StoreInit
  BY DEF Init, NoFile, Atomic!StoreInit
<1> QED
  BY <1>1, StoreInvAlways, StepImplements, PTL DEF Spec, AtomicSpec, Atomic!StoreSpec
=============================================================================
