----------------------------- MODULE JsonStore ------------------------------
(***************************************************************************)
(* JsonFileStore of aquilo-store: save writes a temp file, fsyncs it and   *)
(* renames it over the target.  Each system call is a step; each may fail, *)
(* and between any two the process may die or the power may go.            *)
(*                                                                         *)
(* The file system: a file's bytes survive a power loss once fsynced;      *)
(* otherwise they may be torn.  A rename is atomic, and reaches the disk   *)
(* when the journal commits (the code does not fsync the directory).  A    *)
(* file at the target path is never written again, so the durable          *)
(* directory entry can be a copy of the file.                              *)
(***************************************************************************)
CONSTANTS Values,   \* the snapshots that may be saved
          Absent,   \* no file
          Torn      \* bytes that do not parse

ASSUME JsonStoreAssumption == /\ Absent \notin Values
                              /\ Torn \notin Values
                              /\ Absent # Torn

VARIABLES path,    \* the file at the target path, [data, synced]
          tmp,     \* the file at the temp path
          dpath,   \* the target's entry as the disk has it
          pc,      \* the next step of save, "idle" when not in save
          arg,     \* the snapshot being saved
          reply    \* what the last save returned, "none" since a crash
vars == <<path, tmp, dpath, pc, arg, reply>>

(* No file, as far as a load can tell: there is nothing to be torn. *)
NoFile == [data |-> Absent, synced |-> TRUE]
File == [data : Values \cup {Absent, Torn}, synced : BOOLEAN]

(* What each call of save may count on. *)
InSave == /\ pc = "sync" => tmp.data = arg
          /\ pc = "rename" => tmp.data = arg /\ tmp.synced
          /\ pc # "idle" => arg \in Values

TypeOK == /\ path \in File /\ tmp \in File /\ dpath \in File
          /\ pc \in {"idle", "write", "sync", "rename"}
          /\ arg \in Values \cup {Absent}
          /\ reply \in {"none", "ok", "err"}
          /\ InSave

(* JsonFileStore::load: the snapshot, Absent for None, Torn for an error.  *)
Load == path.data

Init == /\ path = NoFile /\ tmp = NoFile /\ dpath = NoFile
        /\ pc = "idle" /\ arg = Absent /\ reply = "none"

-----------------------------------------------------------------------------
(* save returns early with the `?` of the failing call. *)
Fail == pc' = "idle" /\ reply' = "err"

(* Bug: the target itself is opened for writing. *)
CreateInPlace(v) ==
  /\ pc = "idle" /\ pc' = "write"
  /\ arg' = v
  /\ path' = [data |-> Torn, synced |-> FALSE] /\ tmp' = path'
  /\ UNCHANGED <<dpath, reply>>

(* create_dir_all and File::create, which truncates a left-over temp file. *)
Create(v) ==
  /\ pc = "idle"
  /\ arg' = v
  /\ \/ /\ tmp' = [data |-> Torn, synced |-> FALSE]
        /\ pc' = "write"
        /\ UNCHANGED reply
     \/ Fail /\ UNCHANGED tmp
  /\ UNCHANGED <<path, dpath>>

(* Bug: the error of write_all is dropped. *)
WriteUnchecked ==
  /\ pc = "write" /\ pc' = "sync"
  /\ tmp' \in {tmp, [tmp EXCEPT !.data = arg]}
  /\ UNCHANGED <<path, dpath, arg, reply>>

(* write_all; it may fail part way. *)
Write ==
  /\ pc = "write"
  /\ \/ /\ tmp' = [tmp EXCEPT !.data = arg]
        /\ pc' = "sync"
        /\ UNCHANGED reply
     \/ Fail /\ UNCHANGED tmp
  /\ UNCHANGED <<path, dpath, arg>>

(* Bug: no fsync. *)
SyncSkipped ==
  /\ pc = "sync" /\ pc' = "rename"
  /\ UNCHANGED <<path, tmp, dpath, arg, reply>>

SyncAll ==
  /\ pc = "sync"
  /\ \/ /\ tmp' = [tmp EXCEPT !.synced = TRUE]
        /\ pc' = "rename"
        /\ UNCHANGED reply
     \/ Fail /\ UNCHANGED tmp
  /\ UNCHANGED <<path, dpath, arg>>

(* Bug: the error of rename is dropped. *)
RenameUnchecked ==
  /\ pc = "rename" /\ pc' = "idle" /\ reply' = "ok"
  /\ \/ path' = tmp /\ tmp' = NoFile
     \/ UNCHANGED <<path, tmp>>
  /\ UNCHANGED <<dpath, arg>>

Rename ==
  /\ pc = "rename"
  /\ \/ path' = tmp /\ tmp' = NoFile /\ pc' = "idle" /\ reply' = "ok"
     \/ Fail /\ UNCHANGED <<path, tmp>>
  /\ UNCHANGED <<dpath, arg>>

-----------------------------------------------------------------------------
(* The journal commits the directory. *)
Commit == dpath' = path /\ UNCHANGED <<path, tmp, pc, arg, reply>>

(* The process dies; the kernel keeps what it was given. *)
Crash == pc' = "idle" /\ reply' = "none" /\ UNCHANGED <<path, tmp, dpath, arg>>

(* What a file is after a power loss. *)
Surviving(f) == IF f.synced THEN {f} ELSE {f, [data |-> Torn, synced |-> TRUE]}

PowerLoss ==
  /\ \E f \in Surviving(dpath) : path' = f /\ dpath' = f
  /\ tmp' \in Surviving(tmp) \cup {NoFile}
  /\ pc' = "idle" /\ reply' = "none"
  /\ UNCHANGED arg

Next == \/ \E v \in Values : Create(v)
        \/ Write \/ SyncAll \/ Rename
        \/ Commit \/ Crash \/ PowerLoss

Spec == Init /\ [][Next]_vars

-----------------------------------------------------------------------------
(* lib.rs:9-11: whatever call failed and whenever the process died or the  *)
(* power went, the state file parses; so does the one a power loss would   *)
(* bring back.                                                             *)
Whole(f) == f.data # Torn /\ f.synced
NeverTorn == Whole(path) /\ Whole(dpath)

(* lib.rs:48-49,91-114: when save has returned Ok, and until a crash, a    *)
(* load returns the snapshot that was saved, however many saves failed     *)
(* half way before it.                                                     *)
OkMeansStored == (pc = "idle" /\ reply = "ok") => Load = arg

(* lib.rs:9-12: the file store implements the atomic register: a load sees *)
(* the previous good state or the new one.                                 *)
Atomic == INSTANCE AtomicStore WITH view <- path.data, durable <- dpath.data
AtomicSpec == Atomic!StoreSpec
=============================================================================
