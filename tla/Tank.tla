-------------------------------- MODULE Tank --------------------------------
(***************************************************************************)
(* The durable runtime of `serve` (aquilo-server/src/server.rs): what each *)
(* reading does to the current /state, the history and the pump-out        *)
(* baseline, what is persisted, and what comes back after a crash, a power *)
(* loss, an unreadable store or a change of configuration.                 *)
(*                                                                         *)
(* The store is the register of AtomicStore, which JsonStore implements.   *)
(* The wall clock is an input: nothing in the code needs it to advance,    *)
(* and a host without a clock battery may step it back.                    *)
(***************************************************************************)
EXTENDS Formulas

CONSTANTS Levels,      \* the levels a reading may carry
          Times,       \* the times the wall clock may show
          Configs,     \* [cal, cap, drop, seed]: the configurations
          NoSnapshot,  \* there is no state file
          MaxReads     \* bound on the number of readings

ASSUME TankAssumption ==
  /\ Levels \subseteq Int
  /\ Times \subseteq Nat \ {NoTime}
  /\ MaxReads \in Nat
  /\ \A c \in Configs :
       /\ c.cal.full \in Int /\ c.cal.empty \in Int
       /\ c.cap \in Nat /\ c.drop \in Int
       /\ c.seed.lvl \in Int /\ c.seed.pct \in 0..100
       /\ c.seed.lstEmpty \in Times \cup {NoTime}
       /\ c.seed.daysLeft \in Nat /\ c.seed.lvlToFull \in Int

VARIABLES cfg,      \* the configuration of this run of the process
          up,       \* the process runs
          rt,       \* struct Runtime: [current, history, lstEmpty]
          disk,     \* the snapshot a load returns
          durable,  \* the snapshot a load returns after a power loss
          reads,    \* readings applied so far (bounds the model)
          saved     \* history variable: the last persist succeeded, and
                    \* no power loss has taken the file back since
vars == <<cfg, up, rt, disk, durable, reads, saved>>

ReadingRecord == [ts : Times, lvl : Levels]
SensorState == [lvl : Int, pct : 0..100, lstRead : Times,
                lstEmpty : Times \cup {NoTime}, daysLeft : Nat, lvlToFull : Int]
Runtime == [current : SensorState, history : Seq(ReadingRecord),
            lstEmpty : Times \cup {NoTime}]
Calibration == {c.cal : c \in Configs}
PersistedState == [history : Seq(ReadingRecord), lstEmpty : Times \cup {NoTime},
                   lastState : SensorState, calibration : Calibration]

ASSUME NoSnapshotAssumption == NoSnapshot \notin PersistedState

Store == INSTANCE AtomicStore WITH
           Values <- PersistedState, Absent <- NoSnapshot, view <- disk

TypeOK ==
  /\ cfg \in Configs
  /\ up \in BOOLEAN /\ saved \in BOOLEAN
  /\ reads \in Nat
  /\ rt \in Runtime
  /\ disk \in PersistedState \cup {NoSnapshot}
  /\ durable \in PersistedState \cup {NoSnapshot}

-----------------------------------------------------------------------------
(* seed_state: the configured placeholder, read `now`. *)
SeedState(c, now) ==
  [lvl |-> c.seed.lvl, pct |-> c.seed.pct, lstRead |-> now,
   lstEmpty |-> c.seed.lstEmpty, daysLeft |-> c.seed.daysLeft,
   lvlToFull |-> c.seed.lvlToFull]

SeedRuntime(c, now) ==
  [current |-> SeedState(c, now), history |-> <<>>, lstEmpty |-> c.seed.lstEmpty]

(* Bug: the configured baseline goes before the stored one. *)
RestoredConfigured(c, p) ==
  [current |-> p.lastState,
   history |-> p.history,
   lstEmpty |-> IF c.seed.lstEmpty = NoTime THEN p.lstEmpty ELSE c.seed.lstEmpty]

(* load_runtime's Ok(Some(p)).  Every file this program writes has a       *)
(* last_state, so its fallback to the seed is never taken.                 *)
Restored(c, p) ==
  [current |-> p.lastState,
   history |-> p.history,
   lstEmpty |-> IF p.lstEmpty = NoTime THEN c.seed.lstEmpty ELSE p.lstEmpty]

Snapshot(c, r) ==
  [history |-> r.history, lstEmpty |-> r.lstEmpty,
   lastState |-> r.current, calibration |-> c.cal]

(* persist: the failure of save is logged and otherwise ignored. *)
Persist(c, r) ==
  \/ Store!Save(Snapshot(c, r)) /\ saved' = TRUE
  \/ UNCHANGED <<disk, durable>> /\ saved' = FALSE

(* Bugs: what is over the cap is the newest; only one record is dropped. *)
PushDroppingNewest(h, r, cap) ==
  LET all == Append(h, r) IN IF Len(all) > cap THEN SubSeq(all, 1, cap) ELSE all
PushDroppingOne(h, r, cap) ==
  LET all == Append(h, r) IN IF Len(all) > cap THEN Tail(all) ELSE all

(* Vec::push, then drain of what is over the cap, the oldest first. *)
PushTrimmed(h, r, cap) ==
  LET all == Append(h, r)
  IN IF Len(all) > cap THEN SubSeq(all, Len(all) - cap + 1, Len(all)) ELSE all

(* SensorState::compute; identity and battery are left out. *)
Compute(lvl, cal, lstEmpty, daysLeft, lstRead) ==
  [lvl |-> lvl, pct |-> Pct(lvl, cal), lstRead |-> lstRead,
   lstEmpty |-> lstEmpty, daysLeft |-> daysLeft, lvlToFull |-> LvlToFull(lvl, cal)]

(* Bug: the state is computed before the baseline moves. *)
ApplyReadingShowsOld(c, r, lvl, now) ==
  LET history == PushTrimmed(r.history, [ts |-> now, lvl |-> lvl], c.cap)
  IN [current |-> Compute(lvl, c.cal, r.lstEmpty, r.current.daysLeft, now),
      history |-> history,
      lstEmpty |-> IF IsPumpOut(r.current.pct, Pct(lvl, c.cal), c.drop) THEN now
                   ELSE r.lstEmpty]

(* Runtime::apply_reading. *)
ApplyReading(c, r, lvl, now) ==
  LET lstEmpty == IF IsPumpOut(r.current.pct, Pct(lvl, c.cal), c.drop) THEN now
                  ELSE r.lstEmpty
      history == PushTrimmed(r.history, [ts |-> now, lvl |-> lvl], c.cap)
      daysLeft == IF Projects(history) THEN DaysLeft(history, c.cal.full)
                  ELSE r.current.daysLeft
  IN [current |-> Compute(lvl, c.cal, lstEmpty, daysLeft, now),
      history |-> history,
      lstEmpty |-> lstEmpty]

-----------------------------------------------------------------------------
(* Before the first start rt has no meaning; the seed stands for it. *)
Init == /\ cfg \in Configs
        /\ up = FALSE
        /\ rt \in {SeedRuntime(cfg, now) : now \in Times}
        /\ Store!StoreInit
        /\ reads = 0
        /\ saved = FALSE

(* run:74-77 when the state file is there and parses. *)
BootLoaded ==
  /\ ~up /\ up' = TRUE
  /\ disk # NoSnapshot
  /\ rt' = Restored(cfg, disk)
  /\ Persist(cfg, rt')
  /\ UNCHANGED <<cfg, reads>>

(* run:74-77 when there is no file, or it cannot be read: Ok(None), Err.   *)
BootSeeded ==
  /\ ~up /\ up' = TRUE
  /\ \E now \in Times : rt' = SeedRuntime(cfg, now)
  /\ Persist(cfg, rt')
  /\ UNCHANGED <<cfg, reads>>

(* handle_read up to the publication: apply_reading, then persist. *)
HandleRead(lvl, now) ==
  /\ up /\ reads < MaxReads
  /\ rt' = ApplyReading(cfg, rt, lvl, now)
  /\ Persist(cfg, rt')
  /\ reads' = reads + 1
  /\ UNCHANGED <<cfg, up>>

(* The process dies or is stopped.  rt keeps what it had in memory, for    *)
(* the properties to compare with; no action reads it while ~up.           *)
Crash == up /\ up' = FALSE /\ UNCHANGED <<cfg, rt, disk, durable, reads, saved>>

(* The host loses power. *)
PowerLoss == /\ up' = FALSE
             /\ Store!PowerLoss
             /\ saved' = (saved /\ durable = disk)
             /\ UNCHANGED <<cfg, rt, reads>>

Flush == Store!Flush /\ UNCHANGED <<cfg, up, rt, reads, saved>>

(* Options take effect on restart (addon/aquilo-server/DOCS.md:59). *)
Reconfigure == /\ ~up
               /\ cfg' \in Configs \ {cfg}
               /\ UNCHANGED <<up, rt, disk, durable, reads, saved>>

Next == \/ BootLoaded \/ BootSeeded
        \/ \E lvl \in Levels, now \in Times : HandleRead(lvl, now)
        \/ Crash \/ PowerLoss \/ Flush \/ Reconfigure

Spec == Init /\ [][Next]_vars

-----------------------------------------------------------------------------
(* What is in memory while the process runs, and what may be loaded. *)
View(r) == [history |-> r.history, lstEmpty |-> r.lstEmpty, lastState |-> r.current]
Views == {s \in {disk, durable} : s # NoSnapshot} \cup (IF up THEN {View(rt)} ELSE {})

(* server.rs:5-9: in memory, on disk and in what a power loss brings back, *)
(* the current /state is the one of the newest reading in the history: the *)
(* two are never taken from different moments.                             *)
MatchesHistory(s) ==
  LET h == s.history
  IN Len(h) > 0 => /\ h[Len(h)].ts = s.lastState.lstRead
                   /\ h[Len(h)].lvl = s.lastState.lvl
StateMatchesHistory == \A s \in Views : MatchesHistory(s)

(* server.rs:346-350,190-191: the lstEmpty shown in /state is the baseline *)
(* of the runtime, or still unknown: a pump-out never reaches one of them  *)
(* without the other, through any number of restarts.                      *)
ShowsBaseline(s) == s.lastState.lstEmpty \in {s.lstEmpty, NoTime}
ShownBaseline == \A s \in Views : ShowsBaseline(s)

(* server.rs:130-132: when the last persist went through, a restart with a *)
(* readable store brings back the exact state, history and baseline,       *)
(* whatever was configured in between; an unknown baseline may be filled   *)
(* in from the configuration.                                              *)
RestartTransparent ==
  [][BootLoaded /\ saved =>
       /\ rt'.current = rt.current
       /\ rt'.history = rt.history
       /\ rt.lstEmpty # NoTime => rt'.lstEmpty = rt.lstEmpty]_vars

(* config.rs:37-39: after a reading the history is within the cap, also    *)
(* when the cap was lowered below what had been stored, and the reading is *)
(* in it (unless nothing may be kept).                                     *)
CapHonoured ==
  [][reads' > reads =>
       /\ Len(rt'.history) <= cfg.cap
       /\ cfg.cap > 0 => rt'.history[Len(rt'.history)].ts = rt'.current.lstRead
       /\ Len(rt'.history) < cfg.cap => Len(rt'.history) = Len(rt.history) + 1]_vars

-----------------------------------------------------------------------------
(* Positions of the history at which the fullness fell by the threshold. *)
Drops(h, c) == {i \in 2..Len(h) :
                  Pct(h[i - 1].lvl, c.cal) - Pct(h[i].lvl, c.cal) >= c.drop}
IsLastDrop(h, c, i) == i \in Drops(h, c) /\ \A j \in Drops(h, c) : j <= i

(* README.md:304: lstEmpty is the time of the last pump-out the history    *)
(* shows, in memory, on disk and in what a power loss brings back.  Holds  *)
(* while the calibration and the threshold are not changed.                *)
DatesLastDrop(s, c) ==
  \A i \in 2..Len(s.history) :
    IsLastDrop(s.history, c, i) => s.lstEmpty = s.history[i].ts
LatestPumpOut == \A s \in Views : DatesLastDrop(s, cfg)

(* config.rs:40-41, history.rs:21-24: lstEmpty moves to a new reading only *)
(* if the tank is emptier in it than in the reading before: its distance   *)
(* grew.                                                                   *)
ResetOnlyOnAFall ==
  [][(reads' > reads /\ Len(rt.history) > 0 /\ rt'.lstEmpty # rt.lstEmpty)
       => rt'.current.lvl > rt.history[Len(rt.history)].lvl]_vars

(* README.md:303: daysLeft is a projection since lstEmpty: when the        *)
(* readings from the last pump-out on have a filling trend, it is theirs.  *)
(* Said of a clock that advanced between any two readings.                 *)
Advancing(h) == \A i \in 2..Len(h) : h[i - 1].ts < h[i].ts
ProjectedSinceEmpty ==
  (up /\ Advancing(rt.history)) => \A i \in 2..Len(rt.history) :
    LET since == SubSeq(rt.history, i, Len(rt.history))
    IN (IsLastDrop(rt.history, cfg, i) /\ Projects(since))
         => rt.current.daysLeft = DaysLeft(since, cfg.cal.full)
=============================================================================
