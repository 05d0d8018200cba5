----------------------------- MODULE TankProofs -----------------------------
(***************************************************************************)
(* The runtime of `serve` keeps its types, its state in step with its      *)
(* history and its baseline, for every set of levels, times and            *)
(* configurations.                                                         *)
(***************************************************************************)
EXTENDS Tank, FormulasProofs, SequenceTheorems

LEMMA ConfigType ==
  ASSUME NEW c \in Configs
  PROVE  /\ c.cal.full \in Int /\ c.cal.empty \in Int /\ c.cal \in Calibration
         /\ c.cap \in Nat /\ c.drop \in Int
  BY TankAssumption DEF Calibration

(* config.rs:37-38: PushTrimmed returns the last records of the history    *)
(* with the new one behind them, at most cap of them.                      *)
LEMMA PushTrimmedSuffix ==
  ASSUME NEW S, NEW h \in Seq(S), NEW r \in S, NEW cap \in Nat
  PROVE  LET p == PushTrimmed(h, r, cap) IN
         /\ p \in Seq(S)
         /\ Len(p) <= cap
         /\ Len(p) <= Len(h) + 1
         /\ Len(p) < cap => Len(p) = Len(h) + 1
         /\ \A i \in 1..Len(p) :
              p[i] = IF i = Len(p) THEN r ELSE h[i + Len(h) + 1 - Len(p)]
<1> DEFINE all == Append(h, r)
           p == PushTrimmed(h, r, cap)
           n == Len(h) + 1
<1>1. /\ all \in Seq(S) /\ Len(all) = n /\ n \in Nat \ {0}
      /\ \A i \in 1..Len(h) : all[i] = h[i]
      /\ all[n] = r
  BY AppendProperties
<1> HIDE DEF all
<1>2. CASE n > cap
  <2>1. p = SubSeq(all, n - cap + 1, n)
    BY <1>1, <1>2 DEF PushTrimmed, all
  <2>2. \A i \in n - cap + 1 .. n : all[i] \in S
    BY <1>1, <1>2
  <2>3. /\ p \in Seq(S) /\ Len(p) = cap
        /\ \A i \in 1..cap : p[i] = all[n - cap + i]
    BY <1>1, <1>2, <2>1, <2>2, SubSeqProperties
  <2> HIDE DEF p
  <2>4. ASSUME NEW i \in 1..cap
        PROVE  p[i] = IF i = cap THEN r ELSE h[i + Len(h) + 1 - cap]
    <3>1. CASE i = cap
      BY <1>1, <2>3, <3>1
    <3>2. CASE i # cap
      <4> DEFINE k == n - cap + i
      <4>1. k \in 1..Len(h) /\ k = i + Len(h) + 1 - cap
        BY <1>1, <1>2, <3>2
      <4>2. p[i] = all[k]
        BY <2>3
      <4> HIDE DEF k
      <4>3. p[i] = h[i + Len(h) + 1 - cap]
        BY <1>1, <4>1, <4>2
      <4> QED
        BY <3>2, <4>3
    <3> QED
      BY <3>1, <3>2
  <2>5. Len(p) <= cap /\ Len(p) <= Len(h) + 1 /\ ~(Len(p) < cap)
    BY <1>1, <1>2, <2>3
  <2> QED
    BY <2>3, <2>4, <2>5 DEF p
<1>3. CASE n <= cap
  <2>1. p = all
    BY <1>1, <1>3 DEF PushTrimmed, all
  <2>2. ASSUME NEW i \in 1..n
        PROVE  all[i] = IF i = n THEN r ELSE h[i + Len(h) + 1 - n]
    <3>1. CASE i = n
      BY <1>1, <3>1
    <3>2. CASE i # n
      <4>1. i \in 1..Len(h) /\ i + Len(h) + 1 - n = i
        BY <1>1, <3>2
      <4> QED
        BY <1>1, <3>2, <4>1
    <3> QED
      BY <3>1, <3>2
  <2> QED
    BY <1>1, <1>3, <2>1, <2>2
<1> QED
  BY <1>1, <1>2, <1>3

-----------------------------------------------------------------------------
LEMMA SeedRuntimeType ==
  ASSUME NEW c \in Configs, NEW now \in Times
  PROVE  SeedRuntime(c, now) \in Runtime
  BY TankAssumption DEF SeedRuntime, SeedState, Runtime, SensorState

LEMMA RestoredType ==
  ASSUME NEW c \in Configs, NEW p \in PersistedState
  PROVE  Restored(c, p) \in Runtime
<1>1. c.seed.lstEmpty \in Times \cup {NoTime}
  BY TankAssumption
<1> QED
  BY <1>1 DEF Restored, Runtime, PersistedState

LEMMA SnapshotType ==
  ASSUME NEW c \in Configs, NEW r \in Runtime
  PROVE  Snapshot(c, r) \in PersistedState
  BY ConfigType DEF Snapshot, Runtime, PersistedState

LEMMA ApplyReadingType ==
  ASSUME NEW c \in Configs, NEW r \in Runtime, NEW lvl \in Levels, NEW now \in Times
  PROVE  ApplyReading(c, r, lvl, now) \in Runtime
<1> DEFINE newPct == Pct(lvl, c.cal)
           rec == [ts |-> now, lvl |-> lvl]
           history == PushTrimmed(r.history, rec, c.cap)
           lstEmpty == IF IsPumpOut(r.current.pct, newPct, c.drop) THEN now ELSE r.lstEmpty
           daysLeft == IF Projects(history) THEN DaysLeft(history, c.cal.full)
                       ELSE r.current.daysLeft
           full == LvlToFull(lvl, c.cal)
<1>1. lvl \in Int
  BY TankAssumption
<1>2. newPct \in 0..100
  BY <1>1, ConfigType, PctRange
<1>3. full \in Int
  BY <1>1, ConfigType, LvlToFullInt
<1>4. rec \in ReadingRecord
  BY DEF ReadingRecord
<1>5. history \in Seq(ReadingRecord)
  BY <1>4, ConfigType, PushTrimmedSuffix DEF Runtime
<1>6. daysLeft \in Nat
  BY DaysLeftNat DEF Runtime, SensorState
<1>7. lstEmpty \in Times \cup {NoTime}
  BY DEF Runtime
<1>8. ApplyReading(c, r, lvl, now) =
        [current |-> [lvl |-> lvl, pct |-> newPct, lstRead |-> now, lstEmpty |-> lstEmpty,
                      daysLeft |-> daysLeft, lvlToFull |-> full],
         history |-> history, lstEmpty |-> lstEmpty]
  BY DEF ApplyReading, Compute
<1> HIDE DEF newPct, history, lstEmpty, daysLeft, full
<1> QED
  BY <1>1, <1>2, <1>3, <1>5, <1>6, <1>7, <1>8 DEF Runtime, SensorState

-----------------------------------------------------------------------------
(* What a view of the runtime satisfies after each of the ways to make one.*)
Good(s) == MatchesHistory(s) /\ ShowsBaseline(s)

LEMMA SeedGood ==
  ASSUME NEW c \in Configs, NEW now \in Times
  PROVE  Good(View(SeedRuntime(c, now)))
  BY DEF Good, MatchesHistory, ShowsBaseline, View, SeedRuntime, SeedState

LEMMA RestoredGood ==
  ASSUME NEW c \in Configs, NEW p \in PersistedState, Good(p)
  PROVE  Good(View(Restored(c, p)))
  BY DEF Good, MatchesHistory, ShowsBaseline, View, Restored

LEMMA SnapshotGood ==
  ASSUME NEW c \in Configs, NEW r \in Runtime, Good(View(r))
  PROVE  Good(Snapshot(c, r))
  BY DEF Good, MatchesHistory, ShowsBaseline, View, Snapshot

LEMMA ApplyReadingGood ==
  ASSUME NEW c \in Configs, NEW r \in Runtime, NEW lvl \in Levels, NEW now \in Times
  PROVE  Good(View(ApplyReading(c, r, lvl, now)))
<1> DEFINE rec == [ts |-> now, lvl |-> lvl]
           p == PushTrimmed(r.history, rec, c.cap)
           a == ApplyReading(c, r, lvl, now)
<1>1. rec \in ReadingRecord /\ r.history \in Seq(ReadingRecord) /\ c.cap \in Nat
  BY ConfigType DEF ReadingRecord, Runtime
<1>2. p \in Seq(ReadingRecord) /\ (Len(p) > 0 => p[Len(p)] = rec)
  <2>1. p \in Seq(ReadingRecord) /\ \A i \in 1..Len(p) : i = Len(p) => p[i] = rec
    BY <1>1, PushTrimmedSuffix
  <2>2. Len(p) \in Nat
    BY <2>1, LenProperties
  <2> HIDE DEF p
  <2> QED
    BY <2>1, <2>2
<1>3. /\ a.history = p /\ a.lstEmpty = a.current.lstEmpty
      /\ a.current.lvl = lvl /\ a.current.lstRead = now
  BY DEF ApplyReading, Compute
<1> HIDE DEF a, p
<1>4. Good(View(a))
  BY <1>2, <1>3 DEF Good, MatchesHistory, ShowsBaseline, View
<1> QED
  BY <1>4 DEF a

-----------------------------------------------------------------------------
(* The invariant, one view at a time: rt satisfies it also while the       *)
(* process is down, since it then holds what was in memory.                *)
TankInv ==
  /\ TypeOK
  /\ up => Good(View(rt))
  /\ disk # NoSnapshot => Good(disk)
  /\ durable # NoSnapshot => Good(durable)

LEMMA PersistInv ==
  ASSUME TankInv, Persist(cfg, rt'), rt' \in Runtime, Good(View(rt'))
  PROVE  /\ disk' \in PersistedState \cup {NoSnapshot}
         /\ durable' \in PersistedState \cup {NoSnapshot}
         /\ saved' \in BOOLEAN
         /\ disk' # NoSnapshot => Good(disk')
         /\ durable' # NoSnapshot => Good(durable')
<1>1. cfg \in Configs
  BY DEF TankInv, TypeOK
<1>2. Snapshot(cfg, rt') \in PersistedState /\ Good(Snapshot(cfg, rt'))
  BY <1>1, SnapshotType, SnapshotGood
<1>3. CASE Store!Save(Snapshot(cfg, rt')) /\ saved' = TRUE
  BY <1>2, <1>3 DEF Store!Save, TankInv, TypeOK
<1>4. CASE UNCHANGED <<disk, durable>> /\ saved' = FALSE
  BY <1>4 DEF TankInv, TypeOK
<1> QED
  BY <1>3, <1>4 DEF Persist

LEMMA TankInvInit == Init => TankInv
<1> SUFFICES ASSUME Init PROVE TankInv
  OBVIOUS
<1>1. cfg \in Configs /\ rt \in Runtime
  BY SeedRuntimeType DEF Init
<1>2. up = FALSE /\ saved = FALSE /\ reads = 0 /\ disk = NoSnapshot /\ durable = NoSnapshot
  BY DEF Init, Store!StoreInit
<1> QED
  BY <1>1, <1>2 DEF TankInv, TypeOK

LEMMA TankInvStep == TankInv /\ [Next]_vars => TankInv'
<1> SUFFICES ASSUME TankInv, [Next]_vars
             PROVE  TankInv'
  OBVIOUS
<1>0. cfg \in Configs /\ rt \in Runtime
  BY DEF TankInv, TypeOK
<1>1. CASE BootLoaded
  <2>1. disk \in PersistedState /\ Good(disk)
    BY <1>1 DEF BootLoaded, TankInv, TypeOK
  <2>2. rt' \in Runtime /\ Good(View(rt'))
    BY <1>0, <1>1, <2>1, RestoredType, RestoredGood DEF BootLoaded
  <2> QED
    BY <1>1, <2>2, PersistInv DEF BootLoaded, TankInv, TypeOK
<1>2. CASE BootSeeded
  <2>1. rt' \in Runtime /\ Good(View(rt'))
    BY <1>0, <1>2, SeedRuntimeType, SeedGood DEF BootSeeded
  <2> QED
    BY <1>2, <2>1, PersistInv DEF BootSeeded, TankInv, TypeOK
<1>3. ASSUME NEW lvl \in Levels, NEW now \in Times, HandleRead(lvl, now)
      PROVE  TankInv'
  <2>1. rt' \in Runtime /\ Good(View(rt'))
    BY <1>0, <1>3, ApplyReadingType, ApplyReadingGood DEF HandleRead
  <2> QED
    BY <1>3, <2>1, PersistInv DEF HandleRead, TankInv, TypeOK
<1>4. CASE Crash
  BY <1>4 DEF Crash, TankInv, TypeOK
<1>5. CASE PowerLoss
  BY <1>5 DEF PowerLoss, Store!PowerLoss, TankInv, TypeOK
<1>6. CASE Flush
  BY <1>6 DEF Flush, Store!Flush, TankInv, TypeOK
<1>7. CASE Reconfigure
  BY <1>7 DEF Reconfigure, TankInv, TypeOK
<1>8. CASE UNCHANGED vars
  BY <1>8 DEF vars, TankInv, TypeOK
<1> QED
  BY <1>1, <1>2, <1>3, <1>4, <1>5, <1>6, <1>7, <1>8 DEF Next

LEMMA TankInvAlways == Spec => []TankInv
  BY TankInvInit, TankInvStep, PTL DEF Spec

(* server.rs:36-43: the runtime and every snapshot keep their types: pct   *)
(* is a percentage and daysLeft a number of days.                          *)
THEOREM TypeCorrect == Spec => []TypeOK
  BY TankInvAlways, PTL DEF TankInv

LEMMA ViewsGood == TankInv => \A s \in Views : Good(s)
  BY DEF TankInv, Views

(* server.rs:5-9: the current /state is the one of the newest reading in   *)
(* the history, in memory and in whatever a restart may load.              *)
THEOREM StateAlwaysMatchesHistory == Spec => []StateMatchesHistory
<1>1. TankInv => StateMatchesHistory
  BY ViewsGood DEF StateMatchesHistory, Good
<1> QED
  BY <1>1, TankInvAlways, PTL

(* server.rs:346-350: the baseline shown is the baseline kept.             *)
THEOREM BaselineAlwaysShown == Spec => []ShownBaseline
<1>1. TankInv => ShownBaseline
  BY ViewsGood DEF ShownBaseline, Good
<1> QED
  BY <1>1, TankInvAlways, PTL

-----------------------------------------------------------------------------
(* While `saved` holds, the file has what the runtime has. *)
SavedInv ==
  saved => /\ disk # NoSnapshot
           /\ disk.lastState = rt.current
           /\ disk.history = rt.history
           /\ disk.lstEmpty = rt.lstEmpty

LEMMA PersistSaved ==
  ASSUME cfg \in Configs, Persist(cfg, rt'), rt' \in Runtime
  PROVE  SavedInv'
<1>1. Snapshot(cfg, rt') # NoSnapshot
  BY SnapshotType, NoSnapshotAssumption
<1>2. CASE Store!Save(Snapshot(cfg, rt')) /\ saved' = TRUE
  BY <1>1, <1>2 DEF Store!Save, Snapshot, SavedInv
<1>3. CASE saved' = FALSE
  BY <1>3 DEF SavedInv
<1> QED
  BY <1>2, <1>3 DEF Persist

LEMMA SavedInvStep == TankInv /\ TankInv' /\ SavedInv /\ [Next]_vars => SavedInv'
<1> SUFFICES ASSUME TankInv, TankInv', SavedInv, [Next]_vars
             PROVE  SavedInv'
  OBVIOUS
<1>1. cfg \in Configs /\ rt' \in Runtime
  BY DEF TankInv, TypeOK
<1>2. CASE BootLoaded \/ BootSeeded
  BY <1>1, <1>2, PersistSaved DEF BootLoaded, BootSeeded
<1>3. ASSUME NEW lvl \in Levels, NEW now \in Times, HandleRead(lvl, now)
      PROVE  SavedInv'
  BY <1>1, <1>3, PersistSaved DEF HandleRead
<1>4. CASE PowerLoss
  BY <1>4 DEF PowerLoss, Store!PowerLoss, SavedInv
<1>5. CASE Crash \/ Flush \/ Reconfigure \/ UNCHANGED vars
  BY <1>5 DEF Crash, Flush, Store!Flush, Reconfigure, vars, SavedInv
<1> QED
  BY <1>2, <1>3, <1>4, <1>5 DEF Next

(* server.rs:130-132: after a crash or a stop, a restart with a readable   *)
(* store brings back exactly what was in memory, if the last persist went  *)
(* through and no power loss took it back.                                 *)
THEOREM RestartsAreTransparent == Spec => RestartTransparent
<1>1. Init => SavedInv
  BY DEF Init, SavedInv
<1>2. Spec => []SavedInv
  BY <1>1, SavedInvStep, TankInvAlways, PTL DEF Spec
<1>3. SavedInv /\ [Next]_vars =>
        [BootLoaded /\ saved =>
           /\ rt'.current = rt.current
           /\ rt'.history = rt.history
           /\ rt.lstEmpty # NoTime => rt'.lstEmpty = rt.lstEmpty]_vars
  BY DEF SavedInv, BootLoaded, Restored
<1> QED
  BY <1>2, <1>3, PTL DEF Spec, RestartTransparent

-----------------------------------------------------------------------------
(* What a reading does to the history. *)
LEMMA ReadHistory ==
  ASSUME TankInv, [Next]_vars, reads' > reads
  PROVE  \E lvl \in Levels, now \in Times :
           /\ rt' = ApplyReading(cfg, rt, lvl, now)
           /\ rt'.history = PushTrimmed(rt.history, [ts |-> now, lvl |-> lvl], cfg.cap)
           /\ rt'.current.lstRead = now /\ rt'.current.lvl = lvl
           /\ UNCHANGED cfg
<1>1. reads \in Nat /\ ~(reads > reads)
  BY DEF TankInv, TypeOK
<1>2. PICK lvl \in Levels, now \in Times : HandleRead(lvl, now)
  BY <1>1 DEF Next, BootLoaded, BootSeeded, Crash, PowerLoss, Flush, Reconfigure, vars
<1>3. rt' = ApplyReading(cfg, rt, lvl, now) /\ UNCHANGED cfg
  BY <1>2 DEF HandleRead
<1> QED
  BY <1>3 DEF ApplyReading, Compute

(* config.rs:37-39: a reading leaves the history within the cap and is the *)
(* newest record of it, whatever cap the stored history was written under. *)
THEOREM CapAlwaysHonoured == Spec => CapHonoured
<1> DEFINE A == reads' > reads =>
                  /\ Len(rt'.history) <= cfg.cap
                  /\ cfg.cap > 0 => rt'.history[Len(rt'.history)].ts = rt'.current.lstRead
                  /\ Len(rt'.history) < cfg.cap => Len(rt'.history) = Len(rt.history) + 1
<1>1. TankInv /\ [Next]_vars => [A]_vars
  <2> SUFFICES ASSUME TankInv, [Next]_vars, reads' > reads
               PROVE  A
    OBVIOUS
  <2>1. PICK lvl \in Levels, now \in Times :
          /\ rt'.history = PushTrimmed(rt.history, [ts |-> now, lvl |-> lvl], cfg.cap)
          /\ rt'.current.lstRead = now
    BY ReadHistory
  <2> DEFINE rec == [ts |-> now, lvl |-> lvl]
             p == PushTrimmed(rt.history, rec, cfg.cap)
  <2>2. rec \in ReadingRecord /\ rt.history \in Seq(ReadingRecord) /\ cfg.cap \in Nat
    BY ConfigType DEF ReadingRecord, Runtime, TankInv, TypeOK
  <2>3. /\ p \in Seq(ReadingRecord) /\ Len(p) <= cfg.cap
        /\ Len(p) < cfg.cap => Len(p) = Len(rt.history) + 1
        /\ \A i \in 1..Len(p) : i = Len(p) => p[i] = rec
    BY <2>2, PushTrimmedSuffix
  <2>4. Len(p) \in Nat /\ Len(rt.history) \in Nat
    BY <2>2, <2>3, LenProperties
  <2>5. p = rt'.history /\ rec.ts = rt'.current.lstRead
    BY <2>1
  <2> HIDE DEF p, rec
  <2>6. cfg.cap > 0 => Len(p) > 0
    BY <2>2, <2>3, <2>4
  <2>7. cfg.cap > 0 => p[Len(p)] = rec
    BY <2>3, <2>4, <2>6
  <2> QED
    BY <2>3, <2>5, <2>7
<1> QED
  BY <1>1, TankInvAlways, PTL DEF Spec, CapHonoured

-----------------------------------------------------------------------------
(* The pump-out baseline.  What detects a pump-out is the calibration and  *)
(* the threshold; the results below are about processes that never change  *)
(* these, whatever else is reconfigured.                                   *)
SameDetection == \A c, d \in Configs : c.cal = d.cal /\ c.drop = d.drop

(* The percentage the next reading is compared with is that of the newest  *)
(* reading in the history.  (With another calibration it is not.)          *)
ComparesLast(s, c) ==
  Len(s.history) > 0 => s.lastState.pct = Pct(s.history[Len(s.history)].lvl, c.cal)

Dated(s, c) == ComparesLast(s, c) /\ DatesLastDrop(s, c)

LEMMA DatedSame ==
  ASSUME NEW s, NEW c, NEW d, c.cal = d.cal, c.drop = d.drop, Dated(s, c)
  PROVE  Dated(s, d)
  BY DEF Dated, ComparesLast, DatesLastDrop, IsLastDrop, Drops

LEMMA SeedDated ==
  ASSUME NEW c \in Configs, NEW now \in Times
  PROVE  Dated(View(SeedRuntime(c, now)), c)
  BY DEF Dated, ComparesLast, DatesLastDrop, View, SeedRuntime, SeedState

(* A history with a drop in it dates it: its baseline is known, and so the *)
(* configured one does not replace it.                                     *)
LEMMA RestoredDated ==
  ASSUME NEW c \in Configs, NEW p \in PersistedState, Dated(p, c)
  PROVE  Dated(View(Restored(c, p)), c)
<1> DEFINE r == View(Restored(c, p))
<1>1. /\ r.history = p.history /\ r.lastState = p.lastState
      /\ r.lstEmpty = IF p.lstEmpty = NoTime THEN c.seed.lstEmpty ELSE p.lstEmpty
  BY DEF View, Restored
<1>2. p.history \in Seq(ReadingRecord)
  BY DEF PersistedState
<1>3. ASSUME NEW i \in 2..Len(p.history), IsLastDrop(p.history, c, i)
      PROVE  r.lstEmpty = p.history[i].ts
  <2>1. p.lstEmpty = p.history[i].ts
    BY <1>3 DEF Dated, DatesLastDrop
  <2>2. p.history[i] \in ReadingRecord
    BY <1>2, LenProperties, ElementOfSeq
  <2>3. p.history[i].ts # NoTime
    BY <2>2, TankAssumption DEF ReadingRecord
  <2> QED
    BY <1>1, <2>1, <2>3
<1> HIDE DEF r
<1>4. Dated(r, c)
  BY <1>1, <1>3 DEF Dated, ComparesLast, DatesLastDrop
<1> QED
  BY <1>4 DEF r

LEMMA SnapshotDated ==
  ASSUME NEW c, NEW d, NEW r, Dated(View(r), c)
  PROVE  Dated(Snapshot(d, r), c)
  BY DEF Dated, ComparesLast, DatesLastDrop, View, Snapshot

(* PushTrimmedSuffix, for a history of readings.                           *)
LEMMA PushedReading ==
  ASSUME NEW h \in Seq(ReadingRecord), NEW rec \in ReadingRecord, NEW cap \in Nat
  PROVE  /\ PushTrimmed(h, rec, cap) \in Seq(ReadingRecord)
         /\ Len(PushTrimmed(h, rec, cap)) <= Len(h) + 1
         /\ \A i \in 1..Len(PushTrimmed(h, rec, cap)) :
              PushTrimmed(h, rec, cap)[i] =
                IF i = Len(PushTrimmed(h, rec, cap)) THEN rec
                ELSE h[i + Len(h) + 1 - Len(PushTrimmed(h, rec, cap))]
  BY PushTrimmedSuffix

(* The step that matters.  If the new reading ends a drop, it was measured *)
(* against the newest reading of the history, and the baseline moves to    *)
(* it.  If not, the baseline stays, and the last drop of the new history   *)
(* is the last drop of the old one, moved by what was trimmed.             *)
LEMMA ApplyReadingDated ==
  ASSUME NEW c \in Configs, NEW r \in Runtime, NEW lvl \in Levels, NEW now \in Times,
         Dated(View(r), c)
  PROVE  Dated(View(ApplyReading(c, r, lvl, now)), c)
<1> DEFINE rec == [ts |-> now, lvl |-> lvl]
           h == r.history
           p == PushTrimmed(h, rec, c.cap)
           n == Len(p)
           k == Len(h) + 1 - n
           a == ApplyReading(c, r, lvl, now)
           new == Pct(lvl, c.cal)
<1>1. rec \in ReadingRecord /\ h \in Seq(ReadingRecord) /\ c.cap \in Nat /\ c.drop \in Int
  BY ConfigType DEF ReadingRecord, Runtime
<1>2. /\ p \in Seq(ReadingRecord) /\ n <= Len(h) + 1
      /\ \A i \in 1..n : p[i] = IF i = n THEN rec ELSE h[i + Len(h) + 1 - n]
  <2> HIDE DEF rec, h
  <2> QED
    BY <1>1, PushedReading
<1>3. Len(h) \in Nat /\ n \in Nat /\ k \in Nat
  BY <1>1, <1>2, LenProperties
<1>4. rec.ts = now /\ rec.lvl = lvl
  OBVIOUS
<1>5. /\ a.history = p /\ a.current.pct = new
      /\ a.lstEmpty = IF r.current.pct - new >= c.drop THEN now ELSE r.lstEmpty
  BY DEF ApplyReading, Compute, IsPumpOut
<1>6. /\ Len(h) > 0 => r.current.pct = Pct(h[Len(h)].lvl, c.cal)
      /\ \A i \in 2..Len(h) : IsLastDrop(h, c, i) => r.lstEmpty = h[i].ts
  BY DEF Dated, ComparesLast, DatesLastDrop, View
<1> HIDE DEF rec, h, p, a, new
<1>7. \A i \in 1..n : i < n => i + k \in 1..Len(h) /\ p[i] = h[i + k]
  <2> SUFFICES ASSUME NEW i \in 1..n, i < n
               PROVE  i + k \in 1..Len(h) /\ p[i] = h[i + k]
    OBVIOUS
  <2>1. i + k = i + Len(h) + 1 - n /\ i + k \in 1..Len(h)
    BY <1>2, <1>3
  <2>2. p[i] = h[i + Len(h) + 1 - n]
    BY <1>2, <1>3
  <2> QED
    BY <2>1, <2>2
<1>8. n > 0 => p[n] = rec
  BY <1>2, <1>3
<1>9. ComparesLast(View(a), c)
  BY <1>4, <1>5, <1>8 DEF ComparesLast, View, new
<1>10. ASSUME NEW i \in 2..n, IsLastDrop(p, c, i)
       PROVE  a.lstEmpty = p[i].ts
  <2>1. n - 1 \in 1..n /\ n - 1 < n /\ n - 1 + k = Len(h) /\ n > 0 /\ Len(h) > 0
    BY <1>2, <1>3
  <2>2. p[n - 1] = h[Len(h)]
    BY <1>7, <2>1
  <2>3. r.current.pct = Pct(p[n - 1].lvl, c.cal) /\ new = Pct(p[n].lvl, c.cal)
    BY <1>4, <1>6, <1>8, <2>1, <2>2 DEF new
  <2>4. n \in Drops(p, c) <=> r.current.pct - new >= c.drop
    BY <1>3, <2>3 DEF Drops
  <2>5. CASE i = n
    <3>1. r.current.pct - new >= c.drop
      BY <1>10, <2>4, <2>5 DEF IsLastDrop
    <3>2. a.lstEmpty = now
      BY <1>5, <3>1
    <3> QED
      BY <1>4, <1>8, <2>1, <2>5, <3>2
  <2>6. CASE i # n
    <3>1. ~(r.current.pct - new >= c.drop)
      BY <1>3, <1>10, <2>4, <2>6 DEF IsLastDrop
    <3>2. a.lstEmpty = r.lstEmpty
      BY <1>5, <3>1
    <3>3. /\ i - 1 \in 1..n /\ i - 1 < n /\ i \in 1..n /\ i < n
          /\ i + k \in 2..Len(h) /\ i - 1 + k = i + k - 1
      BY <1>2, <1>3, <2>6
    <3>4. p[i] = h[i + k] /\ p[i - 1] = h[i + k - 1]
      BY <1>7, <3>3
    <3>5. i + k \in Drops(h, c)
      BY <1>10, <3>3, <3>4 DEF Drops, IsLastDrop
    <3>6. ASSUME NEW j \in Drops(h, c) PROVE j <= i + k
      <4>1. j \in 2..Len(h)
        BY DEF Drops
      <4>2. CASE j <= k + 1
        BY <1>3, <3>3, <4>1, <4>2
      <4>3. CASE j > k + 1
        <5> DEFINE m == j - k
        <5>1. /\ m \in 2..n /\ m \in 1..n /\ m < n
              /\ m - 1 \in 1..n /\ m - 1 < n
              /\ m + k = j /\ m - 1 + k = j - 1
          BY <1>2, <1>3, <4>1, <4>3
        <5> HIDE DEF m
        <5>2. p[m] = h[j] /\ p[m - 1] = h[j - 1]
          BY <1>7, <5>1
        <5>3. m \in Drops(p, c)
          BY <5>1, <5>2 DEF Drops
        <5>4. m <= i
          BY <1>10, <5>3 DEF IsLastDrop
        <5> QED
          BY <1>3, <4>1, <5>1, <5>4
      <4> QED
        BY <1>3, <4>1, <4>2, <4>3
    <3>7. IsLastDrop(h, c, i + k)
      BY <3>5, <3>6 DEF IsLastDrop
    <3> QED
      BY <1>6, <3>2, <3>3, <3>4, <3>7
  <2> QED
    BY <2>5, <2>6
<1>11. Dated(View(a), c)
  BY <1>5, <1>9, <1>10 DEF Dated, DatesLastDrop, View
<1> QED
  BY <1>11 DEF a, h

-----------------------------------------------------------------------------
DatedInv ==
  /\ up => Dated(View(rt), cfg)
  /\ disk # NoSnapshot => Dated(disk, cfg)
  /\ durable # NoSnapshot => Dated(durable, cfg)

LEMMA PersistDated ==
  ASSUME DatedInv, Persist(cfg, rt'), UNCHANGED cfg, Dated(View(rt'), cfg)
  PROVE  DatedInv'
<1>1. Dated(Snapshot(cfg, rt'), cfg)
  BY SnapshotDated
<1>2. CASE Store!Save(Snapshot(cfg, rt'))
  BY <1>1, <1>2 DEF Store!Save, DatedInv
<1>3. CASE UNCHANGED <<disk, durable>>
  BY <1>3 DEF DatedInv
<1> QED
  BY <1>2, <1>3 DEF Persist

LEMMA DatedInvStep ==
  ASSUME SameDetection, TankInv, DatedInv, [Next]_vars
  PROVE  DatedInv'
<1>1. cfg \in Configs /\ rt \in Runtime
  BY DEF TankInv, TypeOK
<1>2. CASE BootLoaded
  <2>1. disk \in PersistedState /\ Dated(disk, cfg)
    BY <1>2 DEF BootLoaded, TankInv, TypeOK, DatedInv
  <2>2. Dated(View(rt'), cfg)
    BY <1>1, <1>2, <2>1, RestoredDated DEF BootLoaded
  <2> QED
    BY <1>2, <2>2, PersistDated DEF BootLoaded
<1>3. CASE BootSeeded
  <2>1. Dated(View(rt'), cfg)
    BY <1>1, <1>3, SeedDated DEF BootSeeded
  <2> QED
    BY <1>3, <2>1, PersistDated DEF BootSeeded
<1>4. ASSUME NEW lvl \in Levels, NEW now \in Times, HandleRead(lvl, now)
      PROVE  DatedInv'
  <2>1. Dated(View(rt), cfg)
    BY <1>4 DEF HandleRead, DatedInv
  <2>2. Dated(View(rt'), cfg)
    BY <1>1, <1>4, <2>1, ApplyReadingDated DEF HandleRead
  <2> QED
    BY <1>4, <2>2, PersistDated DEF HandleRead
<1>5. CASE Crash
  BY <1>5 DEF Crash, DatedInv
<1>6. CASE PowerLoss
  BY <1>6 DEF PowerLoss, Store!PowerLoss, DatedInv
<1>7. CASE Flush
  BY <1>7 DEF Flush, Store!Flush, DatedInv
<1>8. CASE Reconfigure
  <2>1. /\ ~up' /\ UNCHANGED <<disk, durable>>
        /\ cfg' \in Configs /\ cfg.cal = cfg'.cal /\ cfg.drop = cfg'.drop
    BY <1>1, <1>8 DEF Reconfigure, SameDetection
  <2> QED
    BY <2>1, DatedSame DEF DatedInv
<1>9. CASE UNCHANGED vars
  BY <1>9 DEF vars, DatedInv
<1> QED
  BY <1>2, <1>3, <1>4, <1>5, <1>6, <1>7, <1>8, <1>9 DEF Next

LEMMA DatedAlways == ASSUME SameDetection PROVE Spec => []DatedInv
<1>1. Init => DatedInv
  BY DEF Init, Store!StoreInit, DatedInv
<1>2. TankInv /\ DatedInv /\ [Next]_vars => DatedInv'
  BY DatedInvStep
<1> QED
  BY <1>1, <1>2, TankInvAlways, PTL DEF Spec

(* README.md:304: whatever the levels, the clock, the crashes, the failed  *)
(* saves and the trimming of the history, lstEmpty is the time of the last *)
(* pump-out the history shows, as long as neither the calibration nor the  *)
(* threshold is ever changed.                                              *)
THEOREM LatestPumpOutAlways ==
  ASSUME SameDetection PROVE Spec => []LatestPumpOut
<1>1. DatedInv => LatestPumpOut
  BY DEF DatedInv, LatestPumpOut, Views, Dated, DatesLastDrop, View
<1> QED
  BY <1>1, DatedAlways, PTL

(* Calibrations the right way round, and thresholds that a constant level  *)
(* does not reach.                                                         *)
Upright == \A c \in Configs : c.cal.full < c.cal.empty /\ c.drop > 0

(* history.rs:21-24: under the same assumption lstEmpty never moves on a   *)
(* reading that is not below the one before it.                            *)
THEOREM ResetsOnlyOnFalls ==
  ASSUME SameDetection, Upright PROVE Spec => ResetOnlyOnAFall
<1> DEFINE A == (reads' > reads /\ Len(rt.history) > 0 /\ rt'.lstEmpty # rt.lstEmpty)
                  => rt'.current.lvl > rt.history[Len(rt.history)].lvl
<1>1. ASSUME TankInv, DatedInv, [Next]_vars,
             reads' > reads, Len(rt.history) > 0, rt'.lstEmpty # rt.lstEmpty
      PROVE  rt'.current.lvl > rt.history[Len(rt.history)].lvl
  <2>1. PICK lvl \in Levels, now \in Times :
          rt' = ApplyReading(cfg, rt, lvl, now) /\ rt'.current.lvl = lvl
    BY <1>1, ReadHistory
  <2> DEFINE last == rt.history[Len(rt.history)]
  <2>2. cfg \in Configs /\ lvl \in Int /\ rt.history \in Seq(ReadingRecord)
    BY <1>1, TankAssumption DEF TankInv, TypeOK, Runtime
  <2>3. last \in ReadingRecord
    <3>1. Len(rt.history) \in Nat
      BY <2>2, LenProperties
    <3>2. Len(rt.history) \in 1..Len(rt.history)
      BY <1>1, <3>1
    <3> QED
      BY <2>2, <3>2, ElementOfSeq
  <2>4. last.lvl \in Int
    BY <2>3, TankAssumption DEF ReadingRecord
  <2>5. rt.current.pct - Pct(lvl, cfg.cal) >= cfg.drop
    BY <1>1, <2>1 DEF ApplyReading, Compute, IsPumpOut
  <2>6. up
    BY <1>1 DEF Next, BootLoaded, BootSeeded, HandleRead, Crash, PowerLoss, Flush,
                Reconfigure, vars, TankInv, TypeOK
  <2>7. rt.current.pct = Pct(last.lvl, cfg.cal)
    BY <1>1, <2>6 DEF DatedInv, Dated, ComparesLast, View
  <2>8. /\ cfg.cal.full \in Int /\ cfg.cal.empty \in Int /\ cfg.drop \in Int
        /\ cfg.cal.full < cfg.cal.empty /\ cfg.drop > 0
    BY <2>2, ConfigType DEF Upright
  <2> HIDE DEF last
  <2>9. Pct(lvl, cfg.cal) \in Int /\ Pct(last.lvl, cfg.cal) \in Int
    <3>1. Pct(lvl, cfg.cal) \in 0..100
      BY <2>2, <2>8, PctRange
    <3>2. Pct(last.lvl, cfg.cal) \in 0..100
      BY <2>4, <2>8, PctRange
    <3> QED
      BY <3>1, <3>2
  <2>10. ~(Pct(last.lvl, cfg.cal) <= Pct(lvl, cfg.cal))
    BY <2>5, <2>7, <2>8, <2>9
  <2>11. ~(lvl <= last.lvl)
    BY <2>2, <2>4, <2>8, <2>10, PctMonotone
  <2> QED
    BY <2>1, <2>2, <2>4, <2>11 DEF last
<1>2. TankInv /\ DatedInv /\ [Next]_vars => [A]_vars
  BY <1>1
<1> QED
  BY <1>2, TankInvAlways, DatedAlways, PTL DEF Spec, ResetOnlyOnAFall
=============================================================================
