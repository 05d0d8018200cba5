------------------------------- MODULE MCTank -------------------------------
(***************************************************************************)
(* Tank on a tank seven units deep, read at three distances: above the     *)
(* full mark, below it, and nearly empty.  A fall to nearly empty is a     *)
(* pump-out (from below the mark it just meets the threshold), one from    *)
(* above the mark to below it is not.                                      *)
(***************************************************************************)
EXTENDS Tank

Deep == [full |-> 3, empty |-> 10]
Shallow == [full |-> 0, empty |-> 5]
Seed == [lvl |-> 8, pct |-> 20, lstEmpty |-> NoTime, daysLeft |-> 0, lvlToFull |-> 5]
SeedEmptied == [Seed EXCEPT !.lstEmpty = 1]

Base == [cal |-> Deep, cap |-> 3, drop |-> 57, seed |-> Seed]
OneConfig == {Base}
(* The same detection of pump-outs, with a history of two records or of    *)
(* none, and the baseline not set or set.                                  *)
SameDetection == {[Base EXCEPT !.cap = 2], [Base EXCEPT !.cap = 0, !.seed = SeedEmptied]}
Recalibrated == {Base, [Base EXCEPT !.cal = Shallow]}
=============================================================================
