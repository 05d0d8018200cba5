------------------------------ MODULE Formulas ------------------------------
(***************************************************************************)
(* The pure formulas of aquilo-core: calibration, battery curve, pump-out  *)
(* detection and the daysLeft projection.                                  *)
(*                                                                         *)
(* Levels and calibration distances are integers in the unit of the        *)
(* device's own read1 field (Scale of them make a centimetre), times are   *)
(* integer seconds (DaySecs of them make a day), and every quotient of the *)
(* code's f64 arithmetic is the exact rational, rounded where the code     *)
(* rounds.  A reading record is [ts, lvl]; its battery field is left out.  *)
(***************************************************************************)
EXTENDS Integers, Sequences, FiniteSets, Functions, TLC

CONSTANTS Scale,   \* level units per centimetre (100: read1 is in 0.01 cm)
          DaySecs  \* time units per day (86400)

ASSUME ScaleAssumption == Scale \in Nat \ {0}
ASSUME DaySecsAssumption == DaySecs \in Nat \ {0}

(* A timestamp that does not parse, the empty one among them: no time is   *)
(* known.  Real times are positive.                                        *)
NoTime == 0

Clamp(x, lo, hi) == IF x < lo THEN lo ELSE IF x > hi THEN hi ELSE x

(* Bug: the cast truncates. *)
RoundDivTruncates(a, b) == IF a >= 0 THEN a \div b ELSE -((-a) \div b)

(* f64::round of a/b, ties away from zero, for b > 0. *)
RoundDiv(a, b) ==
  IF a >= 0 THEN (2 * a + b) \div (2 * b) ELSE -((b - 2 * a) \div (2 * b))

(* The `as i64` cast of a float: what is not a number becomes 0. *)
AsInt(x) == IF x \in Int THEN x ELSE 0

-----------------------------------------------------------------------------
(* calibration.rs.  A calibration is [full, empty], the two distances.  A  *)
(* zero span divides by zero: +inf clamps to 100, -inf and NaN cast to 0.  *)
Pct(lvl, cal) ==
  LET span == cal.empty - cal.full
      num  == (cal.empty - lvl) * 100
  IN CASE span > 0 -> Clamp(RoundDiv(num, span), 0, 100)
       [] span < 0 -> Clamp(RoundDiv(-num, -span), 0, 100)
       [] OTHER    -> IF num > 0 THEN 100 ELSE 0

(* Bug: the wrong one of the two distances. *)
LvlToFullFromEmpty(lvl, cal) == RoundDiv(cal.empty - lvl, Scale)

LvlToFull(lvl, cal) == RoundDiv(lvl - cal.full, Scale)

-----------------------------------------------------------------------------
(* battery.rs.  A curve is a sequence of breakpoints <<mV, percent>>.      *)
(* Bug: breakpoints taken as given. *)
NewCurveUnsorted(points) == points

(* How many breakpoints come no later than the i-th in the stable order of *)
(* their voltages: its place in the sorted table.                          *)
Place(points, i) ==
  Cardinality({j \in DOMAIN points : \/ points[j][1] < points[i][1]
                                     \/ (points[j][1] = points[i][1] /\ j <= i)})

(* Bug: those of one voltage the other way round. *)
NewCurveUnstable(points) ==
  LET Later(i) == Cardinality({j \in DOMAIN points : \/ points[j][1] < points[i][1]
                                                     \/ (points[j][1] = points[i][1] /\ j >= i)})
  IN [k \in DOMAIN points |-> points[CHOOSE i \in DOMAIN points : Later(i) = k]]

(* BatteryCurve::new: sort_by_key, which is stable. *)
NewCurve(points) ==
  [k \in DOMAIN points |-> points[CHOOSE i \in DOMAIN points : Place(points, i) = k]]

(* Breakpoints in the order of their voltages, with percentages that do    *)
(* not fall: what percent relies on.                                       *)
SortedCurve(c) ==
  /\ c \in Seq(Int \X Int) /\ Len(c) > 0
  /\ \A i, j \in 1..Len(c) : i <= j => c[i][1] <= c[j][1] /\ c[i][2] <= c[j][2]

DefaultCurve == <<<<3300, 0>>, <<3770, 83>>, <<4200, 100>>>>

BatteryPercent(curve, mv) ==
  LET last == curve[Len(curve)]
      hit  == CHOOSE i \in 1..Len(curve) - 1 :
                /\ mv <= curve[i + 1][1]
                /\ \A j \in 1..i - 1 : mv > curve[j + 1][1]
      lo == curve[hit]
      hi == curve[hit + 1]
  IN CASE mv <= curve[1][1] -> curve[1][2]
       [] mv > curve[1][1] /\ mv >= last[1] -> last[2]
       [] OTHER -> RoundDiv(lo[2] * (hi[1] - lo[1]) + (mv - lo[1]) * (hi[2] - lo[2]),
                            hi[1] - lo[1])

-----------------------------------------------------------------------------
(* history.rs *)
(* Bugs: the threshold itself does not count; the drop taken the wrong way. *)
IsPumpOutAbove(prevPct, newPct, drop) == prevPct - newPct > drop
IsPumpOutOnRise(prevPct, newPct, drop) == newPct - prevPct >= drop

IsPumpOut(prevPct, newPct, drop) == prevPct - newPct >= drop

SumOver(h, F(_)) == SumFunction([i \in DOMAIN h |-> F(h[i])])

(* len(h) times the code's sxx and sxy, which keeps them integers. *)
Sxx(h) == LET X(r) == r.ts   XX(r) == r.ts * r.ts
          IN Len(h) * SumOver(h, XX) - SumOver(h, X) * SumOver(h, X)
(* Bug: one reading too few in the mean. *)
SxyOneFewer(h) == LET X(r) == r.ts   Y(r) == r.lvl   XY(r) == r.ts * r.lvl
                  IN (Len(h) - 1) * SumOver(h, XY) - SumOver(h, X) * SumOver(h, Y)

Sxy(h) == LET X(r) == r.ts   Y(r) == r.lvl   XY(r) == r.ts * r.lvl
          IN Len(h) * SumOver(h, XY) - SumOver(h, X) * SumOver(h, Y)

(* Bug: a trend that does not fill is projected. *)
ProjectsAnyTrend(h) ==
  Len(h) >= 2 /\ (\A i \in DOMAIN h : h[i].ts # NoTime) /\ Sxx(h) > 0

(* days_left answers Some: enough readings, all stamped, not all at one    *)
(* instant, and the distance is falling (fill_rate > 0).                   *)
Projects(h) ==
  /\ Len(h) >= 2
  /\ \A i \in DOMAIN h : h[i].ts # NoTime
  /\ Sxx(h) > 0
  /\ Sxy(h) < 0

(* Bugs: the projection starts at the first reading; it may be negative. *)
DaysLeftFromFirst(h, full) ==
  LET days == AsInt(RoundDiv((h[1].lvl - full) * Sxx(h), -Sxy(h) * DaySecs))
  IN IF days > 0 THEN days ELSE 0
DaysLeftUnclamped(h, full) ==
  AsInt(RoundDiv((h[Len(h)].lvl - full) * Sxx(h), -Sxy(h) * DaySecs))

(* The value in that Some. *)
DaysLeft(h, full) ==
  LET days == AsInt(RoundDiv((h[Len(h)].lvl - full) * Sxx(h), -Sxy(h) * DaySecs))
  IN IF days > 0 THEN days ELSE 0
=============================================================================
