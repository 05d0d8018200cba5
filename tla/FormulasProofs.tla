--------------------------- MODULE FormulasProofs ---------------------------
(***************************************************************************)
(* What the rounding, the fill percentage and the projection return, for   *)
(* every calibration and every reading.                                    *)
(***************************************************************************)
EXTENDS Formulas, FiniteSetTheorems, WellFoundedInduction, TLAPS

LEMMA DivFacts == ASSUME NEW x \in Int, NEW d \in Nat \ {0}
                  PROVE  /\ x \div d \in Int
                         /\ d * (x \div d) <= x
                         /\ x < d * (x \div d) + d
  OBVIOUS

LEMMA MulStep == ASSUME NEW a \in Int, NEW b \in Int, a < b, NEW d \in Nat \ {0}
                 PROVE  d * a + d <= d * b
<1>1. d * (b - a - 1) >= 0
  OBVIOUS
<1>2. d * (b - a - 1) = d * b - d * a - d
  OBVIOUS
<1> QED
  BY <1>1, <1>2

LEMMA DivMonotone == ASSUME NEW x \in Int, NEW y \in Int, x <= y, NEW d \in Nat \ {0}
                     PROVE  x \div d <= y \div d
<1> DEFINE u == d * (y \div d)   v == d * (x \div d)
<1>1. /\ x \div d \in Int /\ y \div d \in Int
      /\ u \in Int /\ v \in Int /\ v <= x /\ y < u + d
  BY DivFacts
<1>2. ASSUME y \div d < x \div d PROVE FALSE
  <2>1. u + d <= v
    BY <1>1, <1>2, MulStep
  <2> HIDE DEF u, v
  <2> QED
    BY <1>1, <2>1
<1> QED
  BY <1>1, <1>2

LEMMA DivNonNegative == ASSUME NEW x \in Nat, NEW d \in Nat \ {0}
                        PROVE  x \div d \in Nat
<1>1. 0 \div d <= x \div d
  BY DivMonotone
<1>2. 0 \div d = 0
  OBVIOUS
<1> QED
  BY <1>1, <1>2, DivFacts

-----------------------------------------------------------------------------
(* Calibration::pct, lvl_to_full, BatteryCurve::percent and days_left all  *)
(* round: the result is an integer.                                        *)
LEMMA RoundDivInt == ASSUME NEW a \in Int, NEW b \in Nat \ {0}
                     PROVE  RoundDiv(a, b) \in Int
<1>1. 2 * b \in Nat \ {0} /\ 2 * a + b \in Int /\ b - 2 * a \in Int
  OBVIOUS
<1> QED
  BY <1>1, DivFacts DEF RoundDiv

(* calibration.rs:39: rounding goes to the nearest integer: the result is  *)
(* within a half of the quotient a/b, and of two integers equally near it  *)
(* is the one further from zero: a half short of a quotient that is not    *)
(* negative is never left, nor a half above one that is.                   *)
THEOREM RoundDivNearest ==
  ASSUME NEW a \in Int, NEW b \in Nat \ {0}
  PROVE  /\ 2 * (b * RoundDiv(a, b) - a) <= b
         /\ 2 * (a - b * RoundDiv(a, b)) <= b
         /\ a >= 0 => 2 * (a - b * RoundDiv(a, b)) < b
         /\ a < 0 => 2 * (b * RoundDiv(a, b) - a) < b
<1>1. CASE a >= 0
  <2> DEFINE q == (2 * a + b) \div (2 * b)
  <2>1. /\ q \in Int
        /\ (2 * b) * q <= 2 * a + b
        /\ 2 * a + b < (2 * b) * q + 2 * b
    <3>1. 2 * b \in Nat \ {0} /\ 2 * a + b \in Int
      OBVIOUS
    <3> QED
      BY <3>1, DivFacts
  <2>2. RoundDiv(a, b) = q
    BY <1>1 DEF RoundDiv
  <2> DEFINE bq == b * q
  <2>3. bq \in Int /\ (2 * b) * q = 2 * bq
    BY <2>1
  <2> HIDE DEF q
  <2>4. b * RoundDiv(a, b) = bq
    BY <2>2
  <2> HIDE DEF bq
  <2> QED
    BY <1>1, <2>1, <2>3, <2>4
<1>2. CASE a < 0
  <2> DEFINE q == (b - 2 * a) \div (2 * b)
  <2>1. /\ q \in Int
        /\ (2 * b) * q <= b - 2 * a
        /\ b - 2 * a < (2 * b) * q + 2 * b
    <3>1. 2 * b \in Nat \ {0} /\ b - 2 * a \in Int
      OBVIOUS
    <3> QED
      BY <3>1, DivFacts
  <2>2. RoundDiv(a, b) = -q
    BY <1>2 DEF RoundDiv
  <2> DEFINE bq == b * q
  <2>3. bq \in Int /\ (2 * b) * q = 2 * bq /\ b * (-q) = -bq
    BY <2>1
  <2> HIDE DEF q
  <2>4. b * RoundDiv(a, b) = -bq
    BY <2>2, <2>3
  <2> HIDE DEF bq
  <2> QED
    BY <1>2, <2>1, <2>3, <2>4
<1> QED
  BY <1>1, <1>2

LEMMA RoundDivMonotone ==
  ASSUME NEW x \in Int, NEW y \in Int, x <= y, NEW b \in Nat \ {0}
  PROVE  RoundDiv(x, b) <= RoundDiv(y, b)
<1>1. 2 * b \in Nat \ {0}
  OBVIOUS
<1>2. CASE x >= 0
  <2>1. (2 * x + b) \div (2 * b) <= (2 * y + b) \div (2 * b)
    BY <1>1, DivMonotone
  <2> QED
    BY <1>2, <2>1 DEF RoundDiv
<1>3. CASE y < 0
  <2> DEFINE p == (b - 2 * x) \div (2 * b)   q == (b - 2 * y) \div (2 * b)
  <2>1. q <= p /\ p \in Int /\ q \in Int
    BY <1>1, DivMonotone, DivFacts
  <2>2. RoundDiv(x, b) = -p /\ RoundDiv(y, b) = -q
    BY <1>3 DEF RoundDiv
  <2> HIDE DEF p, q
  <2> QED
    BY <2>1, <2>2
<1>4. CASE x < 0 /\ y >= 0
  <2> DEFINE p == (b - 2 * x) \div (2 * b)   q == (2 * y + b) \div (2 * b)
  <2>1. p \in Nat /\ q \in Nat
    BY <1>1, <1>4, DivNonNegative
  <2>2. RoundDiv(x, b) = -p /\ RoundDiv(y, b) = q
    BY <1>4 DEF RoundDiv
  <2> HIDE DEF p, q
  <2> QED
    BY <2>1, <2>2
<1> QED
  BY <1>2, <1>3, <1>4

-----------------------------------------------------------------------------
(* calibration.rs:39: whatever is configured, even two equal distances,    *)
(* pct is a percentage.                                                    *)
THEOREM PctRange ==
  ASSUME NEW lvl \in Int, NEW cal, cal.full \in Int, cal.empty \in Int
  PROVE  Pct(lvl, cal) \in 0..100
<1> DEFINE span == cal.empty - cal.full   num == (cal.empty - lvl) * 100
<1>1. span \in Int /\ num \in Int
  OBVIOUS
<1>2. \A x \in Int : Clamp(x, 0, 100) \in 0..100
  BY DEF Clamp
<1>3. CASE span > 0
  BY <1>1, <1>2, <1>3, RoundDivInt DEF Pct
<1>4. CASE span < 0
  <2>1. -span \in Nat \ {0} /\ -num \in Int
    BY <1>1, <1>4
  <2> QED
    BY <1>2, <1>4, <2>1, RoundDivInt DEF Pct
<1>5. CASE span = 0
  BY <1>5 DEF Pct
<1> QED
  BY <1>1, <1>3, <1>4, <1>5

(* calibration.rs:3-4: when the tank is calibrated the right way round, a  *)
(* smaller distance never reads emptier.                                   *)
THEOREM PctMonotone ==
  ASSUME NEW k \in Int, NEW l \in Int, k <= l,
         NEW cal, cal.full \in Int, cal.empty \in Int, cal.full < cal.empty
  PROVE  Pct(l, cal) <= Pct(k, cal)
<1> DEFINE span == cal.empty - cal.full
           nk == (cal.empty - k) * 100
           nl == (cal.empty - l) * 100
<1>1. span \in Nat \ {0} /\ nk \in Int /\ nl \in Int /\ nl <= nk
  OBVIOUS
<1>2. RoundDiv(nl, span) <= RoundDiv(nk, span)
  BY <1>1, RoundDivMonotone
<1>3. RoundDiv(nl, span) \in Int /\ RoundDiv(nk, span) \in Int
  BY <1>1, RoundDivInt
<1>4. \A x, y \in Int : x <= y => Clamp(x, 0, 100) <= Clamp(y, 0, 100)
  BY DEF Clamp
<1>5. Pct(l, cal) = Clamp(RoundDiv(nl, span), 0, 100)
  BY <1>1 DEF Pct
<1>6. Pct(k, cal) = Clamp(RoundDiv(nk, span), 0, 100)
  BY <1>1 DEF Pct
<1> QED
  BY <1>2, <1>3, <1>4, <1>5, <1>6

LEMMA LvlToFullInt ==
  ASSUME NEW lvl \in Int, NEW cal, cal.full \in Int
  PROVE  LvlToFull(lvl, cal) \in Int
  BY ScaleAssumption, RoundDivInt DEF LvlToFull

(* history.rs:76-77: a projection is a number of days, never negative.     *)
LEMMA DaysLeftNat == ASSUME NEW h, NEW full PROVE DaysLeft(h, full) \in Nat
  BY DEF DaysLeft, AsInt

-----------------------------------------------------------------------------
(* Induction over the natural numbers, from the library's theorem on       *)
(* minimal elements: a set that has 0 and the successors of its elements   *)
(* has every number.                                                       *)
LEMMA LeastNat ==
  ASSUME NEW T, T \subseteq Nat, T # {}
  PROVE  \E x \in T : \A y \in T : x <= y
<1> DEFINE R == {ss \in Nat \X Nat : ss[1] < ss[2]}
<1>1. IsWellFoundedOn(R, Nat)
  BY NatLessThanWellFounded DEF OpToRel
<1>2. \E x \in T : \A y \in T : ~(<<y, x>> \in R)
  <2> HIDE DEF R
  <2> QED
    BY <1>1, WFMin
<1>3. PICK x \in T : \A y \in T : ~(<<y, x>> \in R)
  BY <1>2
<1>4. \A y \in T : y \in Nat /\ x \in Nat /\ ~(y < x)
  BY <1>3
<1> QED
  BY <1>4

LEMMA NatSetInduction ==
  ASSUME NEW S, 0 \in S, \A n \in Nat : n \in S => n + 1 \in S
  PROVE  \A n \in Nat : n \in S
<1> DEFINE T == {n \in Nat : n \notin S}
<1>1. SUFFICES ASSUME T # {} PROVE FALSE
  OBVIOUS
<1>2. T \subseteq Nat
  OBVIOUS
<1>3. PICK x \in T : \A y \in T : x <= y
  <2> HIDE DEF T
  <2> QED
    BY <1>1, <1>2, LeastNat
<1> QED
  BY <1>3

(* What the library's fold over a set computes: it takes the elements in   *)
(* the order in which Chosen names them.                                   *)
Chosen(s) == CHOOSE x \in s : TRUE
SumStep(f, g, s) == IF s = {} THEN 0 ELSE f[Chosen(s)] + g[s \ {Chosen(s)}]
Sums(g, f, S, T) == g \in [SUBSET S -> T] /\ \A s \in SUBSET S : g[s] = SumStep(f, g, s)
SumIter(f, S) == CHOOSE g : g = [s \in SUBSET S |-> SumStep(f, g, s)]

LEMMA SumIsIter == ASSUME NEW f PROVE SumFunction(f) = SumIter(f, DOMAIN f)[DOMAIN f]
  BY DEF SumFunction, SumFunctionOnSet, FoldFunctionOnSet, MapThenFoldSet, SumIter, SumStep, Chosen

LEMMA SubsetFacts ==
  ASSUME NEW S, IsFiniteSet(S), NEW s \in SUBSET S
  PROVE  Cardinality(s) \in Nat /\ (Cardinality(s) <= 0 => s = {})
<1>1. IsFiniteSet(s)
  BY FS_Subset
<1>2. Cardinality(s) \in Nat /\ (Cardinality(s) = 0 <=> s = {})
  BY <1>1, FS_CardinalityType, FS_EmptySet
<1> QED
  BY <1>2

LEMMA ChosenFacts ==
  ASSUME NEW S, IsFiniteSet(S), NEW s \in SUBSET S, s # {}
  PROVE  /\ Chosen(s) \in S
         /\ s \ {Chosen(s)} \in SUBSET S
         /\ Cardinality(s \ {Chosen(s)}) = Cardinality(s) - 1
<1>1. IsFiniteSet(s)
  BY FS_Subset
<1>2. Chosen(s) \in s
  BY DEF Chosen
<1> QED
  BY <1>1, <1>2, FS_RemoveElement

LEMMA SumIterExists ==
  ASSUME NEW S, IsFiniteSet(S),
         NEW T, 0 \in T, \A x, y \in T : x + y \in T, NEW f \in [S -> T]
  PROVE  \E g : Sums(g, f, S, T)
<1> DEFINE Upto(g, n) == \A s \in SUBSET S : Cardinality(s) <= n => g[s] = SumStep(f, g, s)
           Good == {n \in Nat : \E g \in [SUBSET S -> T] : Upto(g, n)}
<1>1. 0 \in Good
  <2>1. [s \in SUBSET S |-> 0] \in [SUBSET S -> T]
    OBVIOUS
  <2>2. ASSUME NEW s \in SUBSET S, Cardinality(s) <= 0 PROVE s = {}
    BY <2>2, SubsetFacts
  <2>3. Upto([s \in SUBSET S |-> 0], 0)
    BY <2>2 DEF SumStep
  <2> QED
    BY <2>1, <2>3
<1>2. ASSUME NEW n \in Nat, n \in Good PROVE n + 1 \in Good
  <2>1. PICK g \in [SUBSET S -> T] : Upto(g, n)
    BY <1>2
  <2> DEFINE h == [s \in SUBSET S |-> IF Cardinality(s) <= n THEN g[s] ELSE SumStep(f, g, s)]
  <2>2. ASSUME NEW s \in SUBSET S PROVE SumStep(f, g, s) \in T
    <3>1. s # {} => Chosen(s) \in S /\ s \ {Chosen(s)} \in SUBSET S
      BY ChosenFacts
    <3>2. s # {} => f[Chosen(s)] \in T /\ g[s \ {Chosen(s)}] \in T
      BY <3>1
    <3> QED
      BY <3>2 DEF SumStep
  <2>3. h \in [SUBSET S -> T]
    BY <2>2
  <2>4. ASSUME NEW s \in SUBSET S, Cardinality(s) <= n + 1 PROVE h[s] = SumStep(f, h, s)
    <3>1. CASE s = {}
      <4>1. h[s] = g[s] \/ h[s] = SumStep(f, g, s)
        OBVIOUS
      <4> QED
        BY <2>1, <3>1, <4>1, FS_EmptySet DEF SumStep
    <3>2. CASE s # {}
      <4>1. /\ s \ {Chosen(s)} \in SUBSET S
            /\ Cardinality(s \ {Chosen(s)}) <= n
        BY <2>4, <3>2, ChosenFacts, SubsetFacts
      <4>2. h[s \ {Chosen(s)}] = g[s \ {Chosen(s)}]
        BY <4>1
      <4>3. SumStep(f, h, s) = SumStep(f, g, s)
        BY <4>2 DEF SumStep
      <4> QED
        BY <2>1, <4>3
    <3> QED
      BY <3>1, <3>2
  <2>5. Upto(h, n + 1)
    BY <2>4
  <2> HIDE DEF h, Upto
  <2> QED
    BY <2>3, <2>5
<1>3. \A n \in Nat : n \in Good
  BY <1>1, <1>2, NatSetInduction
<1>4. Cardinality(S) \in Nat
  BY FS_CardinalityType
<1>5. PICK g \in [SUBSET S -> T] : Upto(g, Cardinality(S))
  BY <1>3, <1>4
<1>6. \A s \in SUBSET S : Cardinality(s) <= Cardinality(S)
  BY FS_Subset
<1>7. \A s \in SUBSET S : g[s] = SumStep(f, g, s)
  BY <1>5, <1>6
<1> QED
  BY <1>7 DEF Sums

LEMMA SumUnique ==
  ASSUME NEW S, IsFiniteSet(S), NEW f, NEW g, NEW h,
         \A s \in SUBSET S : g[s] = SumStep(f, g, s),
         \A s \in SUBSET S : h[s] = SumStep(f, h, s)
  PROVE  \A s \in SUBSET S : g[s] = h[s]
<1> DEFINE Same == {n \in Nat : \A s \in SUBSET S : Cardinality(s) <= n => g[s] = h[s]}
<1>1. 0 \in Same
  <2>1. ASSUME NEW s \in SUBSET S, Cardinality(s) <= 0 PROVE g[s] = h[s]
    <3>1. s = {}
      BY <2>1, SubsetFacts
    <3> QED
      BY <3>1 DEF SumStep
  <2> QED
    BY <2>1
<1>2. ASSUME NEW n \in Nat, n \in Same PROVE n + 1 \in Same
  <2>1. ASSUME NEW s \in SUBSET S, Cardinality(s) <= n + 1 PROVE g[s] = h[s]
    <3>1. CASE s = {}
      BY <3>1 DEF SumStep
    <3>2. CASE s # {}
      <4>1. s \ {Chosen(s)} \in SUBSET S /\ Cardinality(s \ {Chosen(s)}) <= n
        BY <2>1, <3>2, ChosenFacts, SubsetFacts
      <4>2. g[s \ {Chosen(s)}] = h[s \ {Chosen(s)}]
        BY <1>2, <4>1
      <4> QED
        BY <4>2 DEF SumStep
    <3> QED
      BY <3>1, <3>2
  <2> QED
    BY <2>1
<1>3. \A n \in Nat : n \in Same
  BY <1>1, <1>2, NatSetInduction
<1>4. \A s \in SUBSET S : Cardinality(s) \in Nat
  BY SubsetFacts
<1> QED
  BY <1>3, <1>4

(* Any function that satisfies the fold's equation gives the sum.          *)
LEMMA SumIs ==
  ASSUME NEW S, IsFiniteSet(S), NEW f \in [S -> Int], NEW g,
         \A s \in SUBSET S : g[s] = SumStep(f, g, s)
  PROVE  SumFunction(f) = g[S]
<1>1. \E h : h = [s \in SUBSET S |-> SumStep(f, h, s)]
  <2>1. \A x, y \in Int : x + y \in Int
    OBVIOUS
  <2>2. PICK h : Sums(h, f, S, Int)
    BY <2>1, SumIterExists
  <2>3. h = [s \in SUBSET S |-> SumStep(f, h, s)]
    BY <2>2 DEF Sums
  <2> QED
    BY <2>3
<1>2. SumIter(f, S) = [s \in SUBSET S |-> SumStep(f, SumIter(f, S), s)]
  BY <1>1 DEF SumIter
<1> DEFINE I == SumIter(f, S)
<1>3. \A s \in SUBSET S : I[s] = SumStep(f, I, s)
  BY <1>2
<1>4. \A s \in SUBSET S : I[s] = g[s]
  <2> HIDE DEF I
  <2> QED
    BY <1>3, SumUnique
<1>5. DOMAIN f = S
  OBVIOUS
<1> QED
  BY <1>4, <1>5, SumIsIter

LEMMA SumRec ==
  ASSUME NEW S, IsFiniteSet(S), NEW f \in [S -> Int]
  PROVE  \E g : Sums(g, f, S, Int) /\ SumFunction(f) = g[S]
<1>1. 0 \in Int /\ \A x, y \in Int : x + y \in Int
  OBVIOUS
<1>2. PICK g : Sums(g, f, S, Int)
  BY <1>1, SumIterExists
<1> QED
  BY <1>2, SumIs DEF Sums

LEMMA SumInt ==
  ASSUME NEW S, IsFiniteSet(S), NEW f \in [S -> Int]
  PROVE  SumFunction(f) \in Int
<1>1. PICK g : Sums(g, f, S, Int) /\ SumFunction(f) = g[S]
  BY SumRec
<1> QED
  BY <1>1 DEF Sums

LEMMA SumNat ==
  ASSUME NEW S, IsFiniteSet(S), NEW f \in [S -> Nat]
  PROVE  SumFunction(f) \in Nat
<1>1. \A x, y \in Nat : x + y \in Nat
  OBVIOUS
<1>2. PICK g : Sums(g, f, S, Nat)
  BY <1>1, SumIterExists
<1>3. f \in [S -> Int]
  OBVIOUS
<1> QED
  BY <1>2, <1>3, SumIs DEF Sums

(* e is a * f + b * g at every position of S, and so is its sum.           *)
Linear(a, x, b, y) == a * x + b * y
IsLinear(S, e, a, f, b, g) ==
  /\ a \in Int /\ b \in Int
  /\ e \in [S -> Int] /\ f \in [S -> Int] /\ g \in [S -> Int]
  /\ \A i \in S : e[i] = Linear(a, f[i], b, g[i])

LEMMA SumLinear ==
  ASSUME NEW S, IsFiniteSet(S), NEW e, NEW a, NEW f, NEW b, NEW g, IsLinear(S, e, a, f, b, g)
  PROVE  SumFunction(e) = Linear(a, SumFunction(f), b, SumFunction(g))
<1>0. /\ a \in Int /\ b \in Int
      /\ e \in [S -> Int] /\ f \in [S -> Int] /\ g \in [S -> Int]
      /\ \A i \in S : e[i] = a * f[i] + b * g[i]
  BY DEF IsLinear, Linear
<1>1. PICK F : Sums(F, f, S, Int) /\ SumFunction(f) = F[S]
  BY <1>0, SumRec
<1>2. PICK G : Sums(G, g, S, Int) /\ SumFunction(g) = G[S]
  BY <1>0, SumRec
<1> DEFINE E == [s \in SUBSET S |-> a * F[s] + b * G[s]]
<1>3. ASSUME NEW s \in SUBSET S PROVE E[s] = SumStep(e, E, s)
  <2>1. CASE s = {}
    <3>1. F[s] = 0 /\ G[s] = 0
      BY <1>1, <1>2, <2>1 DEF Sums, SumStep
    <3>2. SumStep(e, E, s) = 0
      BY <2>1 DEF SumStep
    <3> QED
      BY <1>0, <3>1, <3>2
  <2>2. CASE s # {}
    <3> DEFINE c == Chosen(s)   r == s \ {c}
    <3>1. c \in S /\ r \in SUBSET S
      BY <2>2, ChosenFacts
    <3> HIDE DEF c, r
    <3>2. F[s] = f[c] + F[r] /\ G[s] = g[c] + G[r]
      BY <1>1, <1>2, <2>2 DEF Sums, SumStep, c, r
    <3>3. f[c] \in Int /\ F[r] \in Int /\ g[c] \in Int /\ G[r] \in Int
      BY <1>0, <1>1, <1>2, <3>1 DEF Sums
    <3>4. /\ a * (f[c] + F[r]) = a * f[c] + a * F[r]
          /\ b * (g[c] + G[r]) = b * g[c] + b * G[r]
      BY <1>0, <3>3
    <3>5. E[s] = (a * f[c] + a * F[r]) + (b * g[c] + b * G[r])
      BY <3>2, <3>4
    <3>6. SumStep(e, E, s) = e[c] + E[r]
      BY <2>2 DEF SumStep, c, r
    <3>7. e[c] = a * f[c] + b * g[c] /\ E[r] = a * F[r] + b * G[r]
      BY <1>0, <3>1
    <3>8. a * f[c] \in Int /\ b * g[c] \in Int /\ a * F[r] \in Int /\ b * G[r] \in Int
      BY <1>0, <3>3
    <3> QED
      BY <3>5, <3>6, <3>7, <3>8
  <2> QED
    BY <2>1, <2>2
<1>4. SumFunction(e) = E[S]
  <2> HIDE DEF E
  <2> QED
    BY <1>0, <1>3, SumIs
<1> QED
  BY <1>1, <1>2, <1>4 DEF Linear

LEMMA SumOfOnes ==
  ASSUME NEW S, IsFiniteSet(S), NEW f \in [S -> Int], \A i \in S : f[i] = 1
  PROVE  SumFunction(f) = Cardinality(S)
<1> DEFINE g == [s \in SUBSET S |-> Cardinality(s)]
<1>1. ASSUME NEW s \in SUBSET S PROVE g[s] = SumStep(f, g, s)
  <2>1. CASE s = {}
    BY <2>1, FS_EmptySet DEF SumStep
  <2>2. CASE s # {}
    <3>1. /\ Chosen(s) \in S /\ s \ {Chosen(s)} \in SUBSET S
          /\ Cardinality(s \ {Chosen(s)}) = Cardinality(s) - 1
          /\ Cardinality(s) \in Nat
      BY <2>2, ChosenFacts, SubsetFacts
    <3>2. f[Chosen(s)] = 1 /\ g[s \ {Chosen(s)}] = Cardinality(s) - 1
      BY <3>1
    <3> QED
      BY <2>2, <3>1, <3>2 DEF SumStep
  <2> QED
    BY <2>1, <2>2
<1>2. SumFunction(f) = g[S]
  <2> HIDE DEF g
  <2> QED
    BY <1>1, SumIs
<1> QED
  BY <1>2

-----------------------------------------------------------------------------
(* What days_left is called with: readings with a time and a distance.     *)
History == Seq([ts : Int, lvl : Int])

(* The sums of the fit, as functions of the position in the history.       *)
Xs(h) == [i \in DOMAIN h |-> h[i].ts]
Ys(h) == [i \in DOMAIN h |-> h[i].lvl]
XXs(h) == [i \in DOMAIN h |-> h[i].ts * h[i].ts]
YYs(h) == [i \in DOMAIN h |-> h[i].lvl * h[i].lvl]
XYs(h) == [i \in DOMAIN h |-> h[i].ts * h[i].lvl]
Syy(h) == Len(h) * SumFunction(YYs(h)) - SumFunction(Ys(h)) * SumFunction(Ys(h))

LEMMA HistoryFacts ==
  ASSUME NEW h \in History
  PROVE  /\ IsFiniteSet(DOMAIN h) /\ Cardinality(DOMAIN h) = Len(h) /\ Len(h) \in Nat
         /\ Xs(h) \in [DOMAIN h -> Int] /\ Ys(h) \in [DOMAIN h -> Int]
         /\ XXs(h) \in [DOMAIN h -> Int] /\ YYs(h) \in [DOMAIN h -> Int]
         /\ XYs(h) \in [DOMAIN h -> Int]
<1>1. Len(h) \in Nat /\ DOMAIN h = 1..Len(h)
  BY DEF History
<1>2. IsFiniteSet(1..Len(h)) /\ Cardinality(1..Len(h)) = Len(h)
  <2>1. \A n \in Nat : IsFiniteSet(1..n) /\ Cardinality(1..n) = n
    <3>1. ASSUME NEW n \in Nat PROVE IsFiniteSet(1..n) /\ Cardinality(1..n) = IF 1 > n THEN 0 ELSE n - 1 + 1
      BY FS_Interval
    <3> QED
      BY <3>1
  <2> QED
    BY <1>1, <2>1
<1>3. \A i \in DOMAIN h : h[i].ts \in Int /\ h[i].lvl \in Int
  <2> DEFINE R == [ts : Int, lvl : Int]
  <2>1. \A i \in DOMAIN h : h[i] \in R
    <3>1. h \in Seq(R)
      BY DEF History
    <3> HIDE DEF R
    <3> QED
      BY <1>1, <3>1
  <2> QED
    BY <2>1
<1>4. Xs(h) \in [DOMAIN h -> Int] /\ Ys(h) \in [DOMAIN h -> Int]
  BY <1>3 DEF Xs, Ys
<1>5. XXs(h) \in [DOMAIN h -> Int] /\ YYs(h) \in [DOMAIN h -> Int] /\ XYs(h) \in [DOMAIN h -> Int]
  BY <1>3 DEF XXs, YYs, XYs
<1> QED
  BY <1>1, <1>2, <1>4, <1>5

LEMMA FitSums ==
  ASSUME NEW h
  PROVE  /\ Sxx(h) = Len(h) * SumFunction(XXs(h)) - SumFunction(Xs(h)) * SumFunction(Xs(h))
         /\ Sxy(h) = Len(h) * SumFunction(XYs(h)) - SumFunction(Xs(h)) * SumFunction(Ys(h))
  BY DEF Sxx, Sxy, SumOver, XXs, XYs, Xs, Ys

LEMMA SumsInt ==
  ASSUME NEW h \in History
  PROVE  /\ SumFunction(Xs(h)) \in Int /\ SumFunction(Ys(h)) \in Int
         /\ SumFunction(XXs(h)) \in Int /\ SumFunction(YYs(h)) \in Int /\ SumFunction(XYs(h)) \in Int
  BY HistoryFacts, SumInt

(* The same of three functions.                                            *)
Linear3(a, x, b, y, c, z) == a * x + b * y + c * z
IsLinear3(S, e, a, f, b, g, c, k) ==
  /\ a \in Int /\ b \in Int /\ c \in Int
  /\ e \in [S -> Int] /\ f \in [S -> Int] /\ g \in [S -> Int] /\ k \in [S -> Int]
  /\ \A i \in S : e[i] = Linear3(a, f[i], b, g[i], c, k[i])

LEMMA SumLinear3 ==
  ASSUME NEW S, IsFiniteSet(S), NEW e, NEW a, NEW f, NEW b, NEW g, NEW c, NEW k,
         IsLinear3(S, e, a, f, b, g, c, k)
  PROVE  SumFunction(e) = Linear3(a, SumFunction(f), b, SumFunction(g), c, SumFunction(k))
<1> DEFINE d == [i \in S |-> a * f[i] + b * g[i]]
<1>0. /\ a \in Int /\ b \in Int /\ c \in Int
      /\ e \in [S -> Int] /\ f \in [S -> Int] /\ g \in [S -> Int] /\ k \in [S -> Int]
      /\ \A i \in S : e[i] = a * f[i] + b * g[i] + c * k[i]
  BY DEF IsLinear3, Linear3
<1>1. d \in [S -> Int] /\ IsLinear(S, d, a, f, b, g)
  BY <1>0 DEF IsLinear, Linear
<1>2. IsLinear(S, e, 1, d, c, k)
  BY <1>0 DEF IsLinear, Linear
<1> HIDE DEF d
<1>3. SumFunction(d) = Linear(a, SumFunction(f), b, SumFunction(g))
  BY <1>1, SumLinear
<1>4. SumFunction(e) = Linear(1, SumFunction(d), c, SumFunction(k))
  BY <1>2, SumLinear
<1>5. SumFunction(d) \in Int
  BY <1>1, SumInt
<1> QED
  BY <1>3, <1>4, <1>5 DEF Linear, Linear3

LEMMA SquareOfDifference ==
  ASSUME NEW q \in Int, NEW y \in Int, NEW p \in Int, NEW x \in Int
  PROVE  (q * y - p * x) * (q * y - p * x)
           = (q * q) * (y * y) + (-(2 * p * q)) * (x * y) + (p * p) * (x * x)
  OBVIOUS

LEMMA QuadraticForm ==
  ASSUME NEW N \in Int, NEW YY \in Int, NEW XY \in Int, NEW XX \in Int, NEW Y \in Int, NEW X \in Int,
         NEW p \in Int, NEW q \in Int
  PROVE  N * ((q * q) * YY + (-(2 * p * q)) * XY + (p * p) * XX) - (q * Y + (-p) * X) * (q * Y + (-p) * X)
           = (q * q) * (N * YY - Y * Y) - (2 * p * q) * (N * XY - X * Y) + (p * p) * (N * XX - X * X)
  OBVIOUS

(* The residuals R of the line of slope p/q, and their squares.            *)
IsResidual(h, p, q, R, RR) ==
  /\ R = [i \in DOMAIN h |-> q * h[i].lvl - p * h[i].ts]
  /\ RR = [i \in DOMAIN h |-> R[i] * R[i]]

LEMMA Residuals ==
  ASSUME NEW h \in History, NEW p \in Int, NEW q \in Int,
         NEW R, NEW RR, IsResidual(h, p, q, R, RR)
  PROVE  Len(h) * SumFunction(RR) - SumFunction(R) * SumFunction(R)
           = (q * q) * Syy(h) - (2 * p * q) * Sxy(h) + (p * p) * Sxx(h)
<1> DEFINE S == DOMAIN h
           N == Len(h)
           X == SumFunction(Xs(h))     Y == SumFunction(Ys(h))
           XX == SumFunction(XXs(h))   YY == SumFunction(YYs(h))   XY == SumFunction(XYs(h))
<1>0. IsFiniteSet(S) /\ Xs(h) \in [S -> Int] /\ Ys(h) \in [S -> Int] /\ XXs(h) \in [S -> Int]
      /\ YYs(h) \in [S -> Int] /\ XYs(h) \in [S -> Int]
  BY HistoryFacts
<1>1. \A i \in S : h[i].ts \in Int /\ h[i].lvl \in Int
  BY HistoryFacts DEF Xs, Ys
<1>2. N \in Int /\ X \in Int /\ Y \in Int /\ XX \in Int /\ YY \in Int /\ XY \in Int
  BY SumsInt, HistoryFacts
<1>3. SumFunction(R) = q * Y + (-p) * X
  <2>1. \A i \in S : R[i] \in Int /\ R[i] = q * Ys(h)[i] + (-p) * Xs(h)[i]
    BY <1>1 DEF IsResidual, Xs, Ys
  <2>2. IsLinear(S, R, q, Ys(h), -p, Xs(h))
    BY <1>0, <2>1 DEF IsResidual, IsLinear, Linear
  <2>3. SumFunction(R) = Linear(q, Y, -p, X)
    BY <1>0, <2>2, SumLinear
  <2> QED
    BY <2>3 DEF Linear
<1>4. SumFunction(RR) = (q * q) * YY + (-(2 * p * q)) * XY + (p * p) * XX
  <2> DEFINE a == q * q   b == -(2 * p * q)   c == p * p
  <2>1. \A i \in S : RR[i] \in Int /\ RR[i] = a * YYs(h)[i] + b * XYs(h)[i] + c * XXs(h)[i]
    BY <1>1, SquareOfDifference DEF IsResidual, YYs, XYs, XXs
  <2>2. IsLinear3(S, RR, a, YYs(h), b, XYs(h), c, XXs(h))
    <3>1. a \in Int /\ b \in Int /\ c \in Int
      OBVIOUS
    <3> HIDE DEF a, b, c
    <3> QED
      BY <1>0, <2>1, <3>1 DEF IsResidual, IsLinear3, Linear3
  <2> HIDE DEF a, b, c
  <2>3. SumFunction(RR) = Linear3(a, YY, b, XY, c, XX)
    BY <1>0, <2>2, SumLinear3
  <2> QED
    BY <2>3 DEF Linear3, a, b, c
<1>5. Syy(h) = N * YY - Y * Y /\ Sxy(h) = N * XY - X * Y /\ Sxx(h) = N * XX - X * X
  BY FitSums DEF Syy
<1> HIDE DEF N, X, Y, XX, YY, XY
<1>6. N * SumFunction(RR) - SumFunction(R) * SumFunction(R)
        = (q * q) * Syy(h) - (2 * p * q) * Sxy(h) + (p * p) * Sxx(h)
  BY <1>2, <1>3, <1>4, <1>5, QuadraticForm
<1> QED
  BY <1>6 DEF N

LEMMA FitInt ==
  ASSUME NEW h \in History
  PROVE  Sxx(h) \in Int /\ Sxy(h) \in Int /\ Syy(h) \in Int
<1>1. Len(h) \in Int
  BY HistoryFacts
<1>2. /\ SumFunction(Xs(h)) \in Int /\ SumFunction(Ys(h)) \in Int
      /\ SumFunction(XXs(h)) \in Int /\ SumFunction(YYs(h)) \in Int /\ SumFunction(XYs(h)) \in Int
  BY SumsInt
<1>3. \A n, p, q, r \in Int : n * p - q * r \in Int
  OBVIOUS
<1>4. Sxx(h) \in Int
  BY <1>1, <1>2, <1>3, FitSums
<1>5. Sxy(h) \in Int
  BY <1>1, <1>2, <1>3, FitSums
<1>6. Syy(h) \in Int
  BY <1>1, <1>2, <1>3 DEF Syy
<1> QED
  BY <1>4, <1>5, <1>6

(* The spread of the times is never negative, by Cauchy and Schwarz: the   *)
(* squares of the distances to the mean add up to it.                      *)
LEMMA SxxNat ==
  ASSUME NEW h \in History
  PROVE  Sxx(h) >= 0
<1> DEFINE N == Len(h)   X == SumFunction(Xs(h))   XX == SumFunction(XXs(h))   S == DOMAIN h
           D == [i \in S |-> (N * h[i].ts - X) * (N * h[i].ts - X)]
           Ones == [i \in S |-> 1]
<1>0. IsFiniteSet(S) /\ Xs(h) \in [S -> Int] /\ Ys(h) \in [S -> Int] /\ XXs(h) \in [S -> Int]
      /\ YYs(h) \in [S -> Int] /\ XYs(h) \in [S -> Int]
  BY HistoryFacts
<1>1. \A i \in S : h[i].ts \in Int
  BY HistoryFacts DEF Xs
<1>2. N \in Nat /\ X \in Int /\ XX \in Int
  BY HistoryFacts, SumsInt
<1>3. Sxx(h) = N * XX - X * X
  BY FitSums
<1>4. D \in [S -> Nat]
  <2>1. \A z \in Int : z * z \in Nat
    OBVIOUS
  <2>2. \A i \in S : N * h[i].ts - X \in Int
    <3> HIDE DEF N, X
    <3> QED
      BY <1>1, <1>2
  <2> HIDE DEF N, X
  <2> QED
    BY <2>1, <2>2
<1>5. SumFunction(D) \in Nat
  <2> HIDE DEF D
  <2> QED
    BY <1>4, HistoryFacts, SumNat
<1>6. SumFunction(D) = (N * N) * XX + (-(2 * X * N)) * X + (X * X) * N
  <2> DEFINE a == N * N   b == -(2 * X * N)   c == X * X
  <2>1. ASSUME NEW i \in S PROVE D[i] = a * XXs(h)[i] + b * Xs(h)[i] + c * Ones[i]
    <3> DEFINE t == h[i].ts
    <3>1. t \in Int /\ XXs(h)[i] = t * t /\ Xs(h)[i] = t /\ D[i] = (N * t - X) * (N * t - X)
      BY <1>1 DEF XXs, Xs
    <3> HIDE DEF t, D, N, X
    <3>2. (N * t - X) * (N * t - X) = (N * N) * (t * t) + (-(2 * X * N)) * t + (X * X) * 1
      BY <1>2, <3>1
    <3> QED
      BY <3>1, <3>2
  <2>2. D \in [S -> Int]
    <3> HIDE DEF D
    <3> QED
      BY <1>4
  <2>3. a \in Int /\ b \in Int /\ c \in Int
    <3> HIDE DEF N, X
    <3> QED
      BY <1>2
  <2>4. Ones \in [S -> Int] /\ SumFunction(Ones) = N
    <3>1. Ones \in [S -> Int] /\ \A i \in S : Ones[i] = 1
      OBVIOUS
    <3> HIDE DEF Ones
    <3> QED
      BY <3>1, HistoryFacts, SumOfOnes
  <2>5. IsLinear3(S, D, a, XXs(h), b, Xs(h), c, Ones)
    <3> HIDE DEF D, Ones, a, b, c
    <3> QED
      BY <2>1, <2>2, <2>3, <2>4, HistoryFacts DEF IsLinear3, Linear3
  <2>6. IsFiniteSet(S)
    BY HistoryFacts
  <2> HIDE DEF D, Ones, a, b, c, N
  <2>7. SumFunction(D) = Linear3(a, SumFunction(XXs(h)), b, SumFunction(Xs(h)), c, SumFunction(Ones))
    BY <2>5, <2>6, SumLinear3
  <2> QED
    BY <2>4, <2>7 DEF Linear3, a, b, c
<1> HIDE DEF N, X, XX, D
<1>7. (N * N) * XX + (-(2 * X * N)) * X + (X * X) * N = N * (N * XX - X * X)
  BY <1>2
<1>8. CASE N > 0
  <2> DEFINE V == N * XX - X * X
  <2>1. V \in Int /\ N * V >= 0
    BY <1>2, <1>5, <1>6, <1>7
  <2> HIDE DEF V
  <2>2. V >= 0
    BY <1>2, <1>8, <2>1
  <2> QED
    BY <1>3, <2>2 DEF V
<1>9. CASE N = 0
  <2>1. X = 0
    <3>1. PICK g : Sums(g, Xs(h), S, Int) /\ X = g[S]
      BY HistoryFacts, SumRec DEF X
    <3>2. S = {}
      BY <1>9, HistoryFacts, FS_EmptySet DEF N
    <3> QED
      BY <3>1, <3>2 DEF Sums, SumStep
  <2> QED
    BY <1>2, <1>3, <1>9, <2>1
<1> QED
  BY <1>2, <1>8, <1>9

(* Readings of one instant have no spread.                                 *)
LEMMA OneInstant ==
  ASSUME NEW h \in History, NEW t \in Int, \A i \in DOMAIN h : h[i].ts = t
  PROVE  Sxx(h) = 0
<1> DEFINE S == DOMAIN h   N == Len(h)   Ones == [i \in S |-> 1]   tt == t * t
<1>1. IsFiniteSet(S) /\ N \in Nat /\ Xs(h) \in [S -> Int] /\ XXs(h) \in [S -> Int]
  BY HistoryFacts
<1>2. Ones \in [S -> Int] /\ SumFunction(Ones) = N
  <2>1. Ones \in [S -> Int] /\ \A i \in S : Ones[i] = 1
    OBVIOUS
  <2> HIDE DEF Ones
  <2> QED
    BY <2>1, HistoryFacts, SumOfOnes
<1>3. tt \in Int /\ \A i \in S : Ones[i] = 1 /\ Xs(h)[i] = t /\ XXs(h)[i] = tt
  BY DEF Xs, XXs
<1> HIDE DEF Ones, S, N, tt
<1>4. IsLinear(S, Xs(h), t, Ones, 0, Ones) /\ IsLinear(S, XXs(h), tt, Ones, 0, Ones)
  BY <1>1, <1>2, <1>3 DEF IsLinear, Linear
<1>5. SumFunction(Xs(h)) = t * N
  <2>1. SumFunction(Xs(h)) = Linear(t, N, 0, N)
    BY <1>1, <1>2, <1>4, SumLinear
  <2> QED
    BY <1>1, <2>1 DEF Linear
<1>6. SumFunction(XXs(h)) = tt * N
  <2>1. SumFunction(XXs(h)) = Linear(tt, N, 0, N)
    BY <1>1, <1>2, <1>4, SumLinear
  <2> QED
    BY <1>1, <1>3, <2>1 DEF Linear
<1>7. N * (tt * N) - (t * N) * (t * N) = 0
  BY <1>1 DEF tt
<1> QED
  BY <1>5, <1>6, <1>7, FitSums DEF N

-----------------------------------------------------------------------------
(* battery.rs.  Between two breakpoints: the percentage on the line through them.       *)
Between(lo, hi, mv) == RoundDiv(lo[2] * (hi[1] - lo[1]) + (mv - lo[1]) * (hi[2] - lo[2]), hi[1] - lo[1])

LEMMA RoundDivExact == ASSUME NEW k \in Int, NEW d \in Nat \ {0} PROVE RoundDiv(k * d, d) = k
<1> DEFINE r == RoundDiv(k * d, d)   a == k * d
<1>1. r \in Int /\ a \in Int
  BY RoundDivInt
<1>2. 2 * (d * r - a) <= d /\ 2 * (a - d * r) <= d
  <2>1. r = RoundDiv(a, d)
    OBVIOUS
  <2> HIDE DEF a, r
  <2> QED
    BY <1>1, <2>1, RoundDivNearest
<1> HIDE DEF r
<1>3. ~(r < k)
  <2> SUFFICES ASSUME r < k PROVE FALSE
    OBVIOUS
  <2>1. d * r + d <= d * k
    BY <1>1, MulStep
  <2> DEFINE u == d * r
  <2>2. u \in Int /\ d * k = a /\ a \in Int
    BY <1>1
  <2> HIDE DEF u, a
  <2> QED
    BY <1>2, <2>1, <2>2 DEF u
<1>4. ~(k < r)
  <2> SUFFICES ASSUME k < r PROVE FALSE
    OBVIOUS
  <2>1. d * k + d <= d * r
    BY <1>1, MulStep
  <2> DEFINE u == d * r
  <2>2. u \in Int /\ d * k = a /\ a \in Int
    BY <1>1
  <2> HIDE DEF u, a
  <2> QED
    BY <1>2, <2>1, <2>2 DEF u
<1> QED
  BY <1>1, <1>3, <1>4 DEF r

LEMMA BetweenFacts ==
  ASSUME NEW lo \in Int \X Int, NEW hi \in Int \X Int, lo[1] < hi[1], lo[2] <= hi[2],
         NEW v \in Int, lo[1] <= v, v <= hi[1]
  PROVE  /\ Between(lo, hi, v) \in lo[2]..hi[2]
         /\ \A w \in Int : v <= w => Between(lo, hi, v) <= Between(lo, hi, w)
<1> DEFINE x1 == lo[1]   y1 == lo[2]   x2 == hi[1]   y2 == hi[2]
           d == x2 - x1   rise == y2 - y1   Num(w) == y1 * d + (w - x1) * rise
<1>0. x1 \in Int /\ y1 \in Int /\ x2 \in Int /\ y2 \in Int
  OBVIOUS
<1>1. d \in Nat \ {0} /\ rise \in Nat /\ \A w \in Int : Num(w) \in Int
  OBVIOUS
<1>2. \A w \in Int : Between(lo, hi, w) = RoundDiv(Num(w), d)
  BY DEF Between
<1>a. x1 < x2 /\ y1 <= y2 /\ x1 <= v /\ v <= x2
  OBVIOUS
<1> HIDE DEF x1, y1, x2, y2
<1>3. ASSUME NEW a \in Int, NEW b \in Int, a <= b PROVE Num(a) <= Num(b)
  <2>1. (b - a) * rise >= 0
    BY <1>0, <1>1, <1>3
  <2>2. (b - x1) * rise = (a - x1) * rise + (b - a) * rise
    BY <1>0, <1>1
  <2> DEFINE p == (a - x1) * rise   q == (b - a) * rise   c == y1 * d
  <2>3. p \in Int /\ q \in Int /\ c \in Int
    BY <1>0, <1>1
  <2>4. Num(a) = c + p /\ Num(b) = c + (p + q)
    BY <2>2
  <2> HIDE DEF p, c, Num
  <2> QED
    BY <2>1, <2>3, <2>4
<1>4. Num(x1) = y1 * d /\ Num(x2) = y2 * d
  <2>1. d * rise = y2 * d - y1 * d
    BY <1>0, <1>1
  <2> QED
    BY <1>0, <1>1, <2>1
<1> HIDE DEF Num, d, rise
<1>5. RoundDiv(Num(x1), d) = y1 /\ RoundDiv(Num(x2), d) = y2
  BY <1>0, <1>1, <1>4, RoundDivExact
<1>6. \A a, b \in Int : a <= b => RoundDiv(Num(a), d) <= RoundDiv(Num(b), d)
  BY <1>1, <1>3, RoundDivMonotone
<1>7. RoundDiv(Num(v), d) \in Int
  BY <1>1, RoundDivInt
<1> QED
  BY <1>0, <1>a, <1>2, <1>5, <1>6, <1>7 DEF x1, y1, x2, y2

(* BatteryCurve::percent finds the segment that holds the voltage.         *)
LEMMA SegmentFound ==
  ASSUME NEW c, SortedCurve(c), NEW v \in Int, c[1][1] < v, v < c[Len(c)][1]
  PROVE  \E i \in 1..Len(c) - 1 : /\ c[i][1] < v /\ v <= c[i + 1][1]
                                 /\ BatteryPercent(c, v) = Between(c[i], c[i + 1], v)
<1> DEFINE n == Len(c)
           Hits(i) == /\ v <= c[i + 1][1]
                      /\ \A j \in 1..i - 1 : v > c[j + 1][1]
           hit == CHOOSE i \in 1..n - 1 : Hits(i)
           T == {i \in 1..n - 1 : v <= c[i + 1][1]}
<1>1. n \in Nat \ {0} /\ \A i \in 1..n : c[i][1] \in Int /\ c[i][2] \in Int
  BY DEF SortedCurve
<1>2. n > 1
  BY <1>1
<1>3. n - 1 \in T
  BY <1>1, <1>2
<1>4. PICK i \in T : \A j \in T : i <= j
  <2>1. T \subseteq Nat /\ T # {}
    <3>1. T \subseteq 1..n - 1 /\ T # {}
      BY <1>3
    <3>2. 1..n - 1 \subseteq Nat
      BY <1>1
    <3> HIDE DEF T, n
    <3> QED
      BY <3>1, <3>2
  <2> HIDE DEF T
  <2> QED
    BY <2>1, LeastNat
<1>5. i \in 1..n - 1 /\ Hits(i)
  <2>1. ASSUME NEW j \in 1..i - 1 PROVE v > c[j + 1][1]
    <3>1. j \in 1..n - 1 /\ j \notin T /\ j + 1 \in 1..n
      BY <1>1, <1>4
    <3> QED
      BY <1>1, <3>1
  <2> QED
    BY <1>4, <2>1
<1>6. hit \in 1..n - 1 /\ Hits(hit)
  <2>1. \E k \in 1..n - 1 : Hits(k)
    BY <1>5
  <2> HIDE DEF Hits, n
  <2> QED
    BY <2>1
<1>7. BatteryPercent(c, v) = Between(c[hit], c[hit + 1], v)
  <2>1. ~(v <= c[1][1]) /\ ~(v >= c[n][1])
    BY <1>1
  <2> QED
    BY <2>1 DEF BatteryPercent, Between
<1> HIDE DEF hit
<1>8. c[hit][1] < v
  <2>1. CASE hit = 1
    BY <2>1
  <2>2. CASE hit # 1
    <3>1. hit - 1 \in 1..hit - 1 /\ (hit - 1) + 1 = hit /\ hit \in 1..n
      BY <1>1, <1>6, <2>2
    <3>2. v > c[(hit - 1) + 1][1]
      BY <1>6, <3>1
    <3>3. c[hit][1] \in Int
      BY <1>1, <3>1
    <3> QED
      BY <3>1, <3>2, <3>3
  <2> QED
    BY <2>1, <2>2
<1> QED
  BY <1>6, <1>7, <1>8

(* battery.rs:3-7: on a sorted curve whose percentages do not fall, a      *)
(* higher voltage never reads emptier, and every voltage, within the       *)
(* breakpoints or not, reads between the first percentage and the last.    *)
THEOREM BatteryPercentMonotone ==
  ASSUME NEW c, SortedCurve(c), NEW v \in Int, NEW w \in Int, v <= w
  PROVE  /\ BatteryPercent(c, v) <= BatteryPercent(c, w)
         /\ BatteryPercent(c, v) \in c[1][2]..c[Len(c)][2]
<1> DEFINE n == Len(c)   P(x) == BatteryPercent(c, x)
<1>1. n \in Nat \ {0} /\ \A i \in 1..n : c[i] \in Int \X Int /\ c[i][1] \in Int /\ c[i][2] \in Int
  BY DEF SortedCurve
<1>2. \A i, j \in 1..n : i <= j => c[i][1] <= c[j][1] /\ c[i][2] <= c[j][2]
  BY DEF SortedCurve
<1>3. \A x \in Int : x <= c[1][1] => P(x) = c[1][2]
  BY <1>1 DEF BatteryPercent
<1>4. \A x \in Int : x > c[1][1] /\ x >= c[n][1] => P(x) = c[n][2]
  BY <1>1 DEF BatteryPercent
<1> DEFINE Mid(x) == c[1][1] < x /\ x < c[n][1]
           In(i, x) == c[i][1] < x /\ x <= c[i + 1][1] /\ P(x) = Between(c[i], c[i + 1], x)
<1>5. ASSUME NEW x \in Int, Mid(x) PROVE \E i \in 1..n - 1 : In(i, x)
  BY <1>5, SegmentFound
<1> HIDE DEF P
<1>6. ASSUME NEW x \in Int, NEW i \in 1..n - 1, In(i, x)
      PROVE  P(x) \in c[i][2]..c[i + 1][2]
  <2>1. i \in 1..n /\ i + 1 \in 1..n
    BY <1>1
  <2>2. c[i][1] < c[i + 1][1] /\ c[i][2] <= c[i + 1][2] /\ c[i][1] <= x
    BY <1>1, <1>2, <1>6, <2>1
  <2> QED
    BY <1>1, <1>6, <2>1, <2>2, BetweenFacts
<1>7. ASSUME NEW x \in Int PROVE P(x) \in c[1][2]..c[n][2]
  <2>1. CASE Mid(x)
    <3>1. PICK i \in 1..n - 1 : In(i, x)
      BY <1>5, <2>1
    <3>2. 1 \in 1..n /\ i \in 1..n /\ i + 1 \in 1..n /\ n \in 1..n
      BY <1>1
    <3>3. /\ c[1][2] <= c[i][2] /\ c[i + 1][2] <= c[n][2]
          /\ c[1][2] \in Int /\ c[i][2] \in Int /\ c[i + 1][2] \in Int /\ c[n][2] \in Int
      BY <1>1, <1>2, <3>2
    <3>4. P(x) \in c[i][2]..c[i + 1][2]
      BY <1>6, <3>1
    <3>5. c[i + 1][2] \in Int /\ P(x) \in Int /\ c[i][2] <= P(x) /\ P(x) <= c[i + 1][2]
      BY <1>1, <3>2, <3>4
    <3> DEFINE lo == c[1][2]   hi == c[n][2]   y == P(x)
    <3>6. lo \in Int /\ hi \in Int /\ y \in Int /\ lo <= y /\ y <= hi
      <4> HIDE DEF P
      <4>1. lo <= P(x)
        BY <3>3, <3>5
      <4>2. P(x) <= hi
        BY <3>3, <3>5
      <4> QED
        BY <3>3, <3>5, <4>1, <4>2
    <3> HIDE DEF lo, hi, y
    <3>7. y \in lo..hi
      BY <3>6
    <3> QED
      BY <3>7 DEF lo, hi, y
  <2>2. CASE ~Mid(x)
    <3>1. P(x) = c[1][2] \/ P(x) = c[n][2]
      BY <1>1, <1>3, <1>4, <2>2
    <3>2. c[1][2] <= c[n][2] /\ c[1][2] \in Int /\ c[n][2] \in Int
      BY <1>1, <1>2
    <3> QED
      BY <3>1, <3>2
  <2> QED
    BY <2>1, <2>2
<1>8. P(v) <= P(w)
  <2>0. c[1][1] \in Int /\ c[n][1] \in Int /\ c[1][1] <= c[n][1]
    BY <1>1, <1>2
  <2>1. CASE v <= c[1][1]
    <3>1. P(v) = c[1][2] /\ P(w) \in c[1][2]..c[n][2]
      BY <1>3, <1>7, <2>1
    <3> QED
      BY <1>1, <3>1
  <2>2. CASE v > c[1][1] /\ w >= c[n][1]
    <3>1. w > c[1][1] /\ w >= c[n][1]
      BY <2>0, <2>2
    <3>2. P(w) = c[n][2]
      BY <1>4, <3>1
    <3>3. P(v) \in c[1][2]..c[n][2]
      BY <1>7
    <3> QED
      BY <1>1, <3>2, <3>3
  <2>3. CASE v > c[1][1] /\ w < c[n][1]
    <3>1. Mid(v) /\ Mid(w)
      BY <2>0, <2>3
    <3>2. PICK i \in 1..n - 1 : In(i, v)
      BY <1>5, <3>1
    <3>3. PICK k \in 1..n - 1 : In(k, w)
      BY <1>5, <3>1
    <3>4. i \in 1..n /\ i + 1 \in 1..n /\ k \in 1..n /\ k + 1 \in 1..n
      BY <1>1
    <3>5. CASE i = k
      <4>1. c[i][1] < c[i + 1][1] /\ c[i][2] <= c[i + 1][2] /\ c[i][1] <= v
        BY <1>1, <1>2, <3>2, <3>4
      <4>2. Between(c[i], c[i + 1], v) <= Between(c[i], c[i + 1], w)
        BY <1>1, <3>2, <3>4, <4>1, BetweenFacts
      <4> QED
        BY <3>2, <3>3, <3>5, <4>2
    <3>6. CASE i < k
      <4>1. P(v) \in c[i][2]..c[i + 1][2] /\ P(w) \in c[k][2]..c[k + 1][2]
        BY <1>6, <3>2, <3>3
      <4>2. c[i + 1][2] <= c[k][2]
        BY <1>1, <1>2, <3>4, <3>6
      <4>3. c[i + 1][2] \in Int /\ c[k][2] \in Int
        BY <1>1, <3>4
      <4>4. P(v) \in Int /\ P(w) \in Int /\ P(v) <= c[i + 1][2] /\ c[k][2] <= P(w)
        <5>1. c[i][2] \in Int /\ c[k + 1][2] \in Int
          BY <1>1, <3>4
        <5> HIDE DEF P
        <5> QED
          BY <4>1, <4>3, <5>1
      <4> HIDE DEF P
      <4> QED
        BY <4>2, <4>3, <4>4
    <3>7. ~(k < i)
      <4> SUFFICES ASSUME k < i PROVE FALSE
        OBVIOUS
      <4>1. c[k + 1][1] <= c[i][1]
        BY <1>1, <1>2, <3>4
      <4> QED
        BY <1>1, <3>2, <3>3, <3>4, <4>1
    <3> QED
      BY <1>1, <3>5, <3>6, <3>7
  <2> QED
    BY <2>0, <2>1, <2>2, <2>3
<1> QED
  BY <1>7, <1>8 DEF P
=============================================================================
