-------------------------- MODULE MCFormulasProofs --------------------------
(***************************************************************************)
(* The properties of MCFormulas for every set of levels, times and         *)
(* distances and for histories of every length.                            *)
(***************************************************************************)
EXTENDS MCFormulas, FormulasProofs, SequenceTheorems

(* What the handlers call the formulas and the parsers with.               *)
Inputs ==
  /\ h \in Seq([ts : Times, lvl : Levels])
  /\ cal \in Calibrations
  /\ mv \in Int
  /\ curve \in Curves \cup {DefaultCurve}
  /\ read.of \in Measurements /\ read.raw_of \in Measurements
  /\ read \in Reads(read.of, read.raw_of)
  /\ log \in Lines

(* What a /read of m and n is made of.                                     *)
LEMMA ReadFacts ==
  ASSUME NEW m, NEW n, NEW x \in Reads(m, n)
  PROVE  /\ x.of = m /\ x.raw_of = n
         /\ x.raw \in WholeRaws(n) \cup CorruptRaws(n) \cup {Absent}
         /\ x.battery \in {Number(m.battery), Empty} \cup Garbage
         /\ x.spoilt \in PayloadFields \cup {"payload", "nothing"}
<1>1. PICK json \in SUBSET JsonFields :
        \/ \E raw \in WholeRaws(n) \cup {Absent}, battery \in {Number(m.battery), Empty} \cup Garbage :
             x = Read(m, n, json, raw, battery, "nothing")
        \/ \E raw \in CorruptRaws(n) : x = Read(m, n, json, raw, Number(m.battery), "nothing")
        \/ \E spoilt \in PayloadFields \cup {"payload"} :
             x = Read(m, n, json, Segments(n), Number(m.battery), spoilt)
  BY DEF Reads
<1>2. Segments(n) \in WholeRaws(n)
  BY DEF WholeRaws
<1> QED
  BY <1>1, <1>2 DEF Read

LEMMA IdleIsRead ==
  /\ NoRead \in Measurements /\ Idle.of = NoRead /\ Idle.raw_of = NoRead
  /\ Idle \in Reads(NoRead, NoRead)
<1>1. NoRead \in Measurements
  BY MeasurementsAssumption DEF NoRead
<1>2. Idle = Read(NoRead, NoRead, JsonFields, Absent, Number(NoRead.battery), "nothing")
  BY DEF Idle
<1>3. Idle \in Reads(NoRead, NoRead)
  BY <1>2 DEF Reads
<1> QED
  BY <1>1, <1>2, <1>3 DEF Read

LEMMA SilentIsLine == Silent \in Lines
<1>1. <<>> \in OtherTexts
  <2>1. <<>> \in [1..0 -> Others]
    <3>1. <<>> \in [1..Len(<<>>) -> Others] /\ Len(<<>>) = 0
      BY EmptySeq, LenProperties
    <3>2. \A t, n : t \in [1..n -> Others] /\ n = 0 => t \in [1..0 -> Others]
      OBVIOUS
    <3> QED
      BY <3>1, <3>2
  <2>2. 0 \in 0..MaxWords
    <3>1. MaxWords \in Nat
      BY WordsAssumption, Zenon
    <3> QED
      BY <3>1
  <2> QED
    BY <2>1, <2>2 DEF OtherTexts, SeqOf
<1>2. Silent = Plain(<<>>, " ")
  BY DEF Silent, Plain
<1>3. " " \in Separators
  BY DEF Separators
<1>4. \E t \in OtherTexts : \E sep \in Separators : Silent = Plain(t, sep)
  BY <1>1, <1>2, <1>3, Zenon
<1>5. Silent \in PlainLines
  BY <1>4 DEF PlainLines
<1> QED
  BY <1>5 DEF Lines

LEMMA InputsInit == Init => Inputs
<1> SUFFICES ASSUME Init PROVE Inputs
  OBVIOUS
<1>1. h \in Seq([ts : Times, lvl : Levels]) /\ cal \in Calibrations
  <2>1. h = <<>> /\ cal \in Calibrations
    BY DEF Init
  <2> QED
    BY <2>1, EmptySeq
<1>2. mv \in Int
  <2>1. mv \in Millivolts \/ mv = 3300
    BY DEF Init
  <2>2. Millivolts \subseteq Int
    BY ValuesAssumption
  <2>3. mv = 3300 => mv \in Int
    OBVIOUS
  <2>4. mv \in Millivolts => mv \in Int
    BY <2>2
  <2> QED
    BY <2>1, <2>3, <2>4
<1>3. curve \in Curves \cup {DefaultCurve}
  BY DEF Init
<1>4. /\ read.of \in Measurements /\ read.raw_of \in Measurements
      /\ read \in Reads(read.of, read.raw_of)
  <2>1. read = Idle \/ \E m, n \in Measurements : read \in Reads(m, n)
    BY DEF Init
  <2>2. \A m, n : read \in Reads(m, n) => read.of = m /\ read.raw_of = n
    BY ReadFacts
  <2> QED
    BY <2>1, <2>2, IdleIsRead
<1>5. log \in Lines
  BY SilentIsLine DEF Init
<1> QED
  BY <1>1, <1>2, <1>3, <1>4, <1>5 DEF Inputs

THEOREM InputsInvariant == Spec => []Inputs
<1>1. Init => Inputs
  BY InputsInit
<1>2. Inputs /\ [Next]_vars => Inputs'
  <2> SUFFICES ASSUME Inputs, [Next]_vars PROVE Inputs'
    OBVIOUS
  <2>1. CASE Record
    <3> DEFINE R == [ts : Times, lvl : Levels]
    <3>1. PICK l \in Levels, t \in Times : h' = Append(h, [ts |-> t, lvl |-> l])
      BY <2>1 DEF Record
    <3>2. [ts |-> t, lvl |-> l] \in R
      OBVIOUS
    <3>3. h' \in Seq(R)
      <4>1. h \in Seq(R)
        BY DEF Inputs
      <4> HIDE DEF R
      <4> QED
        BY <3>1, <3>2, <4>1, AppendProperties
    <3>4. cal' = cal /\ mv' = mv /\ curve' = curve /\ read' = read /\ log' = log
      BY <2>1 DEF Record
    <3> QED
      BY <3>3, <3>4 DEF Inputs
  <2>2. CASE UNCHANGED vars
    BY <2>2 DEF vars, Inputs
  <2> QED
    BY <2>1, <2>2 DEF Next
<1> QED
  BY <1>1, <1>2, PTL DEF Spec

LEMMA InputFacts ==
  ASSUME Inputs
  PROVE  /\ h \in History
         /\ cal.full \in Int /\ cal.empty \in Int
         /\ \A i \in DOMAIN h : h[i].ts \in Int /\ h[i].lvl \in Int
<1> DEFINE R == [ts : Times, lvl : Levels]
<1>1. cal.full \in Int /\ cal.empty \in Int
  <2>1. cal \in Calibrations
    BY DEF Inputs
  <2>2. Distances \subseteq Int
    BY ValuesAssumption
  <2> QED
    BY <2>1, <2>2 DEF Calibrations
<1>2. \A r \in R : r \in [ts : Int, lvl : Int]
  BY ValuesAssumption
<1>3. Len(h) \in Nat /\ DOMAIN h = 1..Len(h) /\ \A i \in DOMAIN h : h[i] \in R
  <2>1. h \in Seq(R)
    BY DEF Inputs
  <2> HIDE DEF R
  <2> QED
    BY <2>1
<1>4. \A i \in DOMAIN h : h[i] \in [ts : Int, lvl : Int]
  BY <1>2, <1>3
<1>5. h \in Seq([ts : Int, lvl : Int])
  <2> DEFINE Q == [ts : Int, lvl : Int]
  <2>1. R \subseteq Q /\ h \in Seq(R)
    BY <1>2 DEF Inputs
  <2> HIDE DEF Q, R
  <2>2. h \in Seq(Q)
    BY <2>1
  <2> QED
    BY <2>2 DEF Q
<1> QED
  BY <1>1, <1>4, <1>5 DEF History

-----------------------------------------------------------------------------
(* The percentage is the nearest one to the exact level, for a span b and  *)
(* a fill a of it, both in level units.                                    *)
LEMMA NearestPercent ==
  ASSUME NEW a \in Int, NEW b \in Nat \ {0}, NEW p \in 0..100
  PROVE  Abs(Clamp(RoundDiv(a, b), 0, 100) * b - a) <= Abs(p * b - a)
<1> DEFINE x == RoundDiv(a, b)   c == Clamp(x, 0, 100)   X == b * x   P == p * b   C == c * b
<1> SUFFICES Abs(C - a) <= Abs(P - a)
  OBVIOUS
<1>1. x \in Int /\ X \in Int /\ P \in Int
  BY RoundDivInt
<1>2. 2 * (X - a) <= b /\ 2 * (a - X) <= b
  BY RoundDivNearest
<1>3. 0 <= P /\ P <= 100 * b
  OBVIOUS
<1>4. CASE x < 0
  <2>1. c = 0 /\ C = 0
    BY <1>1, <1>4 DEF Clamp
  <2>2. X + b <= 0
    <3>1. b * x + b <= b * 0
      BY <1>1, <1>4, MulStep
    <3> QED
      BY <1>1, <3>1
  <2>3. a <= 0
    <3> HIDE DEF X
    <3> QED
      BY <1>1, <1>2, <2>2
  <2> HIDE DEF c, P, C
  <2> QED
    BY <1>1, <1>3, <2>1, <2>3 DEF Abs
<1>5. CASE x > 100
  <2>1. c = 100 /\ C = 100 * b
    BY <1>1, <1>5 DEF Clamp
  <2>2. 100 * b + b <= X
    <3>1. b * 100 + b <= b * x
      BY <1>1, <1>5, MulStep
    <3> QED
      BY <1>1, <3>1
  <2>3. 100 * b <= a
    <3> HIDE DEF X
    <3> QED
      BY <1>1, <1>2, <2>2
  <2> HIDE DEF c, P, C
  <2> QED
    BY <1>1, <1>3, <2>1, <2>3 DEF Abs
<1>6. CASE x \in 0..100
  <2>1. c = x /\ C = X
    BY <1>1, <1>6 DEF Clamp
  <2>2. p < x => P + b <= X
    <3>1. p < x => b * p + b <= b * x
      BY <1>1, MulStep
    <3> QED
      BY <3>1
  <2>3. x < p => X + b <= P
    <3>1. x < p => b * x + b <= b * p
      BY <1>1, MulStep
    <3> QED
      BY <3>1
  <2>4. p = x => P = X
    BY <1>1
  <2>5. p < x \/ x < p \/ p = x
    BY <1>1
  <2> HIDE DEF x, X, P, c, C
  <2> QED
    BY <1>1, <1>2, <2>1, <2>2, <2>3, <2>4, <2>5 DEF Abs
<1> QED
  BY <1>1, <1>4, <1>5, <1>6

(* calibration.rs:39-46: for every pair of distances and every reading,    *)
(* pct is a percentage and no other is nearer to the exact fill level.     *)
THEOREM NearestPercentage == Spec => []PctIsNearest
<1>1. Inputs => PctIsNearest
  <2> SUFFICES ASSUME Inputs, NEW l \in Levels PROVE
        LET span == Abs(cal.empty - cal.full)
            exact == 100 * (IF cal.empty > cal.full THEN cal.empty - l ELSE l - cal.empty)
        IN /\ Pct(l, cal) \in 0..100
           /\ span > 0 => \A p \in 0..100 : Abs(Pct(l, cal) * span - exact) <= Abs(p * span - exact)
    BY DEF PctIsNearest
  <2>1. cal.full \in Int /\ cal.empty \in Int /\ l \in Int
    BY InputFacts, ValuesAssumption
  <2>2. Pct(l, cal) \in 0..100
    BY <2>1, PctRange
  <2> DEFINE d == cal.empty - cal.full   num == (cal.empty - l) * 100
  <2>3. CASE d > 0
    <3>1. Pct(l, cal) = Clamp(RoundDiv(num, d), 0, 100)
      BY <2>1, <2>3 DEF Pct
    <3>2. d \in Nat \ {0} /\ num \in Int /\ Abs(d) = d
      BY <2>1, <2>3 DEF Abs
    <3>3. num = 100 * (IF cal.empty > cal.full THEN cal.empty - l ELSE l - cal.empty)
      BY <2>1, <2>3
    <3> HIDE DEF d, num
    <3>4. \A p \in 0..100 : Abs(Pct(l, cal) * d - num) <= Abs(p * d - num)
      BY <3>1, <3>2, NearestPercent
    <3> QED
      BY <2>2, <3>2, <3>3, <3>4 DEF d
  <2>4. CASE d < 0
    <3> DEFINE e == -d   m == -num
    <3>1. Pct(l, cal) = Clamp(RoundDiv(m, e), 0, 100)
      BY <2>1, <2>4 DEF Pct
    <3>2. e \in Nat \ {0} /\ m \in Int /\ Abs(d) = e
      BY <2>1, <2>4 DEF Abs
    <3>3. m = 100 * (IF cal.empty > cal.full THEN cal.empty - l ELSE l - cal.empty)
      BY <2>1, <2>4
    <3> HIDE DEF d, num, e, m
    <3>4. \A p \in 0..100 : Abs(Pct(l, cal) * e - m) <= Abs(p * e - m)
      BY <3>1, <3>2, NearestPercent
    <3> QED
      BY <2>2, <3>2, <3>3, <3>4 DEF d
  <2>5. CASE d = 0
    <3>1. Abs(d) = 0
      BY <2>5 DEF Abs
    <3> QED
      BY <2>2, <3>1
  <2>6. d > 0 \/ d < 0 \/ d = 0
    <3>1. d \in Int
      BY <2>1
    <3> HIDE DEF d
    <3> QED
      BY <3>1
  <2> QED
    BY <2>3, <2>4, <2>5, <2>6
<1> QED
  BY <1>1, InputsInvariant, PTL

(* calibration.rs:3-5: for every tank calibrated the right way round, a    *)
(* smaller distance never reads emptier, nor further from full.            *)
THEOREM CloserIsNeverEmptier == Spec => []CloserIsFuller
<1>1. Inputs => CloserIsFuller
  <2> SUFFICES ASSUME Inputs, cal.full < cal.empty, NEW k \in Levels, NEW l \in Levels, k <= l
               PROVE  Pct(k, cal) >= Pct(l, cal) /\ LvlToFull(k, cal) <= LvlToFull(l, cal)
    BY DEF CloserIsFuller
  <2>1. cal.full \in Int /\ cal.empty \in Int /\ k \in Int /\ l \in Int
    BY InputFacts, ValuesAssumption
  <2>2. Pct(l, cal) <= Pct(k, cal) /\ Pct(k, cal) \in Int /\ Pct(l, cal) \in Int
    <3>1. Pct(k, cal) \in 0..100 /\ Pct(l, cal) \in 0..100
      BY <2>1, PctRange
    <3>2. Pct(l, cal) <= Pct(k, cal)
      BY <2>1, PctMonotone
    <3> QED
      BY <3>1, <3>2
  <2>3. k - cal.full \in Int /\ l - cal.full \in Int /\ k - cal.full <= l - cal.full
    BY <2>1
  <2>4. LvlToFull(k, cal) <= LvlToFull(l, cal)
    BY <2>3, ScaleAssumption, RoundDivMonotone DEF LvlToFull
  <2> QED
    BY <2>2, <2>4
<1> QED
  BY <1>1, InputsInvariant, PTL

-----------------------------------------------------------------------------
(* BatteryCurve::new.  Breakpoint i goes before breakpoint k: an order in  *)
(* which no two breakpoints share a place.                                 *)
Before(c, i, k) == c[i][1] < c[k][1] \/ (c[i][1] = c[k][1] /\ i < k)
NoLater(c, i) ==
  {j \in DOMAIN c : c[j][1] < c[i][1] \/ (c[j][1] = c[i][1] /\ j <= i)}

LEMMA LaterThan ==
  ASSUME NEW x \in Int, NEW y \in Int, NEW z \in Int, NEW i \in Nat, NEW j \in Nat, NEW k \in Nat,
         x < y \/ (x = y /\ j <= i), y < z \/ (y = z /\ i < k)
  PROVE  x < z \/ (x = z /\ j < k)
  OBVIOUS

LEMMA BeforeOrder ==
  ASSUME NEW c \in Seq(Int \X Int), NEW i \in DOMAIN c, NEW k \in DOMAIN c
  PROVE  /\ i = k \/ Before(c, i, k) \/ Before(c, k, i)
         /\ Before(c, i, k) => NoLater(c, i) \subseteq NoLater(c, k) /\ k \notin NoLater(c, i)
<1>1. DOMAIN c \subseteq Nat /\ \A j \in DOMAIN c : c[j][1] \in Int
  <2>1. DOMAIN c = 1..Len(c) /\ Len(c) \in Nat /\ \A j \in DOMAIN c : c[j] \in Int \X Int
    OBVIOUS
  <2>2. \A x \in Int \X Int : x[1] \in Int
    OBVIOUS
  <2>3. \A j \in DOMAIN c : c[j][1] \in Int
    BY <2>1, <2>2
  <2>4. DOMAIN c \subseteq Nat
    BY <2>1
  <2> QED
    BY <2>3, <2>4
<1>2. i \in Nat /\ k \in Nat /\ c[i][1] \in Int /\ c[k][1] \in Int
  BY <1>1
<1>3. i = k \/ Before(c, i, k) \/ Before(c, k, i)
  BY <1>2 DEF Before
<1>4. ASSUME Before(c, i, k), NEW j \in NoLater(c, i) PROVE j \in NoLater(c, k) /\ j # k
  <2>1. j \in DOMAIN c /\ j \in Nat /\ c[j][1] \in Int
    BY <1>1 DEF NoLater
  <2>2. c[j][1] < c[i][1] \/ (c[j][1] = c[i][1] /\ j <= i)
    BY DEF NoLater
  <2>3. c[i][1] < c[k][1] \/ (c[i][1] = c[k][1] /\ i < k)
    BY <1>4 DEF Before
  <2>4. c[j][1] < c[k][1] \/ (c[j][1] = c[k][1] /\ j < k)
    <3> DEFINE x == c[j][1]   y == c[i][1]   z == c[k][1]
    <3>1. x \in Int /\ y \in Int /\ z \in Int /\ i \in Nat /\ j \in Nat /\ k \in Nat
      BY <1>2, <2>1
    <3>2. (x < y \/ (x = y /\ j <= i)) /\ (y < z \/ (y = z /\ i < k))
      BY <2>2, <2>3
    <3> HIDE DEF x, y, z
    <3>3. x < z \/ (x = z /\ j < k)
      BY <3>1, <3>2, LaterThan
    <3> QED
      BY <3>3 DEF x, z
  <2>5. j # k
    BY <1>2, <2>4
  <2>6. j < k => j <= k
    BY <1>2, <2>1
  <2> QED
    BY <2>1, <2>4, <2>5, <2>6 DEF NoLater
<1> QED
  BY <1>3, <1>4

LEMMA UpTo == ASSUME NEW n \in Nat PROVE IsFiniteSet(1..n) /\ Cardinality(1..n) = n
<1>1. IsFiniteSet(1..n) /\ Cardinality(1..n) = IF 1 > n THEN 0 ELSE n - 1 + 1
  BY FS_Interval
<1> QED
  BY <1>1

LEMMA OneToOneIsOnto ==
  ASSUME NEW S, IsFiniteSet(S), NEW f \in [S -> S], \A x, y \in S : f[x] = f[y] => x = y
  PROVE  f \in Bijection(S, S)
<1>1. f \in Injection(S, S)
  BY DEF Injection, IsInjective
<1>2. f \in Surjection(S, S)
  BY <1>1, FS_Injection
<1> QED
  BY <1>1, <1>2 DEF Bijection

LEMMA PlaceFacts ==
  ASSUME NEW c \in Seq(Int \X Int), NEW i \in DOMAIN c
  PROVE  /\ Place(c, i) \in DOMAIN c
         /\ \A k \in DOMAIN c : Before(c, i, k) => Place(c, i) < Place(c, k)
<1>1. DOMAIN c = 1..Len(c) /\ Len(c) \in Nat
  OBVIOUS
<1>2. IsFiniteSet(DOMAIN c) /\ Cardinality(DOMAIN c) = Len(c)
  BY <1>1, UpTo
<1>3. ASSUME NEW k \in DOMAIN c
      PROVE  /\ IsFiniteSet(NoLater(c, k)) /\ Cardinality(NoLater(c, k)) = Place(c, k)
             /\ Place(c, k) \in Nat /\ Place(c, k) <= Len(c)
  <2>1. NoLater(c, k) \in SUBSET DOMAIN c
    BY DEF NoLater
  <2>2. IsFiniteSet(NoLater(c, k)) /\ Cardinality(NoLater(c, k)) <= Len(c)
    BY <1>2, <2>1, FS_Subset
  <2>3. Cardinality(NoLater(c, k)) = Place(c, k)
    BY DEF NoLater, Place
  <2> QED
    BY <2>2, <2>3, FS_CardinalityType
<1>4. i \in NoLater(c, i)
  BY <1>1 DEF NoLater
<1>5. Place(c, i) # 0
  BY <1>3, <1>4, FS_EmptySet
<1>6. ASSUME NEW k \in DOMAIN c, Before(c, i, k) PROVE Place(c, i) < Place(c, k)
  <2>1. NoLater(c, i) \in SUBSET NoLater(c, k) /\ k \notin NoLater(c, i)
    BY <1>6, BeforeOrder
  <2>2. k \in NoLater(c, k)
    BY <1>1 DEF NoLater
  <2>3. /\ Cardinality(NoLater(c, i)) <= Cardinality(NoLater(c, k))
        /\ Cardinality(NoLater(c, i)) # Cardinality(NoLater(c, k))
    BY <1>3, <2>1, <2>2, FS_Subset
  <2> QED
    BY <1>3, <2>3
<1> QED
  BY <1>1, <1>3, <1>5, <1>6

(* battery.rs:28-32: the sort is a stable one, for every table.            *)
Permutes(c, p) ==
  /\ p \in Bijection(DOMAIN c, DOMAIN c)
  /\ \A k \in DOMAIN c : NewCurve(c)[k] = c[p[k]]
  /\ \A k, l \in DOMAIN c : k < l => Before(c, p[k], p[l])

LEMMA NewCurveIsStable ==
  ASSUME NEW c \in Seq(Int \X Int)
  PROVE  /\ \E p : Permutes(c, p)
         /\ NewCurve(c) \in Seq(Int \X Int) /\ Len(NewCurve(c)) = Len(c)
<1> DEFINE D == DOMAIN c
           f == [i \in D |-> Place(c, i)]
           p == [k \in D |-> CHOOSE i \in D : Place(c, i) = k]
<1>1. D = 1..Len(c) /\ Len(c) \in Nat /\ IsFiniteSet(D) /\ D \subseteq Nat
  <2>1. D = 1..Len(c) /\ Len(c) \in Nat
    OBVIOUS
  <2> HIDE DEF D
  <2> QED
    BY <2>1, FS_Interval
<1>2. \A i, k \in D : i = k \/ Before(c, i, k) \/ Before(c, k, i)
  BY BeforeOrder
<1>3. \A i \in D : Place(c, i) \in D
  BY PlaceFacts
<1>4. \A i, k \in D : Before(c, i, k) => Place(c, i) < Place(c, k)
  BY PlaceFacts
<1> HIDE DEF D
<1>5. \A i, k \in D : Place(c, i) = Place(c, k) => i = k
  <2>1. \A i \in D : Place(c, i) \in Nat
    BY <1>1, <1>3
  <2> QED
    BY <1>2, <1>4, <2>1
<1>6. f \in Bijection(D, D)
  <2>1. f \in [D -> D] /\ \A i, k \in D : f[i] = f[k] => i = k
    BY <1>3, <1>5
  <2> HIDE DEF f
  <2> QED
    BY <1>1, <2>1, OneToOneIsOnto
<1>7. \A k \in D : p[k] \in D /\ Place(c, p[k]) = k
  <2>1. \A k \in D : \E i \in D : Place(c, i) = k
    BY <1>6 DEF Bijection, Surjection
  <2> QED
    BY <2>1
<1>8. p \in Bijection(D, D)
  <2>1. p \in [D -> D] /\ \A k, l \in D : p[k] = p[l] => k = l
    BY <1>7
  <2> HIDE DEF p
  <2> QED
    BY <1>1, <2>1, OneToOneIsOnto
<1>9. NewCurve(c) = [k \in D |-> c[p[k]]]
  BY DEF NewCurve, D
<1> HIDE DEF p
<1>10. ASSUME NEW k \in D, NEW l \in D, k < l PROVE Before(c, p[k], p[l])
  <2>1. /\ p[k] \in D /\ p[l] \in D /\ k \in Nat /\ l \in Nat
        /\ Place(c, p[k]) = k /\ Place(c, p[l]) = l
    BY <1>1, <1>7
  <2>2. ~Before(c, p[l], p[k])
    <3>1. Before(c, p[l], p[k]) => Place(c, p[l]) < Place(c, p[k])
      BY <1>4, <2>1
    <3>2. ~(l < k)
      BY <1>10, <2>1
    <3> QED
      BY <2>1, <3>1, <3>2
  <2>3. p[k] # p[l]
    BY <1>10, <2>1
  <2> QED
    BY <1>2, <2>1, <2>2, <2>3
<1>11. Permutes(c, p)
  BY <1>8, <1>9, <1>10 DEF Permutes, D
<1>12. NewCurve(c) \in Seq(Int \X Int) /\ Len(NewCurve(c)) = Len(c)
  <2> DEFINE s == NewCurve(c)   n == Len(c)   V == Int \X Int
  <2>1. \A k \in D : c[p[k]] \in V
    <3>1. \A i \in D : c[i] \in V
      BY DEF D
    <3> QED
      BY <1>7, <3>1
  <2>2. s \in [1..n -> V] /\ n \in Nat
    BY <1>1, <1>9, <2>1
  <2> HIDE DEF s, n, V
  <2>3. s \in Seq(V) /\ Len(s) = n
    BY <2>2
  <2> QED
    BY <2>3 DEF s, n, V
<1> QED
  BY <1>11, <1>12

LEMMA CurveFacts == Inputs => curve \in Seq(Int \X Int) /\ Len(curve) > 0
<1>1. DefaultCurve \in Seq(Int \X Int) /\ DefaultCurve # <<>>
  BY DEF DefaultCurve
<1>2. Inputs => curve \in Seq(Int \X Int) /\ curve # <<>>
  BY <1>1, CurvesAssumption DEF Inputs
<1> QED
  BY <1>2

(* battery.rs:28-32: whatever table new is given, it keeps every           *)
(* breakpoint, in the order of the voltages, and those of one voltage in   *)
(* the order in which they were given.                                     *)
THEOREM CurvesAreSorted == Spec => []NewSorts
<1>1. Inputs => NewSorts
  <2> SUFFICES ASSUME Inputs PROVE NewSorts
    OBVIOUS
  <2> DEFINE c == NewCurve(curve)
  <2>1. curve \in Seq(Int \X Int)
    BY CurveFacts
  <2>2. PICK p : Permutes(curve, p)
    BY <2>1, NewCurveIsStable
  <2>3. Len(c) = Len(curve)
    BY <2>1, NewCurveIsStable
  <2>4. p \in Bijection(DOMAIN curve, DOMAIN curve) /\ \A k \in DOMAIN curve : c[k] = curve[p[k]]
    BY <2>2 DEF Permutes
  <2>5. \A k, l \in DOMAIN curve :
          k < l => c[k][1] < c[l][1] \/ (c[k][1] = c[l][1] /\ p[k] < p[l])
    BY <2>2, <2>4 DEF Permutes, Before
  <2> QED
    BY <2>3, <2>4, <2>5 DEF NewSorts
<1> QED
  BY <1>1, InputsInvariant, PTL

(* A rising table, once sorted, is what percent relies on.                 *)
LEMMA RisingSorted ==
  ASSUME NEW c \in Seq(Int \X Int), Len(c) > 0, Rising(c)
  PROVE  SortedCurve(NewCurve(c))
<1> DEFINE s == NewCurve(c)
<1>1. PICK p : Permutes(c, p)
  BY NewCurveIsStable
<1>2. s \in Seq(Int \X Int) /\ Len(s) = Len(c)
  BY NewCurveIsStable
<1>3. DOMAIN c = 1..Len(c) /\ Len(c) \in Nat
  OBVIOUS
<1>4. \A k \in 1..Len(c) : s[k] = c[p[k]] /\ p[k] \in DOMAIN c
  BY <1>1, <1>3 DEF Permutes, Bijection, Injection
<1> HIDE DEF s
<1>5. \A k \in 1..Len(c) : s[k][1] \in Int /\ s[k][2] \in Int
  <2>1. \A k \in 1..Len(c) : s[k] \in Int \X Int
    BY <1>2
  <2>2. \A x \in Int \X Int : x[1] \in Int /\ x[2] \in Int
    OBVIOUS
  <2> QED
    BY <2>1, <2>2
<1>6. ASSUME NEW k \in 1..Len(c), NEW l \in 1..Len(c), k <= l
      PROVE  s[k][1] <= s[l][1] /\ s[k][2] <= s[l][2]
  <2>1. CASE k = l
    <3>1. \A a, b \in Int : a = b => a <= b
      OBVIOUS
    <3>2. s[k] = s[l] /\ s[k][1] \in Int /\ s[k][2] \in Int
      BY <1>5, <2>1
    <3> QED
      BY <3>1, <3>2
  <2>2. CASE k < l
    <3>1. Before(c, p[k], p[l])
      BY <1>1, <1>3, <2>2 DEF Permutes
    <3>2. c[p[k]][2] <= c[p[l]][2]
      BY <1>4, <3>1 DEF Rising, Before
    <3>3. c[p[k]][1] <= c[p[l]][1]
      <4>1. c[p[k]][1] \in Int /\ c[p[l]][1] \in Int
        BY <1>4, <1>5
      <4> DEFINE v == c[p[k]][1]   w == c[p[l]][1]
      <4>2. v < w \/ v = w
        BY <3>1 DEF Before
      <4> HIDE DEF v, w
      <4>3. v \in Int /\ w \in Int => v <= w
        BY <4>2
      <4> QED
        BY <4>1, <4>3 DEF v, w
    <3> QED
      BY <1>4, <3>2, <3>3
  <2> QED
    BY <1>6, <2>1, <2>2
<1> QED
  BY <1>2, <1>6 DEF SortedCurve, s

(* battery.rs:3-7: whatever table of rising breakpoints is handed to new,  *)
(* in whatever order, a higher voltage never reads emptier, and every      *)
(* percentage is between the curve's end points.                           *)
THEOREM BatteryNeverFalls == Spec => []BatteryMonotone
<1>1. Inputs => BatteryMonotone
  <2> SUFFICES ASSUME Inputs, Rising(curve), NEW v \in Millivolts
               PROVE  /\ v <= mv => BatteryPercent(NewCurve(curve), v) <= BatteryPercent(NewCurve(curve), mv)
                      /\ BatteryPercent(NewCurve(curve), v)
                           \in NewCurve(curve)[1][2]..NewCurve(curve)[Len(NewCurve(curve))][2]
    BY DEF BatteryMonotone
  <2> DEFINE c == NewCurve(curve)
  <2>1. v \in Int /\ mv \in Int /\ v <= v
    BY ValuesAssumption DEF Inputs
  <2>2. SortedCurve(c)
    BY CurveFacts, RisingSorted
  <2> HIDE DEF c
  <2>3. BatteryPercent(c, v) \in c[1][2]..c[Len(c)][2]
    BY <2>1, <2>2, BatteryPercentMonotone
  <2>4. v <= mv => BatteryPercent(c, v) <= BatteryPercent(c, mv)
    BY <2>1, <2>2, BatteryPercentMonotone
  <2> QED
    BY <2>3, <2>4 DEF c
<1> QED
  BY <1>1, InputsInvariant, PTL

-----------------------------------------------------------------------------
(* The squared error of a line, from the sums of the fit alone.            *)
LEMMA ErrorForm ==
  ASSUME Inputs, NEW p \in Int, NEW q \in Int
  PROVE  Error(p, q) = (q * q) * Syy(h) - (2 * p * q) * Sxy(h) + (p * p) * Sxx(h)
<1> DEFINE R == [i \in DOMAIN h |-> q * h[i].lvl - p * h[i].ts]
           RR == [i \in DOMAIN h |-> R[i] * R[i]]
<1>1. h \in History
  BY InputFacts
<1>2. RR = [i \in DOMAIN h |-> (q * h[i].lvl - p * h[i].ts) * (q * h[i].lvl - p * h[i].ts)]
  OBVIOUS
<1>3. Error(p, q) = Len(h) * SumFunction(RR) - SumFunction(R) * SumFunction(R)
  BY <1>2 DEF Error, SumOver
<1>4. IsResidual(h, p, q, R, RR)
  BY DEF IsResidual
<1> HIDE DEF R, RR
<1>5. Len(h) * SumFunction(RR) - SumFunction(R) * SumFunction(R)
        = (q * q) * Syy(h) - (2 * p * q) * Sxy(h) + (p * p) * Sxx(h)
  BY <1>1, <1>4, Residuals
<1> QED
  BY <1>3, <1>5

(* history.rs:29-31: for every history, of any length, the slope that      *)
(* days_left fits leaves a squared error no larger than its neighbours:    *)
(* it is the slope of least squares.                                       *)
THEOREM LeastSquares == Spec => []SlopeIsLeastSquares
<1>1. Inputs => SlopeIsLeastSquares
  <2> SUFFICES ASSUME Inputs, NEW d \in {-1, 1}
               PROVE  Error(Sxy(h), Sxx(h)) <= Error(Sxy(h) + d, Sxx(h))
    BY DEF SlopeIsLeastSquares
  <2> DEFINE b == Sxy(h)   a == Sxx(h)   c == Syy(h)
  <2>1. a \in Int /\ b \in Int /\ c \in Int /\ a >= 0
    BY InputFacts, FitInt, SxxNat
  <2>2. Error(b, a) = (a * a) * c - (2 * b * a) * b + (b * b) * a
    BY <2>1, ErrorForm
  <2>3. Error(b + d, a) = (a * a) * c - (2 * (b + d) * a) * b + ((b + d) * (b + d)) * a
    <3> DEFINE e == b + d
    <3>1. e \in Int
      BY <2>1
    <3> HIDE DEF e
    <3>2. Error(e, a) = (a * a) * c - (2 * e * a) * b + (e * e) * a
      BY <2>1, <3>1, ErrorForm
    <3> QED
      BY <3>2 DEF e
  <2> HIDE DEF a, b, c
  <2>4. d * d = 1
    OBVIOUS
  <2>5. /\ 2 * (b + d) * a * b = 2 * b * a * b + 2 * (d * b * a)
        /\ ((b + d) * (b + d)) * a = (b * b) * a + 2 * (d * b * a) + (d * d) * a
    BY <2>1
  <2> QED
    BY <2>1, <2>2, <2>3, <2>4, <2>5 DEF a, b
<1> QED
  BY <1>1, InputsInvariant, PTL

(* The line that falls by d per Sxx is better than the flat one exactly if *)
(* the trend falls by more than half as much.                              *)
LEMMA FallingIsBetter ==
  ASSUME Inputs, NEW d \in 1..3
  PROVE  Error(-d, Sxx(h)) < Error(0, Sxx(h)) <=> Sxx(h) > 0 /\ 2 * Sxy(h) < -d
<1> DEFINE b == Sxy(h)   a == Sxx(h)   c == Syy(h)   m == -d
<1>1. a \in Int /\ b \in Int /\ c \in Int /\ a >= 0
  BY InputFacts, FitInt, SxxNat
<1>2. m \in Int
  OBVIOUS
<1> HIDE DEF a, b, c, m
<1>3. Error(m, a) = (a * a) * c - (2 * m * a) * b + (m * m) * a
  BY <1>1, <1>2, ErrorForm DEF a, b, c
<1>4. Error(0, a) = (a * a) * c - (2 * 0 * a) * b + (0 * 0) * a
  BY <1>1, ErrorForm DEF a, b, c
<1>5. -(2 * m * a) * b + (m * m) * a = (d * a) * (2 * b + d)
  BY <1>1 DEF m
<1> DEFINE u == (a * a) * c   v == (2 * m * a) * b   w == (m * m) * a   k == d * a   e == 2 * b + d
<1>6. /\ u \in Int /\ v \in Int /\ w \in Int /\ k \in Int /\ k >= 0 /\ e \in Int
      /\ k > 0 <=> a > 0
      /\ (2 * 0 * a) * b = 0 /\ (0 * 0) * a = 0
      /\ e < 0 <=> 2 * b < -d
  BY <1>1, <1>2
<1> HIDE DEF u, v, w, k, e
<1>7. Error(m, a) = u - v + w /\ Error(0, a) = u
  BY <1>3, <1>4, <1>6 DEF u, v, w
<1>8. -v + w = k * e
  BY <1>5 DEF v, w, k, e
<1>9. k * e < 0 <=> k > 0 /\ e < 0
  BY <1>6
<1> QED
  BY <1>6, <1>7, <1>8, <1>9 DEF a, b, m

(* history.rs:33-35,82-83: days_left answers Some exactly for a history of *)
(* two readings or more, every one at a known time and not all at one, that*)
(* some falling line fits better than the flat one, whatever its length.   *)
THEOREM ProjectionIffFilling == Spec => []ProjectsIffFilling
<1>1. Inputs => ProjectsIffFilling
  <2> SUFFICES ASSUME Inputs PROVE ProjectsIffFilling
    OBVIOUS
  <2>1. /\ Sxx(h) \in Int /\ Sxy(h) \in Int /\ h \in History /\ DOMAIN h = 1..Len(h) /\ Len(h) \in Nat
        /\ \A i \in DOMAIN h : h[i].ts \in Int
    BY InputFacts, FitInt DEF History
  <2>2. (\E d \in 1..3 : Error(-d, Sxx(h)) < Error(0, Sxx(h))) <=> Sxx(h) > 0 /\ Sxy(h) < 0
    <3>1. \A d \in 1..3 : Error(-d, Sxx(h)) < Error(0, Sxx(h)) <=> Sxx(h) > 0 /\ 2 * Sxy(h) < -d
      BY FallingIsBetter
    <3>2. \A x \in Int : /\ \A d \in 1..3 : 2 * x < -d => x < 0
                       /\ x < 0 => 2 * x < -1
      OBVIOUS
    <3>3. 1 \in 1..3
      OBVIOUS
    <3> QED
      BY <2>1, <3>1, <3>2, <3>3
  <2>3. Len(h) >= 2 /\ Sxx(h) > 0 => \E i, j \in DOMAIN h : h[i].ts # h[j].ts
    <3> SUFFICES ASSUME Len(h) >= 2, \A i, j \in DOMAIN h : h[i].ts = h[j].ts
                 PROVE  Sxx(h) = 0
      BY <2>1
    <3> DEFINE t == h[1].ts
    <3>1. 1 \in DOMAIN h
      BY <2>1
    <3>2. t \in Int /\ \A i \in DOMAIN h : h[i].ts = t
      BY <2>1, <3>1
    <3> HIDE DEF t
    <3> QED
      BY <2>1, <3>2, OneInstant
  <2> QED
    BY <2>2, <2>3 DEF ProjectsIffFilling, Projects
<1> QED
  BY <1>1, InputsInvariant, PTL

(* history.rs:29-31,75-77: for every history that has a projection, the    *)
(* days it names close the distance to full at the fitted rate to within   *)
(* half a day's fill, and it is 0 at or above full.                        *)
THEOREM ProjectionIsExact == Spec => []ProjectionReachesFull
<1>1. Inputs => ProjectionReachesFull
  <2> DEFINE full == cal.full
             gap == h[Len(h)].lvl - full
             d == DaysLeft(h, full)
  <2> SUFFICES ASSUME Inputs, Projects(h)
               PROVE  IF gap <= 0 THEN d = 0
                      ELSE 2 * Abs(gap * Sxx(h) + Sxy(h) * d * DaySecs) <= -Sxy(h) * DaySecs
    BY DEF ProjectionReachesFull
  <2> DEFINE a == Sxx(h)   b == Sxy(h)   n == gap * a   r == -b * DaySecs
  <2>1. a \in Nat \ {0} /\ b \in Int /\ b < 0
    BY InputFacts, FitInt DEF Projects
  <2>2. gap \in Int
    <3>1. Len(h) \in DOMAIN h
      BY InputFacts DEF Projects, History
    <3> QED
      BY <3>1, InputFacts
  <2>3. d = IF AsInt(RoundDiv(n, r)) > 0 THEN AsInt(RoundDiv(n, r)) ELSE 0
    BY DEF DaysLeft
  <2> HIDE DEF a, b, gap, d
  <2>4. n \in Int /\ r \in Nat \ {0}
    <3>1. -b \in Nat \ {0} /\ DaySecs \in Nat \ {0}
      BY <2>1, DaySecsAssumption
    <3>2. -b * DaySecs = (-b) * DaySecs
      BY <2>1, <3>1
    <3>3. \A x, y \in Nat \ {0} : x * y \in Nat \ {0}
      OBVIOUS
    <3> QED
      BY <2>1, <2>2, <3>1, <3>2, <3>3
  <2> DEFINE q == RoundDiv(n, r)
  <2>6. q \in Int /\ d = IF q > 0 THEN q ELSE 0
    <3> HIDE DEF n, r
    <3> QED
      BY <2>3, <2>4, RoundDivInt DEF AsInt
  <2>5. b * d * DaySecs = -(r * d)
    <3>1. d \in Int
      <4> HIDE DEF q
      <4> QED
        BY <2>6
    <3>2. \A x, y, z \in Int : x * y * z = -((-x * z) * y)
      OBVIOUS
    <3>3. DaySecs \in Int
      BY DaySecsAssumption
    <3> QED
      BY <2>1, <3>1, <3>2, <3>3
  <2>7. 2 * (r * q - n) <= r /\ 2 * (n - r * q) <= r
    <3> HIDE DEF n, r
    <3> QED
      BY <2>4, RoundDivNearest
  <2>8. RoundDiv(0, r) = 0
    <3> HIDE DEF r
    <3>1. RoundDiv(0 * r, r) = 0
      BY <2>4, RoundDivExact
    <3> QED
      BY <2>4, <3>1
  <2>9. CASE gap <= 0
    <3>1. n <= 0
      BY <2>1, <2>2, <2>9
    <3>2. q <= 0
      <4> HIDE DEF n, r
      <4> QED
        BY <2>4, <2>8, <3>1, RoundDivMonotone
    <3> HIDE DEF q
    <3> QED
      BY <2>6, <2>9, <3>2
  <2>10. CASE gap > 0
    <3>1. n >= 0
      BY <2>1, <2>2, <2>10
    <3>2. 0 <= q
      <4> HIDE DEF n, r
      <4> QED
        BY <2>4, <2>8, <3>1, RoundDivMonotone
    <3>3. d = q
      <4> HIDE DEF q
      <4> QED
        BY <2>6, <3>2
    <3> DEFINE rd == r * d
    <3>4. rd \in Int /\ 2 * (rd - n) <= r /\ 2 * (n - rd) <= r
      <4> HIDE DEF q, r, n
      <4> QED
        BY <2>4, <2>6, <2>7, <3>3
    <3>5. 2 * Abs(n + (-rd)) <= r
      <4> HIDE DEF rd, r, n
      <4> QED
        BY <2>4, <3>4 DEF Abs
    <3> QED
      BY <2>2, <2>5, <2>10, <3>5 DEF a, b, gap, d
  <2> QED
    BY <2>2, <2>9, <2>10
<1> QED
  BY <1>1, InputsInvariant, PTL
-----------------------------------------------------------------------------
(* The firmware of a /log line.                                            *)
LEMMA MinFacts == ASSUME NEW S, S \subseteq Nat, S # {}
                  PROVE  Min(S) \in S /\ \A i \in S : Min(S) <= i
  BY LeastNat DEF Min

(* What the onboarding modes take for a version.                           *)
VersionLike(w) == "." \in w.has /\ ":" \notin w.has /\ w.len < 64
LineWords == Versions \cup Others

LEMMA WordFacts ==
  /\ \A v \in Versions : VersionLike(v) /\ v # Absent
  /\ \A w \in LineWords : w.len \in Nat /\ <<w>> # Absent
  /\ \A v \in Versions, w \in Others : v # w
<1>1. \A w \in LineWords : w # Absent /\ <<w>> # Absent
  BY DistinctAssumption DEF LineWords
<1>2. \A v \in Versions : "." \in v.has /\ v.has \cap {":", "{", ","} = {} /\ v.len < 64
  BY WordsAssumption
<1>3. Versions \cap Others = {} /\ \A w \in LineWords : w.len \in Nat
  BY WordsAssumption DEF LineWords
<1>4. \A v \in Versions : ":" \notin v.has
  BY <1>2
<1> QED
  BY <1>1, <1>2, <1>3, <1>4 DEF VersionLike, LineWords

(* JSON that names a version names it, and JSON that names none does not.  *)
LEMMA FromJsonFacts ==
  ASSUME NEW line
  PROVE  /\ line.json = NoJson => FromJson(line) = Absent
         /\ \A v \in Versions : line.json \in Naming(v) => FromJson(line) = <<v>>
<1> DEFINE named == {i \in DOMAIN VersionKeys : line.json[VersionKeys[i]] # Absent}
<1>1. /\ DOMAIN VersionKeys = 1..4
      /\ DOMAIN NoJson = {VersionKeys[i] : i \in 1..4}
  BY DEF VersionKeys, NoJson
<1>2. FromJson(line) = IF named = {} THEN Absent ELSE <<line.json[VersionKeys[Min(named)]]>>
  BY DEF FromJson
<1>3. \A k \in DOMAIN NoJson : NoJson[k] = Absent
  BY DEF NoJson
<1>4. ASSUME line.json = NoJson PROVE named = {}
  BY <1>1, <1>3, <1>4
<1>5. ASSUME NEW v \in Versions, line.json \in Naming(v) PROVE FromJson(line) = <<v>>
  <2>1. line.json \in [DOMAIN NoJson -> {v, Absent}] /\ line.json # NoJson
    BY <1>5 DEF Naming
  <2>2. PICK k \in DOMAIN NoJson : line.json[k] # Absent
    <3>1. NoJson \in [DOMAIN NoJson -> {v, Absent}]
      BY <1>3 DEF NoJson
    <3> QED
      BY <1>3, <2>1, <3>1
  <2>3. named # {} /\ named \subseteq Nat
    BY <1>1, <2>2
  <2>4. Min(named) \in named
    BY <2>3, MinFacts
  <2>5. line.json[VersionKeys[Min(named)]] = v
    BY <1>1, <2>1, <2>4
  <2> QED
    BY <1>2, <2>3, <2>5
<1> QED
  BY <1>2, <1>4, <1>5

LEMMA OneWord == ASSUME NEW w, w.len \in Nat PROVE TextLength(<<w>>) = w.len
<1> DEFINE f == [i \in {1} |-> w.len]
<1>1. f \in [{1} -> Int] /\ IsFiniteSet({1})
  <2>1. f \in [{1} -> Int]
    OBVIOUS
  <2> QED
    BY <2>1, FS_Singleton
<1>2. PICK g : Sums(g, f, {1}, Int) /\ SumFunction(f) = g[{1}]
  BY <1>1, SumRec
<1>3. g[{}] = 0
  BY <1>2 DEF Sums, SumStep
<1>4. Chosen({1}) = 1
  BY DEF Chosen
<1>5. g[{1}] = f[1] + g[{}]
  <2>1. {1} \in SUBSET {1} /\ {1} # {} /\ {1} \ {1} = {}
    OBVIOUS
  <2> QED
    BY <1>2, <1>4, <2>1 DEF Sums, SumStep
<1>6. SumFunction(f) = w.len
  BY <1>2, <1>3, <1>5
<1>7. [i \in DOMAIN <<w>> |-> <<w>>[i].len] = f
  OBVIOUS
<1> QED
  BY <1>6, <1>7 DEF TextLength

LEMMA EmptyText == ToSet(<<>>) = {}
<1>1. DOMAIN <<>> = {}
  OBVIOUS
<1> QED
  BY <1>1 DEF ToSet

(* The onboarding modes learn the first word like a version, if any.       *)
LEMMA FirstLearned ==
  ASSUME NEW line, FromJson(line) = Absent, line.text \in Seq(LineWords)
  PROVE  \/ /\ FirmwareFromLog(line) = Absent
            /\ \A i \in DOMAIN line.text : ~VersionLike(line.text[i])
         \/ \E i \in DOMAIN line.text :
              /\ VersionLike(line.text[i]) /\ FirmwareFromLog(line) = <<line.text[i]>>
              /\ \A k \in DOMAIN line.text : k < i => ~VersionLike(line.text[k])
<1> DEFINE likes == {i \in DOMAIN line.text : VersionLike(line.text[i])}
<1>1. DOMAIN line.text = 1..Len(line.text) /\ Len(line.text) \in Nat
  OBVIOUS
<1>2. likes \subseteq Nat
  BY <1>1
<1>3. FirmwareFromLog(line) = IF likes # {} THEN <<line.text[Min(likes)]>> ELSE Absent
  BY DEF FirmwareFromLog, VersionLike
<1>4. likes # {} => Min(likes) \in likes /\ \A i \in likes : Min(likes) <= i
  <2> HIDE DEF likes
  <2> QED
    BY <1>2, MinFacts
<1>5. \A m, k \in Nat : m <= k => ~(k < m)
  OBVIOUS
<1> QED
  BY <1>1, <1>2, <1>3, <1>4, <1>5

(* A text of one word, and one that is none.                               *)
LEMMA TextOf ==
  ASSUME NEW S, NEW t \in Seq(S), ToSet(t) # {}
  PROVE  \/ Len(t) > 1
         \/ \E w \in S : Len(t) = 1 /\ t = <<w>> /\ t[1] = w /\ DOMAIN t = {1} /\ ToSet(t) = {w}
<1>1. SUFFICES ASSUME ~(Len(t) > 1)
               PROVE  \E w \in S : Len(t) = 1 /\ t = <<w>> /\ t[1] = w /\ DOMAIN t = {1} /\ ToSet(t) = {w}
  OBVIOUS
<1>2. t # <<>>
  BY EmptyText
<1>3. Len(t) = 1
  <2>1. Len(t) \in Nat \ {0}
    BY <1>2, EmptySeq
  <2>2. \A n \in Nat \ {0} : ~(n > 1) => n = 1
    OBVIOUS
  <2> QED
    BY <1>1, <2>1, <2>2
<1>4. DOMAIN t = {1} /\ t[1] \in S
  BY <1>3
<1>5. t = <<t[1]>>
  BY <1>3, <1>4
<1>6. ToSet(t) = {t[1]}
  BY <1>4 DEF ToSet
<1> QED
  BY <1>3, <1>4, <1>5, <1>6

(* Where serve echoes what the onboarding modes do not learn.              *)
Differs(line) ==
  /\ ServeFirmware(line) = line.text /\ \E w \in ToSet(line.text) : "." \in w.has
  /\ IF Len(line.text) = 1 THEN ":" \in line.text[1].has ELSE line.sep # " "

LEMMA EchoDiffers ==
  ASSUME NEW line, FromJson(line) = Absent, line.text \in Seq(LineWords),
         ServeFirmware(line) \notin {FirmwareFromLog(line), Absent}
  PROVE  Differs(line)
<1>1. /\ ServeFirmware(line) = line.text
      /\ \E w \in ToSet(line.text) : "." \in w.has
      /\ Len(line.text) > 1 => line.sep # " "
      /\ TextLength(line.text) < 64
  BY DEF ServeFirmware
<1>2. ASSUME NEW w \in LineWords, Len(line.text) = 1, line.text = <<w>>, line.text[1] = w,
             DOMAIN line.text = {1}, ToSet(line.text) = {w}
      PROVE  ":" \in line.text[1].has
  <2>1. "." \in w.has
    BY <1>1, <1>2
  <2>2. w.len < 64
    BY <1>1, <1>2, OneWord, WordFacts
  <2> SUFFICES ASSUME ":" \notin w.has PROVE FALSE
    BY <1>2
  <2>3. VersionLike(line.text[1])
    BY <1>2, <2>1, <2>2 DEF VersionLike
  <2>4. FirmwareFromLog(line) = <<w>>
    BY <1>2, <2>3, FirstLearned
  <2> QED
    BY <1>1, <1>2, <2>4
<1>3. Len(line.text) > 1 => Len(line.text) # 1
  <2>1. \A n : n = 1 => ~(n > 1)
    OBVIOUS
  <2> QED
    BY <2>1, Zenon
<1>4. \/ Len(line.text) > 1
      \/ \E w \in LineWords : /\ Len(line.text) = 1 /\ line.text = <<w>> /\ line.text[1] = w
                               /\ DOMAIN line.text = {1} /\ ToSet(line.text) = {w}
  BY <1>1, TextOf
<1> QED
  BY <1>1, <1>2, <1>3, <1>4 DEF Differs

LEMMA TextsAreSequences == OtherTexts \subseteq Seq(Others)
<1>1. \A m \in Nat : [1..m -> Others] \subseteq Seq(Others)
  OBVIOUS
<1>2. MaxWords \in Nat
  BY WordsAssumption, Zenon
<1> QED
  BY <1>1, <1>2 DEF OtherTexts, SeqOf

(* What a line means is learned of it unless another word like a version   *)
(* comes first.                                                            *)
Learns(line) ==
  FirmwareFromLog(line) = line.names
    <=> \A i \in DOMAIN line.text : i < line.at => ~VersionLike(line.text[i])

LEMMA PlainLearns ==
  ASSUME NEW t \in Seq(Others), NEW sep, NEW line, line = Plain(t, sep)
  PROVE  Learns(line) /\ FromJson(line) = Absent /\ line.text \in Seq(LineWords)
<1>1. line.json = NoJson /\ line.text = t /\ line.names = Absent /\ line.at = Len(t) + 1
  BY DEF Plain, Line
<1>2. FromJson(line) = Absent
  BY <1>1, FromJsonFacts
<1>3. t \in Seq(LineWords) /\ Len(t) \in Nat /\ DOMAIN t = 1..Len(t)
  BY DEF LineWords
<1>4. \A i \in DOMAIN t : i < line.at /\ t[i] \in LineWords
  BY <1>1, <1>3
<1>5. \A i \in DOMAIN t : <<t[i]>> # Absent
  BY <1>4, WordFacts
<1>6. Learns(line)
  BY <1>1, <1>2, <1>3, <1>4, <1>5, FirstLearned DEF Learns
<1> QED
  BY <1>1, <1>2, <1>3, <1>6

LEMMA AroundLearns ==
  ASSUME NEW v \in Versions, NEW before \in Seq(Others), NEW after \in Seq(Others), NEW sep,
         NEW line, line = Around(v, before, after, sep)
  PROVE  Learns(line) /\ FromJson(line) = Absent /\ line.text \in Seq(LineWords)
<1> DEFINE t == before \o <<v>> \o after
           n == Len(before) + 1
<1>1. line.json = NoJson /\ line.text = t /\ line.names = <<v>> /\ line.at = n
  BY DEF Around, Line
<1>2. before \in Seq(LineWords) /\ after \in Seq(LineWords) /\ <<v>> \in Seq(LineWords)
  BY DEF LineWords
<1>3. /\ t \in Seq(LineWords) /\ n \in DOMAIN t /\ t[n] = v /\ DOMAIN t \subseteq Nat /\ n \in Nat
      /\ \A i \in DOMAIN t : i < n => t[i] \in Others
  <2>1. /\ Len(before) \in Nat /\ Len(after) \in Nat
        /\ Len(t) = Len(before) + 1 + Len(after) /\ DOMAIN t = 1..Len(t)
        /\ \A i \in 1..Len(before) : t[i] = before[i] /\ before[i] \in Others
        /\ t[Len(before) + 1] = v
    BY <1>2
  <2>2. t \in Seq(LineWords)
    BY <1>2
  <2> HIDE DEF t
  <2> QED
    BY <2>1, <2>2
<1> HIDE DEF t, n
<1>4. FromJson(line) = Absent
  BY <1>1, FromJsonFacts
<1>5. VersionLike(t[n])
  BY <1>3, WordFacts
<1>6. PICK i \in DOMAIN t : /\ VersionLike(t[i]) /\ FirmwareFromLog(line) = <<t[i]>>
                            /\ \A k \in DOMAIN t : k < i => ~VersionLike(t[k])
  BY <1>1, <1>3, <1>4, <1>5, FirstLearned
<1>7. i < n \/ i = n
  <2>1. i \in Nat /\ n \in Nat /\ ~(n < i)
    BY <1>3, <1>5, <1>6
  <2> QED
    BY <2>1
<1>8. ASSUME i = n PROVE Learns(line)
  BY <1>1, <1>3, <1>6, <1>8 DEF Learns
<1>9. ASSUME i < n PROVE Learns(line)
  <2>1. t[i] # v
    BY <1>3, <1>9, WordFacts
  <2>2. <<t[i]>> # <<v>>
    <3>1. \A x, y : <<x>> = <<y>> => x = y
      OBVIOUS
    <3> QED
      BY <2>1, <3>1
  <2> QED
    BY <1>1, <1>6, <1>9, <2>2 DEF Learns
<1> QED
  BY <1>1, <1>3, <1>4, <1>7, <1>8, <1>9

LEMMA JsonLearns ==
  ASSUME NEW v \in Versions, NEW json \in Naming(v), NEW t \in Seq(LineWords),
         NEW line, line = Named(v, json, t)
  PROVE  Learns(line) /\ ServeFirmware(line) = FirmwareFromLog(line)
<1>1. line.json = json /\ line.names = <<v>> /\ line.text = t /\ line.at = 1
  BY DEF Named, Line
<1>2. FromJson(line) = <<v>> /\ <<v>> # Absent
  BY <1>1, FromJsonFacts, WordFacts DEF LineWords
<1>3. \A i \in DOMAIN t : ~(i < 1)
  OBVIOUS
<1> QED
  BY <1>1, <1>2, <1>3 DEF Learns, FirmwareFromLog, ServeFirmware

LEMMA JsonTexts ==
  ASSUME NEW v, NEW line \in JsonLines(v)
  PROVE  \E json \in Naming(v) : \E t \in Seq(LineWords) : line = Named(v, json, t)
<1>1. AllTexts \subseteq Seq(LineWords)
  <2>1. \A m \in Nat : [1..m -> LineWords] \subseteq Seq(LineWords)
    OBVIOUS
  <2>2. MaxWords \in Nat
    BY WordsAssumption, Zenon
  <2> QED
    BY <2>1, <2>2 DEF AllTexts, SeqOf, LineWords
<1>2. \E json \in Naming(v) : \E t \in AllTexts : line = Named(v, json, t)
  BY DEF JsonLines
<1> QED
  BY <1>1, <1>2, Zenon

(* server.rs:284-285, onboard.rs:228-231: for every vocabulary, every text *)
(* around a version and every JSON that names one, the onboarding modes    *)
(* learn the version unless another word like one comes first, and serve   *)
(* echoes what they learn or nothing, except a single word with a dot and  *)
(* a colon or words that no space sets apart.                              *)
THEOREM EchoIsLearned == Spec => []EchoesWhatIsLearned
<1>1. Inputs => EchoesWhatIsLearned
  <2> SUFFICES ASSUME Inputs PROVE EchoesWhatIsLearned
    OBVIOUS
  <2> DEFINE Good(line) == Learns(line) /\ (ServeFirmware(line) \notin {FirmwareFromLog(line), Absent} => Differs(line))
  <2>1. ASSUME NEW t \in OtherTexts, NEW sep, log = Plain(t, sep) PROVE Good(log)
    BY <2>1, TextsAreSequences, PlainLearns, EchoDiffers
  <2>2. ASSUME NEW v \in Versions, NEW before \in OtherTexts, NEW after \in OtherTexts, NEW sep,
               log = Around(v, before, after, sep)
        PROVE  Good(log)
    BY <2>2, TextsAreSequences, AroundLearns, EchoDiffers
  <2>3. ASSUME NEW v \in Versions, NEW json \in Naming(v), NEW t \in Seq(LineWords),
               log = Named(v, json, t)
        PROVE  Good(log)
    BY <2>3, JsonLearns
  <2>4. Good(log)
    <3>1. \/ \E t \in OtherTexts : \E sep : log = Plain(t, sep)
          \/ \E v \in Versions : \E before, after \in OtherTexts : \E sep :
                log = Around(v, before, after, sep)
          \/ \E v \in Versions : \E json \in Naming(v) : \E t \in Seq(LineWords) :
                log = Named(v, json, t)
      <4>1. log \in Lines
        BY DEF Inputs
      <4>2. log \in PlainLines => \E t \in OtherTexts : \E sep : log = Plain(t, sep)
        BY DEF PlainLines
      <4>3. log \in VersionLines => \E v \in Versions : \E before, after \in OtherTexts : \E sep :
                                       log = Around(v, before, after, sep)
        BY DEF VersionLines
      <4>4. ASSUME NEW v, log \in JsonLines(v)
            PROVE  \E json \in Naming(v) : \E t \in Seq(LineWords) : log = Named(v, json, t)
        BY <4>4, JsonTexts
      <4>5. log \in PlainLines \/ log \in VersionLines \/ \E v \in Versions : log \in JsonLines(v)
        BY <4>1 DEF Lines
      <4> QED
        BY <4>2, <4>3, <4>4, <4>5
    <3> HIDE DEF Good
    <3> QED
      BY <2>1, <2>2, <2>3, <3>1
  <2> QED
    BY <2>4 DEF EchoesWhatIsLearned, Learns, Differs, VersionLike
<1> QED
  BY <1>1, InputsInvariant, PTL

-----------------------------------------------------------------------------
(* RawFrame::parse.  What is left of a raw string is its segments, in      *)
(* order, without the empty ones: q[k] is where the k-th of them stands.   *)
Keeps(raw, n, c, q) ==
  /\ DOMAIN raw = 1..n
  /\ q \in [1..c -> 1..n]
  /\ \A k, l \in 1..c : k < l => q[k] < q[l]
  /\ \A i \in 1..n : raw[i] # Empty <=> \E k \in 1..c : q[k] = i

LEMMA PartsOf ==
  ASSUME NEW raw, NEW n \in Nat, NEW c \in Nat, NEW q, Keeps(raw, n, c, q)
  PROVE  Parts(raw) = [k \in 1..c |-> raw[q[k]]]
<1> USE DEF Keeps
<1> DEFINE kept == {i \in DOMAIN raw : raw[i] # Empty}
           Upto(i) == {j \in kept : j <= i}
<1>1. kept = {q[k] : k \in 1..c} /\ \A k \in 1..c : q[k] \in kept /\ q[k] \in Nat
  OBVIOUS
<1>2. \A k, l \in 1..c : q[k] = q[l] => k = l
  <2>1. \A k, l \in 1..c : k = l \/ k < l \/ l < k
    OBVIOUS
  <2>2. \A k \in 1..c : ~(q[k] < q[k])
    BY <1>1
  <2> QED
    BY <2>1, <2>2
<1>3. \A k, l \in 1..c : q[l] <= q[k] <=> l <= k
  <2> SUFFICES ASSUME NEW k \in 1..c, NEW l \in 1..c PROVE q[l] <= q[k] <=> l <= k
    OBVIOUS
  <2>1. /\ q[k] \in Nat /\ q[l] \in Nat /\ k \in Nat /\ l \in Nat
        /\ k < l => q[k] < q[l]
        /\ l < k => q[l] < q[k]
    BY <1>1
  <2>2. k = l => q[k] = q[l]
    OBVIOUS
  <2> QED
    BY <2>1, <2>2
<1> HIDE DEF kept
<1>4. Cardinality(kept) = c
  <2>1. q \in Bijection(1..c, kept)
    BY <1>1, <1>2 DEF Bijection, Injection, IsInjective, Surjection
  <2> QED
    BY <2>1, FS_CountingElements DEF ExistsBijection
<1>5. ASSUME NEW k \in 1..c PROVE Cardinality(Upto(q[k])) = k
  <2> DEFINE g == [l \in 1..k |-> q[l]]
  <2>1. 1..k \subseteq 1..c /\ k \in Nat
    OBVIOUS
  <2>2. Upto(q[k]) = {q[l] : l \in 1..k}
    <3>1. \A l \in 1..c : l <= k <=> l \in 1..k
      OBVIOUS
    <3>2. \A j : j \in Upto(q[k]) <=> \E l \in 1..c : j = q[l] /\ q[l] <= q[k]
      BY <1>1
    <3> HIDE DEF Upto
    <3> QED
      BY <1>3, <2>1, <3>1, <3>2
  <2> HIDE DEF Upto
  <2>3. g \in Bijection(1..k, Upto(q[k]))
    BY <1>2, <2>1, <2>2 DEF Bijection, Injection, IsInjective, Surjection
  <2> QED
    BY <2>1, <2>3, FS_CountingElements DEF ExistsBijection
<1>6. ASSUME NEW k \in 1..c PROVE Nth(kept, k) = q[k]
  <2>1. q[k] \in kept /\ Cardinality(Upto(q[k])) = k
    BY <1>1, <1>5
  <2>2. ASSUME NEW i \in kept, Cardinality(Upto(i)) = k PROVE i = q[k]
    <3>1. PICK l \in 1..c : i = q[l]
      BY <1>1
    <3> HIDE DEF Upto
    <3> QED
      BY <1>5, <2>2, <3>1
  <2>3. Nth(kept, k) \in kept /\ Cardinality(Upto(Nth(kept, k))) = k
    BY <2>1 DEF Nth
  <2> QED
    BY <2>2, <2>3
<1>7. Parts(raw) = [k \in 1..Cardinality(kept) |-> raw[Nth(kept, k)]]
  BY DEF Parts, kept
<1> QED
  BY <1>4, <1>6, <1>7

(* In particular, empty segments before and after are dropped.             *)
Framed(raw, n, e, c) ==
  /\ n \in Nat /\ e \in Nat /\ c \in Nat /\ e + c <= n
  /\ DOMAIN raw = 1..n
  /\ \A i \in 1..n : raw[i] # Empty <=> (e < i /\ i <= e + c)

LEMMA PartsBetween ==
  ASSUME NEW raw, NEW n, NEW e, NEW c, Framed(raw, n, e, c)
  PROVE  Parts(raw) = [k \in 1..c |-> raw[e + k]]
<1> DEFINE q == [k \in 1..c |-> e + k]
<1> USE DEF Framed
<1>1. q \in [1..c -> 1..n] /\ \A k, l \in 1..c : k < l => q[k] < q[l]
  OBVIOUS
<1>2. ASSUME NEW i \in 1..n PROVE raw[i] # Empty <=> \E k \in 1..c : q[k] = i
  <2>1. ASSUME e < i, i <= e + c PROVE i - e \in 1..c /\ q[i - e] = i
    BY <2>1
  <2>2. ASSUME NEW k \in 1..c, q[k] = i PROVE e < i /\ i <= e + c
    BY <2>2
  <2> QED
    BY <2>1, <2>2
<1>3. \A k \in 1..c : q[k] = e + k
  OBVIOUS
<1> HIDE DEF q
<1>4. Parts(raw) = [k \in 1..c |-> raw[q[k]]]
  <2>1. Keeps(raw, n, c, q)
    BY <1>1, <1>2 DEF Keeps
  <2> QED
    BY <2>1, PartsOf
<1> QED
  BY <1>3, <1>4

(* What is no value, and what is.                                          *)
LEMMA NoValues ==
  /\ Absent # Malformed
  /\ \A x \in Int : x # Absent /\ x # Malformed
  /\ \A x \in Texts : x # Absent /\ x # Malformed
  /\ \A x \in Frames : x # Absent /\ x # Malformed
  /\ \A x \in Readings : x # Malformed
  BY DistinctAssumption, Zenon

LEMMA TextFacts ==
  /\ \A n \in Int : Number(n) \in Texts \ {Empty} /\ ParseInt(Number(n)) = n
  /\ \A w \in STRING : Word(w) \in Texts \ {Empty} /\ ParseInt(Word(w)) = Malformed
  /\ Empty \in Texts /\ ParseInt(Empty) = Malformed
<1>1. \A n \in Int : Number(n) \in Texts \ {Empty} /\ ParseInt(Number(n)) = n
  BY DEF Number, Texts, Empty, ParseInt
<1>2. \A w \in STRING : Word(w) \in Texts \ {Empty} /\ ParseInt(Word(w)) = Malformed
  BY DEF Word, Texts, Empty, ParseInt
<1>3. Empty \in Texts /\ ParseInt(Empty) = Malformed
  BY DEF Texts, Empty, ParseInt
<1> QED
  BY <1>1, <1>2, <1>3

LEMMA GarbageFacts == \A g \in Garbage : g \in Texts \ {Empty} /\ ParseInt(g) = Malformed
  BY GarbageAssumption DEF ParseInt

LEMMA MeasurementFacts ==
  ASSUME NEW m \in Measurements
  PROVE  /\ m.version \in Texts \ {Empty} /\ m.sensor \in Texts \ {Empty}
         /\ m.mm \in Int /\ m.battery \in Int /\ m.amp1 \in Int
         /\ m.temp \in Int /\ m.read_no \in Int /\ m.last_sent \in Int
  BY MeasurementsAssumption

LEMMA SegmentFacts ==
  ASSUME NEW m \in Measurements
  PROVE  /\ Segments(m) \in Seq(Texts \ {Empty}) /\ Len(Segments(m)) = 8
         /\ Segments(m)[1] = m.version /\ Segments(m)[2] = m.sensor
         /\ Segments(m)[3] = Number(m.mm) /\ Segments(m)[4] = Number(m.battery)
         /\ Segments(m)[5] = Number(m.amp1) /\ Segments(m)[6] = Number(m.temp)
         /\ Segments(m)[7] = Number(m.read_no) /\ Segments(m)[8] = Number(m.last_sent)
<1> DEFINE T == Texts \ {Empty}
<1>1. /\ m.version \in T /\ m.sensor \in T
      /\ Number(m.mm) \in T /\ Number(m.battery) \in T /\ Number(m.amp1) \in T
      /\ Number(m.temp) \in T /\ Number(m.read_no) \in T /\ Number(m.last_sent) \in T
  BY MeasurementFacts, TextFacts
<1> HIDE DEF T
<1>2. Segments(m) \in Seq(T)
  BY <1>1 DEF Segments
<1> QED
  BY <1>2 DEF Segments, T

(* A raw string of the segments s, with or without an empty one before and *)
(* after.                                                                  *)
LEMMA FramedParts ==
  ASSUME NEW s \in Seq(Texts \ {Empty}),
         NEW raw \in {s, <<Empty>> \o s, <<Empty>> \o s \o <<Empty>>}
  PROVE  Parts(raw) = s
<1> DEFINE T == Texts \ {Empty}   c == Len(s)
<1>1. /\ s \in Seq(Texts) /\ <<Empty>> \in Seq(Texts) /\ c \in Nat
      /\ \A i \in 1..c : s[i] # Empty
  <2>1. T \subseteq Texts /\ \A x \in T : x # Empty
    OBVIOUS
  <2>2. s \in Seq(T)
    OBVIOUS
  <2>3. Empty \in Texts
    BY TextFacts
  <2> HIDE DEF T
  <2> QED
    BY <2>1, <2>2, <2>3
<1>2. s = [k \in 1..c |-> s[k]]
  BY <1>1
<1>3. CASE raw = s
  <2>1. DOMAIN raw = 1..c /\ \A i \in 1..c : raw[i] # Empty <=> (0 < i /\ i <= 0 + c)
    BY <1>1, <1>3
  <2>2. Framed(raw, c, 0, c)
    BY <1>1, <2>1 DEF Framed
  <2>3. Parts(raw) = [k \in 1..c |-> raw[0 + k]]
    <3> HIDE DEF c
    <3> QED
      BY <2>2, PartsBetween
  <2> QED
    BY <1>2, <1>3, <2>3
<1>4. CASE raw = <<Empty>> \o s
  <2>1. /\ DOMAIN raw = 1..c + 1 /\ raw[1] = Empty
        /\ \A k \in 1..c : raw[1 + k] = s[k]
    BY <1>1, <1>4
  <2>2. \A i \in 1..c + 1 : raw[i] # Empty <=> (1 < i /\ i <= 1 + c)
    <3> SUFFICES ASSUME NEW i \in 1..c + 1, i # 1 PROVE raw[i] # Empty /\ 1 < i /\ i <= 1 + c
      BY <2>1
    <3>1. i - 1 \in 1..c /\ 1 + (i - 1) = i
      BY <1>1
    <3> QED
      BY <1>1, <2>1, <3>1
  <2>3. Parts(raw) = [k \in 1..c |-> raw[1 + k]]
    <3>1. Framed(raw, c + 1, 1, c)
      BY <1>1, <2>1, <2>2 DEF Framed
    <3> HIDE DEF c
    <3> QED
      BY <3>1, PartsBetween
  <2> QED
    BY <1>2, <2>1, <2>3
<1>5. CASE raw = <<Empty>> \o s \o <<Empty>>
  <2>1. /\ DOMAIN raw = 1..c + 2 /\ raw[1] = Empty /\ raw[c + 2] = Empty
        /\ \A k \in 1..c : raw[1 + k] = s[k]
    BY <1>1, <1>5
  <2>2. \A i \in 1..c + 2 : raw[i] # Empty <=> (1 < i /\ i <= 1 + c)
    <3> SUFFICES ASSUME NEW i \in 1..c + 2, i # 1, i # c + 2
                 PROVE  raw[i] # Empty /\ 1 < i /\ i <= 1 + c
      BY <1>1, <2>1
    <3>1. i - 1 \in 1..c /\ 1 + (i - 1) = i
      BY <1>1
    <3> QED
      BY <1>1, <2>1, <3>1
  <2>3. Parts(raw) = [k \in 1..c |-> raw[1 + k]]
    <3>1. Framed(raw, c + 2, 1, c)
      BY <1>1, <2>1, <2>2 DEF Framed
    <3> HIDE DEF c
    <3> QED
      BY <3>1, PartsBetween
  <2> QED
    BY <1>2, <2>1, <2>3
<1> QED
  BY <1>3, <1>4, <1>5

(* A frame that carries the measurement.                                   *)
Carries(f, m) ==
  /\ f \in Frames
  /\ f.version = m.version /\ f.sensor = m.sensor
  /\ f.level_mm = m.mm /\ f.battery_mv = m.battery /\ f.amp = m.amp1
  /\ f.temp = m.temp /\ f.read_no = m.read_no /\ f.last_sent = m.last_sent

Joined(p, s, t) == p = s \o t
AsJoined(p, s, t) ==
  /\ Len(p) = 8 + Len(t)
  /\ \A i \in 1..8 : p[i] = s[i]
  /\ \A i \in 1..Len(t) : p[i + 8] = t[i]

LEMMA AfterEight ==
  ASSUME NEW s \in Seq(Texts), NEW t \in Seq(Texts), Len(s) = 8, NEW p, Joined(p, s, t)
  PROVE  AsJoined(p, s, t)
<1>1. /\ Len(s \o t) = Len(s) + Len(t)
      /\ \A i \in 1..Len(s) + Len(t) : (s \o t)[i] = IF i <= Len(s) THEN s[i] ELSE t[i - Len(s)]
  BY ConcatProperties
<1>2. Len(t) \in Nat
  OBVIOUS
<1> DEFINE n == Len(t)
<1> HIDE DEF n
<1>3. Len(p) = 8 + n /\ \A i \in 1..8 + n : p[i] = IF i <= 8 THEN s[i] ELSE t[i - 8]
  BY <1>1 DEF n, Joined
<1>4. \A i \in 1..8 : i \in 1..8 + n /\ i <= 8
  BY <1>2 DEF n
<1>5. \A i \in 1..n : i + 8 \in 1..8 + n /\ ~(i + 8 <= 8) /\ (i + 8) - 8 = i
  BY <1>2 DEF n
<1> QED
  BY <1>3, <1>4, <1>5 DEF n, AsJoined

(* reading.rs:80-113: a raw string whose segments are those of a           *)
(* measurement, followed by any number of integers, decodes to it.         *)
THEOREM RawCarriesTheMeasurement ==
  ASSUME NEW m \in Measurements, NEW rest \in Seq(Int), NEW raw,
         Parts(raw) = Segments(m) \o [i \in 1..Len(rest) |-> Number(rest[i])]
  PROVE  Carries(RawFrame(raw), m) /\ RawFrame(raw).rest = rest
<1> DEFINE n == Len(rest)   extra == [i \in 1..n |-> Number(rest[i])]   p == Parts(raw)
           num == [i \in 3..Len(p) |-> ParseInt(p[i])]
<1>1. n \in Nat /\ \A i \in 1..n : rest[i] \in Int
  OBVIOUS
<1>2. extra \in Seq(Texts) /\ Len(extra) = n
  <2>1. \A i \in 1..n : Number(rest[i]) \in Texts
    BY <1>1, TextFacts
  <2> QED
    BY <1>1, <2>1
<1>3. Segments(m) \in Seq(Texts) /\ Len(Segments(m)) = 8
  <2> DEFINE T == Texts \ {Empty}
  <2>1. T \subseteq Texts /\ Segments(m) \in Seq(T) /\ Len(Segments(m)) = 8
    BY SegmentFacts
  <2> HIDE DEF T
  <2> QED
    BY <2>1
<1>4. \A i \in 1..n : extra[i] = Number(rest[i])
  OBVIOUS
<1>5. p = Segments(m) \o extra
  OBVIOUS
<1> HIDE DEF extra, p, n
<1>6. /\ Len(p) = 8 + n /\ \A i \in 1..8 : p[i] = Segments(m)[i]
      /\ \A i \in 1..n : p[i + 8] = Number(rest[i])
  <2>1. AsJoined(p, Segments(m), extra)
    <3>1. extra \in Seq(Texts)
      BY <1>2
    <3>2. Segments(m) \in Seq(Texts)
      BY <1>3
    <3>3. Len(Segments(m)) = 8
      BY <1>3
    <3>4. Joined(p, Segments(m), extra)
      BY <1>5 DEF Joined
    <3> QED
      BY <3>1, <3>2, <3>3, <3>4, AfterEight
  <2> QED
    BY <1>2, <1>4, <2>1 DEF AsJoined
<1>7. \A i \in 3..8 + n : i \in 3..8 \/ (i - 8 \in 1..n /\ (i - 8) + 8 = i)
  BY <1>1
<1>8. /\ p[1] = m.version /\ p[2] = m.sensor
      /\ p[3] = Number(m.mm) /\ p[4] = Number(m.battery) /\ p[5] = Number(m.amp1)
      /\ p[6] = Number(m.temp) /\ p[7] = Number(m.read_no) /\ p[8] = Number(m.last_sent)
  BY <1>6, SegmentFacts
<1>9. /\ num[3] = m.mm /\ num[4] = m.battery /\ num[5] = m.amp1
      /\ num[6] = m.temp /\ num[7] = m.read_no /\ num[8] = m.last_sent
      /\ \A i \in 1..n : num[i + 8] = rest[i]
  <2>1. \A i \in 3..8 + n : num[i] = ParseInt(p[i])
    BY <1>6
  <2>2. 3 \in 3..8 + n /\ 4 \in 3..8 + n /\ 5 \in 3..8 + n
        /\ 6 \in 3..8 + n /\ 7 \in 3..8 + n /\ 8 \in 3..8 + n
        /\ \A i \in 1..n : i + 8 \in 3..8 + n
    BY <1>1
  <2>3. \A i \in 1..n : ParseInt(p[i + 8]) = rest[i]
    BY <1>1, <1>6, TextFacts
  <2> HIDE DEF num
  <2>4. /\ num[3] = ParseInt(p[3]) /\ num[4] = ParseInt(p[4]) /\ num[5] = ParseInt(p[5])
        /\ num[6] = ParseInt(p[6]) /\ num[7] = ParseInt(p[7]) /\ num[8] = ParseInt(p[8])
    BY <2>1, <2>2
  <2>5. \A i \in 1..n : num[i + 8] = rest[i]
    BY <2>1, <2>2, <2>3
  <2>6. /\ ParseInt(Number(m.mm)) = m.mm /\ ParseInt(Number(m.battery)) = m.battery
        /\ ParseInt(Number(m.amp1)) = m.amp1 /\ ParseInt(Number(m.temp)) = m.temp
        /\ ParseInt(Number(m.read_no)) = m.read_no /\ ParseInt(Number(m.last_sent)) = m.last_sent
    BY MeasurementFacts, TextFacts
  <2> QED
    BY <1>8, <2>4, <2>5, <2>6
<1>10. \A i \in 3..8 + n : num[i] \in Int
  <2>1. \A i \in 3..8 : num[i] \in Int
    <3>1. \A i \in 3..8 : i = 3 \/ i = 4 \/ i = 5 \/ i = 6 \/ i = 7 \/ i = 8
      OBVIOUS
    <3> HIDE DEF num
    <3> QED
      BY <1>9, <3>1, MeasurementFacts
  <2> HIDE DEF num
  <2> QED
    BY <1>1, <1>7, <1>9, <2>1
<1> HIDE DEF num
<1>11. ~(Len(p) < 8 \/ \E i \in 3..Len(p) : num[i] = Malformed)
  BY <1>1, <1>6, <1>10, NoValues
<1>12. RawFrame(raw) = [version |-> p[1], sensor |-> p[2], level_mm |-> num[3], battery_mv |-> num[4],
                        amp |-> num[5], temp |-> num[6], read_no |-> num[7], last_sent |-> num[8],
                        rest |-> [i \in 1..Len(p) - 8 |-> num[i + 8]]]
  BY <1>11 DEF RawFrame, num, p
<1>13. [i \in 1..Len(p) - 8 |-> num[i + 8]] = rest
  <2>1. Len(p) - 8 = n /\ rest = [i \in 1..n |-> rest[i]]
    BY <1>1, <1>6 DEF n
  <2> QED
    BY <1>9, <2>1
<1> DEFINE f == [version |-> m.version, sensor |-> m.sensor, level_mm |-> m.mm, battery_mv |-> m.battery,
                 amp |-> m.amp1, temp |-> m.temp, read_no |-> m.read_no, last_sent |-> m.last_sent,
                 rest |-> rest]
<1>14. RawFrame(raw) = f
  BY <1>8, <1>9, <1>12, <1>13
<1>15. f \in Frames
  BY MeasurementFacts DEF Frames
<1>16. Carries(f, m) /\ f.rest = rest
  BY <1>15 DEF Carries
<1> QED
  BY <1>14, <1>16

LEMMA NoRest == [i \in 1..Len(<<>>) |-> Number(<<>>[i])] = <<>> /\ <<>> \in Seq(Int)
<1>1. Len(<<>>) = 0 /\ <<>> \in Seq(Int) /\ 1..0 = {}
  OBVIOUS
<1>2. [i \in 1..Len(<<>>) |-> Number(<<>>[i])] = [i \in 1..0 |-> Number(<<>>[i])]
  BY <1>1
<1> DEFINE g == [i \in 1..0 |-> Number(<<>>[i])]
<1>3. g = <<>>
  BY <1>1
<1> QED
  BY <1>1, <1>2, <1>3

LEMMA WholeDecodes ==
  ASSUME NEW m \in Measurements, NEW raw \in WholeRaws(m)
  PROVE  Carries(RawFrame(raw), m)
<1> DEFINE s == Segments(m)   T == Texts \ {Empty}   two == <<Number(1), Number(2)>>
<1>1. s \in Seq(T) /\ Empty \in Texts /\ two \in Seq(T)
  BY SegmentFacts, TextFacts
<1>2. CASE raw \in {s, <<Empty>> \o s, <<Empty>> \o s \o <<Empty>>}
  <2>1. Parts(raw) = s
    BY <1>1, <1>2, FramedParts
  <2>2. s \o <<>> = s
    <3> HIDE DEF s, T
    <3> QED
      BY <1>1, ConcatEmptySeq
  <2> DEFINE rest == <<>>
  <2>3. rest \in Seq(Int) /\ Parts(raw) = s \o [i \in 1..Len(rest) |-> Number(rest[i])]
    <3> HIDE DEF s, T
    <3> QED
      BY <2>1, <2>2, NoRest
  <2> HIDE DEF rest
  <2> QED
    BY <2>3, RawCarriesTheMeasurement
<1>3. CASE raw = <<Empty>> \o s \o two
  <2>1. raw = <<Empty>> \o (s \o two) /\ s \o two \in Seq(T)
    <3> HIDE DEF s, two
    <3>1. s \in Seq(Texts) /\ two \in Seq(Texts) /\ <<Empty>> \in Seq(Texts)
      <4>1. T \subseteq Texts
        OBVIOUS
      <4> HIDE DEF T
      <4> QED
        BY <1>1, <4>1
    <3> HIDE DEF T
    <3> QED
      BY <1>1, <1>3, <3>1, ConcatAssociative
  <2>2. Parts(raw) = s \o two
    <3> HIDE DEF s, two
    <3> QED
      BY <2>1, FramedParts
  <2> DEFINE rest == <<1, 2>>
  <2>3. two = [i \in 1..Len(rest) |-> Number(rest[i])] /\ rest \in Seq(Int)
    OBVIOUS
  <2> HIDE DEF rest, two
  <2> QED
    BY <2>2, <2>3, RawCarriesTheMeasurement
<1> QED
  BY <1>2, <1>3 DEF WholeRaws

(* What is cut, or has a field that is no integer, is refused.             *)
Enclosed(u, a, s, b) == u = <<a>> \o s \o <<b>>
AsEnclosed(u, a, s, b) ==
  /\ DOMAIN u = 1..10 /\ u[1] = a /\ u[10] = b
  /\ \A k \in 1..8 : u[1 + k] = s[k]

LEMMA EnclosedFacts ==
  ASSUME NEW S, NEW s \in Seq(S), Len(s) = 8, NEW a \in S, NEW b \in S, NEW u, Enclosed(u, a, s, b)
  PROVE  AsEnclosed(u, a, s, b)
<1> DEFINE A == <<a>>   B == <<b>>   t == A \o s   v == t \o B
<1>1. /\ A \in Seq(S) /\ Len(A) = 1 /\ A[1] = a
      /\ B \in Seq(S) /\ Len(B) = 1 /\ B[1] = b
  OBVIOUS
<1> HIDE DEF A, B
<1>2. /\ t \in Seq(S) /\ Len(t) = Len(A) + Len(s)
      /\ \A i \in 1..Len(A) + Len(s) : t[i] = IF i <= Len(A) THEN A[i] ELSE s[i - Len(A)]
  BY <1>1, ConcatProperties
<1> HIDE DEF t
<1>3. Len(t) = 9 /\ t[1] = a /\ \A k \in 1..8 : t[1 + k] = s[k]
  <2>1. 1 \in 1..9 /\ \A k \in 1..8 : 1 + k \in 1..9 /\ ~(1 + k <= 1) /\ (1 + k) - 1 = k
    OBVIOUS
  <2>2. \A i \in 1..9 : t[i] = IF i <= 1 THEN A[i] ELSE s[i - 1]
    BY <1>1, <1>2
  <2> QED
    BY <1>1, <1>2, <2>1, <2>2
<1>4. /\ v \in Seq(S) /\ Len(v) = Len(t) + Len(B)
      /\ \A i \in 1..Len(t) + Len(B) : v[i] = IF i <= Len(t) THEN t[i] ELSE B[i - Len(t)]
  <2>1. t \in Seq(S) /\ B \in Seq(S)
    BY <1>1, <1>2
  <2> QED
    BY <2>1, ConcatProperties
<1> HIDE DEF v
<1>5. u = v
  BY DEF Enclosed, A, B, t, v
<1>6. DOMAIN v = 1..10 /\ \A i \in 1..10 : v[i] = IF i <= 9 THEN t[i] ELSE B[i - 9]
  BY <1>1, <1>3, <1>4
<1>7. 1 \in 1..10 /\ 10 \in 1..10 /\ \A k \in 1..8 : 1 + k \in 1..10 /\ 1 + k <= 9
  OBVIOUS
<1> QED
  BY <1>1, <1>3, <1>5, <1>6, <1>7 DEF AsEnclosed

LEMMA NoneIsEmpty ==
  ASSUME NEW T, NEW s \in Seq(T), NEW e, e \notin T, NEW k \in 1..Len(s)
  PROVE  s[k] # e
  BY ElementOfSeq

LEMMA PrefixOf ==
  ASSUME NEW T, NEW s \in Seq(T), NEW n \in 0..Len(s)
  PROVE  SubSeq(s, 1, n) \in Seq(T) /\ Len(SubSeq(s, 1, n)) = n
<1>1. \A i \in 1..n : i \in 1..Len(s)
  OBVIOUS
<1>2. \A i \in 1..n : s[i] \in T
  BY <1>1
<1> QED
  BY <1>1, <1>2, SubSeqProperties

LEMMA NineParts ==
  ASSUME NEW raw, Framed(raw, 10, 1, 9)
  PROVE  Parts(raw) = [k \in 1..9 |-> raw[1 + k]]
<1> DEFINE n == 10   e == 1   c == 9
<1>1. Framed(raw, n, e, c)
  OBVIOUS
<1> HIDE DEF n, e, c
<1>2. Parts(raw) = [k \in 1..c |-> raw[e + k]]
  BY <1>1, PartsBetween
<1> QED
  BY <1>2 DEF e, c

LEMMA CutFails ==
  ASSUME NEW s \in Seq(Texts \ {Empty}), Len(s) = 8, NEW n \in 0..7,
         NEW raw, raw = <<Empty>> \o SubSeq(s, 1, n)
  PROVE  RawFrame(raw) = Malformed
<1> DEFINE T == Texts \ {Empty}   t == SubSeq(s, 1, n)
<1>1. t \in Seq(T) /\ Len(t) = n
  <2>1. n \in 0..Len(s)
    OBVIOUS
  <2> HIDE DEF T
  <2> QED
    BY <2>1, PrefixOf DEF T
<1> HIDE DEF t
<1>2. Parts(raw) = t
  <2>1. raw \in {t, <<Empty>> \o t, <<Empty>> \o t \o <<Empty>>}
    BY DEF t
  <2> QED
    BY <1>1, <2>1, FramedParts
<1>3. Len(Parts(raw)) < 8
  BY <1>1, <1>2
<1> QED
  BY <1>3 DEF RawFrame

LEMMA NoIntegerFails ==
  ASSUME NEW j \in 4..10, NEW raw, DOMAIN raw = 1..10, raw[1] = Empty,
         \A i \in 2..10 : raw[i] # Empty, ParseInt(raw[j]) = Malformed
  PROVE  RawFrame(raw) = Malformed
<1>1. \A i \in 1..10 : raw[i] # Empty <=> (1 < i /\ i <= 1 + 9)
  OBVIOUS
<1>2. Parts(raw) = [k \in 1..9 |-> raw[1 + k]]
  BY <1>1, NineParts DEF Framed
<1> DEFINE p == Parts(raw)
           num == [i \in 3..Len(p) |-> ParseInt(p[i])]
<1>3. Len(p) = 9 /\ j - 1 \in 3..9 /\ p[j - 1] = raw[j]
  <2>1. j - 1 \in 1..9 /\ 1 + (j - 1) = j /\ j - 1 \in 3..9
    OBVIOUS
  <2> QED
    BY <1>2, <2>1
<1> HIDE DEF p
<1>4. \E i \in 3..Len(p) : num[i] = Malformed
  <2>1. num[j - 1] = ParseInt(p[j - 1]) /\ j - 1 \in 3..Len(p)
    BY <1>3
  <2> QED
    BY <1>3, <2>1
<1> QED
  BY <1>4 DEF RawFrame, p

LEMMA GarbledFails ==
  ASSUME NEW s \in Seq(Texts \ {Empty}), Len(s) = 8, NEW j \in 4..10,
         NEW b \in Texts \ {Empty}, NEW x \in Texts \ {Empty}, ParseInt(x) = Malformed,
         NEW u, Enclosed(u, Empty, s, b), NEW raw, raw = [u EXCEPT ![j] = x]
  PROVE  RawFrame(raw) = Malformed
<1> DEFINE T == Texts \ {Empty}
<1>1. \A k \in 1..8 : s[k] # Empty
  <2>1. Empty \notin T /\ s \in Seq(T) /\ 1..8 = 1..Len(s)
    OBVIOUS
  <2> HIDE DEF T
  <2> QED
    BY <2>1, NoneIsEmpty, Zenon
<1>2. AsEnclosed(u, Empty, s, b)
  <2>1. s \in Seq(Texts) /\ Empty \in Texts /\ b \in Texts
    <3>1. T \subseteq Texts /\ s \in Seq(T) /\ b \in T
      OBVIOUS
    <3> HIDE DEF T
    <3> QED
      BY <3>1, TextFacts
  <2> QED
    BY <2>1, EnclosedFacts
<1>3. /\ DOMAIN raw = 1..10 /\ raw[j] = x
      /\ \A i \in 1..10 : i # j => raw[i] = u[i]
  BY <1>2 DEF AsEnclosed
<1>4. \A i \in 2..10 : u[i] # Empty
  <2>1. \A i \in 2..10 : (i - 1 \in 1..8 /\ 1 + (i - 1) = i) \/ i = 10
    OBVIOUS
  <2> QED
    BY <1>1, <1>2, <2>1 DEF AsEnclosed
<1>5. raw[1] = Empty /\ \A i \in 2..10 : raw[i] # Empty
  BY <1>2, <1>3, <1>4 DEF AsEnclosed
<1> QED
  BY <1>3, <1>5, NoIntegerFails

LEMMA CorruptFails ==
  ASSUME NEW m \in Measurements, NEW raw \in CorruptRaws(m)
  PROVE  RawFrame(raw) = Malformed
<1> DEFINE s == Segments(m)   T == Texts \ {Empty}
<1>1. s \in Seq(T) /\ Len(s) = 8
  BY SegmentFacts
<1>2. Number(1) \in T /\ \A g \in Garbage : g \in T /\ ParseInt(g) = Malformed
  BY TextFacts, GarbageFacts
<1> HIDE DEF s
<1>3. ASSUME NEW n \in 0..7, raw = Cut(m, n) PROVE RawFrame(raw) = Malformed
  <2>1. raw = <<Empty>> \o SubSeq(s, 1, n)
    BY <1>3 DEF Cut, s
  <2> QED
    BY <1>1, <2>1, CutFails
<1>4. ASSUME NEW j \in 4..10, NEW x \in Garbage, raw = Garbled(m, j, x)
      PROVE  RawFrame(raw) = Malformed
  <2> DEFINE u == <<Empty>> \o s \o <<Number(1)>>   b == Number(1)
  <2>1. Enclosed(u, Empty, s, b) /\ raw = [u EXCEPT ![j] = x]
    BY <1>4 DEF Enclosed, Garbled, s
  <2>2. x \in T /\ ParseInt(x) = Malformed /\ b \in T
    BY <1>2
  <2> HIDE DEF u, b
  <2> QED
    BY <1>1, <2>1, <2>2, GarbledFails
<1> QED
  BY <1>3, <1>4 DEF CorruptRaws

(* Every raw string is a sequence of texts.                                *)
LEMMA RawsAreTexts ==
  ASSUME NEW m \in Measurements, NEW raw \in WholeRaws(m) \cup CorruptRaws(m)
  PROVE  raw \in Seq(Texts)
<1> DEFINE s == Segments(m)   T == Texts \ {Empty}   one == <<Empty>>
<1>1. s \in Seq(Texts) /\ Len(s) = 8
  <2>1. s \in Seq(T) /\ Len(s) = 8 /\ T \subseteq Texts
    BY SegmentFacts
  <2> HIDE DEF s, T
  <2> QED
    BY <2>1
<1>2. /\ Empty \in Texts /\ Number(1) \in Texts /\ Number(2) \in Texts
      /\ \A g \in Garbage : g \in Texts
  BY TextFacts, GarbageFacts
<1>3. one \in Seq(Texts) /\ <<Number(1)>> \in Seq(Texts) /\ <<Number(1), Number(2)>> \in Seq(Texts)
  BY <1>2
<1>4. one \o s \in Seq(Texts)
  <2> HIDE DEF s, one
  <2> QED
    BY <1>1, <1>3
<1>5. CASE raw \in WholeRaws(m)
  <2>1. raw \in {s, one \o s, one \o s \o one, one \o s \o <<Number(1), Number(2)>>}
    BY <1>5 DEF WholeRaws
  <2>2. one \o s \o one \in Seq(Texts)
    <3> HIDE DEF s, one
    <3> QED
      BY <1>3, <1>4
  <2>3. one \o s \o <<Number(1), Number(2)>> \in Seq(Texts)
    <3> HIDE DEF s, one
    <3> DEFINE a == one \o s   b == <<Number(1), Number(2)>>
    <3>1. a \in Seq(Texts) /\ b \in Seq(Texts)
      BY <1>3, <1>4
    <3> HIDE DEF a, b
    <3>2. a \o b \in Seq(Texts)
      BY <3>1
    <3> QED
      BY <3>2 DEF a, b
  <2> HIDE DEF s, one
  <2> QED
    BY <1>1, <1>4, <2>1, <2>2, <2>3
<1>6. ASSUME NEW n \in 0..7, raw = Cut(m, n) PROVE raw \in Seq(Texts)
  <2>1. raw = one \o SubSeq(s, 1, n)
    BY <1>6 DEF Cut
  <2>2. n \in 0..Len(s)
    BY <1>1
  <2> HIDE DEF s, one
  <2>3. SubSeq(s, 1, n) \in Seq(Texts)
    BY <1>1, <2>2, PrefixOf
  <2> QED
    BY <1>3, <2>1, <2>3
<1>7. ASSUME NEW j \in 4..10, NEW g \in Garbage, raw = Garbled(m, j, g) PROVE raw \in Seq(Texts)
  <2> DEFINE u == one \o s \o <<Number(1)>>
  <2>1. raw = [u EXCEPT ![j] = g]
    BY <1>7 DEF Garbled
  <2>2. u \in Seq(Texts) /\ DOMAIN u = 1..10
    <3> DEFINE e == Empty   x == Number(1)
    <3>1. Enclosed(u, e, s, x)
      BY DEF Enclosed
    <3>2. e \in Texts /\ x \in Texts
      BY <1>2
    <3> HIDE DEF e, x
    <3>3. AsEnclosed(u, e, s, x)
      BY <1>1, <3>1, <3>2, EnclosedFacts
    <3> HIDE DEF s, one
    <3>4. u \in Seq(Texts)
      BY <1>3, <1>4
    <3> QED
      BY <3>3, <3>4 DEF AsEnclosed
  <2>3. j \in 1..Len(u) /\ g \in Texts
    <3> HIDE DEF u
    <3>1. 1..Len(u) = DOMAIN u
      BY <2>2, LenProperties
    <3>2. j \in 1..10
      OBVIOUS
    <3> QED
      BY <1>2, <2>2, <3>1, <3>2
  <2> HIDE DEF u
  <2> QED
    BY <2>1, <2>2, <2>3, ExceptSeq
<1> QED
  BY <1>5, <1>6, <1>7 DEF CorruptRaws

-----------------------------------------------------------------------------
(* Reading::parse.  The JSON fields say m, or nothing.                     *)
Sent(p, m, json) ==
  LET In(k, v) == IF k \in json THEN v ELSE Absent
  IN /\ p.version = In("version", m.version) /\ p.sensor = In("sensor", m.sensor)
     /\ p.read1 = In("read1", 10 * m.mm)
     /\ p.amp1 = In("amp1", m.amp1) /\ p.temp = In("temp", m.temp)
     /\ p.read_no = In("read_no", m.read_no) /\ p.last_sent = In("last_sent", m.last_sent)

(* The JSON's fields, then those of the frame, which says n.               *)
Decoded(r, m, n, json, frame) ==
  LET Said(k, v, w) == IF k \in json THEN v ELSE IF frame # Absent THEN w ELSE Absent
  IN /\ r.lvl = Said("read1", 10 * m.mm, 10 * n.mm)
     /\ r.battery_mv = Said("battery", m.battery, n.battery)
     /\ r.sensor = Said("sensor", m.sensor, n.sensor)
     /\ r.version = Said("version", m.version, n.version)
     /\ r.amp1 = Said("amp1", m.amp1, n.amp1) /\ r.temp = Said("temp", m.temp, n.temp)
     /\ r.read_no = Said("read_no", m.read_no, n.read_no)
     /\ r.last_sent = Said("last_sent", m.last_sent, n.last_sent)
     /\ r.raw = frame

LEMMA DecodeOf ==
  ASSUME NEW m \in Measurements, NEW n \in Measurements, NEW json,
         NEW frame, frame = Absent \/ Carries(frame, n),
         NEW p, Sent(p, m, json),
         p.battery = IF "battery" \in json THEN Number(m.battery) ELSE Absent
  PROVE  IF \A k \in {"read1", "battery", "sensor"} : k \in json \/ frame # Absent
         THEN Decode(p, frame) # Malformed /\ Decoded(Decode(p, frame), m, n, json, frame)
         ELSE Decode(p, frame) = Malformed
<1> DEFINE Said(k, v, w) == IF k \in json THEN v ELSE IF frame # Absent THEN w ELSE Absent
           lvl == LevelOf(p, frame)   bat == BatteryOf(p, frame)
           id == OrElse(p.sensor, frame, "sensor")
           ver == OrElse(p.version, frame, "version")
           rno == OrElse(p.read_no, frame, "read_no")
           lst == OrElse(p.last_sent, frame, "last_sent")
           amp == OrElse(p.amp1, frame, "amp")   tmp == OrElse(p.temp, frame, "temp")
<1>1. /\ 10 * m.mm \in Int /\ 10 * n.mm \in Int
      /\ \A x \in {m.version, m.sensor, n.version, n.sensor, Number(m.battery)} : x \in Texts /\ x # Absent
      /\ \A x \in {10 * m.mm, m.amp1, m.temp, m.read_no, m.last_sent, m.battery,
                 10 * n.mm, n.amp1, n.temp, n.read_no, n.last_sent, n.battery} :
            x \in Int /\ x # Absent /\ x # Malformed
  <2>1. 10 * m.mm \in Int /\ 10 * n.mm \in Int
    BY MeasurementFacts
  <2>2. Number(m.battery) \in Texts
    BY MeasurementFacts, TextFacts
  <2> QED
    BY <2>1, <2>2, MeasurementFacts, NoValues
<1>2. lvl = Said("read1", 10 * m.mm, 10 * n.mm)
  BY <1>1 DEF LevelOf, Sent, Carries
<1>3. bat = Said("battery", m.battery, n.battery)
  BY <1>1, MeasurementFacts, TextFacts DEF BatteryOf, Carries
<1>4. id = Said("sensor", m.sensor, n.sensor)
  BY <1>1 DEF OrElse, Sent, Carries
<1>5. ver = Said("version", m.version, n.version)
  BY <1>1 DEF OrElse, Sent, Carries
<1>6. rno = Said("read_no", m.read_no, n.read_no)
  BY <1>1 DEF OrElse, Sent, Carries
<1>7. lst = Said("last_sent", m.last_sent, n.last_sent)
  BY <1>1 DEF OrElse, Sent, Carries
<1>8. amp = Said("amp1", m.amp1, n.amp1)
  BY <1>1 DEF OrElse, Sent, Carries
<1>9. tmp = Said("temp", m.temp, n.temp)
  BY <1>1 DEF OrElse, Sent, Carries
<1> DEFINE r == [sensor |-> id, lvl |-> lvl, battery_mv |-> bat, version |-> ver, read_no |-> rno,
                 last_sent |-> lst, amp1 |-> amp, temp |-> tmp, raw |-> frame]
<1>10. Decode(p, frame) = IF lvl = Absent \/ bat \in {Absent, Malformed} \/ id = Absent
                          THEN Malformed ELSE r
  BY DEF Decode
<1> HIDE DEF lvl, bat, id, ver, rno, lst, amp, tmp
<1>11. CASE \A k \in {"read1", "battery", "sensor"} : k \in json \/ frame # Absent
  <2>1. lvl \in Int /\ bat \in Int /\ id \in Texts /\ lvl # Absent /\ bat \notin {Absent, Malformed} /\ id # Absent
    BY <1>1, <1>2, <1>3, <1>4, <1>11
  <2>2. r \in Readings
    <3>1. frame \in Frames \cup {Absent}
      BY DEF Carries
    <3>3. /\ ver \in Texts \cup {Absent} /\ rno \in Int \cup {Absent} /\ lst \in Int \cup {Absent}
          /\ amp \in Int \cup {Absent} /\ tmp \in Int \cup {Absent}
      BY <1>1, <1>5, <1>6, <1>7, <1>8, <1>9
    <3> QED
      BY <2>1, <3>1, <3>3 DEF Readings
  <2>3. Decode(p, frame) = r
    BY <1>10, <2>1
  <2>4. Decoded(r, m, n, json, frame)
    BY <1>2, <1>3, <1>4, <1>5, <1>6, <1>7, <1>8, <1>9 DEF Decoded
  <2> HIDE DEF r
  <2> QED
    BY <1>11, <2>2, <2>3, <2>4, NoValues
<1>12. CASE ~\A k \in {"read1", "battery", "sensor"} : k \in json \/ frame # Absent
  <2>1. lvl = Absent \/ bat = Absent \/ id = Absent
    BY <1>2, <1>3, <1>4, <1>12
  <2> QED
    BY <1>10, <1>12, <2>1
<1> QED
  BY <1>11, <1>12

(* The payload of the state, field by field.                               *)
LEMMA PayloadFacts ==
  /\ read.spoilt = "nothing" => /\ Sent(Payload, read.of, read.json)
                                /\ Payload.battery = IF "battery" \in read.json THEN read.battery ELSE Absent
                                /\ Payload.raw = read.raw
                                /\ Payload.is_json
  /\ read.spoilt = "payload" => ~Payload.is_json
  /\ read.spoilt \in PayloadFields => Payload[read.spoilt] = Mistyped
<1> DEFINE In(k, v) == CASE k = read.spoilt -> Mistyped
                         [] k # read.spoilt /\ k \in read.json \cup {"raw"} -> v
                         [] OTHER -> Absent
           m == read.of
<1>1. Payload = [is_json |-> read.spoilt # "payload",
                 version |-> In("version", m.version), sensor |-> In("sensor", m.sensor),
                 read1 |-> In("read1", 10 * m.mm), battery |-> In("battery", read.battery),
                 amp1 |-> In("amp1", m.amp1), temp |-> In("temp", m.temp),
                 read_no |-> In("read_no", m.read_no), last_sent |-> In("last_sent", m.last_sent),
                 raw |-> In("raw", read.raw)]
  BY DEF Payload
<1>2. ASSUME read.spoilt = "nothing"
      PROVE  /\ \A v : /\ \A k \in JsonFields : In(k, v) = IF k \in read.json THEN v ELSE Absent
                       /\ In("raw", v) = v
  BY <1>2 DEF JsonFields
<1>3. \A v : In(read.spoilt, v) = Mistyped
  OBVIOUS
<1> HIDE DEF In, m
<1>4. ASSUME read.spoilt = "nothing"
      PROVE  /\ Sent(Payload, m, read.json)
             /\ Payload.battery = IF "battery" \in read.json THEN read.battery ELSE Absent
             /\ Payload.raw = read.raw
             /\ Payload.is_json
  BY <1>1, <1>2, <1>4 DEF Sent, JsonFields
<1>5. ASSUME read.spoilt \in PayloadFields PROVE Payload[read.spoilt] = Mistyped
  <2>1. CASE read.spoilt = "sensor"
    BY <1>1, <1>3, <2>1
  <2>2. CASE read.spoilt = "version"
    BY <1>1, <1>3, <2>2
  <2>3. CASE read.spoilt = "read1"
    BY <1>1, <1>3, <2>3
  <2>4. CASE read.spoilt = "battery"
    BY <1>1, <1>3, <2>4
  <2>5. CASE read.spoilt = "read_no"
    BY <1>1, <1>3, <2>5
  <2>6. CASE read.spoilt = "last_sent"
    BY <1>1, <1>3, <2>6
  <2>7. CASE read.spoilt = "amp1"
    BY <1>1, <1>3, <2>7
  <2>8. CASE read.spoilt = "temp"
    BY <1>1, <1>3, <2>8
  <2>9. CASE read.spoilt = "raw"
    BY <1>1, <1>3, <2>9
  <2> QED
    BY <1>5, <2>1, <2>2, <2>3, <2>4, <2>5, <2>6, <2>7, <2>8, <2>9 DEF PayloadFields
<1> QED
  BY <1>1, <1>4, <1>5 DEF m

(* A /read of which nothing is of the wrong type is read as it is.         *)
LEMMA PayloadDeserializes ==
  ASSUME Inputs, read.spoilt = "nothing"
  PROVE  Deserializes(Payload)
<1> DEFINE m == read.of   p == Payload
<1>1. m \in Measurements /\ read.raw_of \in Measurements
  BY DEF Inputs
<1>2. /\ read.raw \in WholeRaws(read.raw_of) \cup CorruptRaws(read.raw_of) \cup {Absent}
      /\ read.battery \in {Number(m.battery), Empty} \cup Garbage
  BY ReadFacts DEF Inputs
<1>3. /\ Absent # Mistyped
      /\ \A x \in Int \cup Texts \cup Seq(Texts) : x # Mistyped
  BY DistinctAssumption, Zenon
<1>4. read.raw # Mistyped
  BY <1>1, <1>2, <1>3, RawsAreTexts
<1>5. read.battery # Mistyped
  <2>1. read.battery \in Texts
    BY <1>1, <1>2, MeasurementFacts, TextFacts, GarbageFacts
  <2> QED
    BY <1>3, <2>1
<1>6. /\ \A x \in {m.version, m.sensor} : x # Mistyped
      /\ \A x \in {10 * m.mm, m.amp1, m.temp, m.read_no, m.last_sent} : x # Mistyped
  <2>1. 10 * m.mm \in Int
    BY <1>1, MeasurementFacts
  <2> QED
    BY <1>1, <1>3, <2>1, MeasurementFacts
<1>7. /\ Sent(p, m, read.json) /\ p.raw = read.raw /\ p.is_json
      /\ p.battery = IF "battery" \in read.json THEN read.battery ELSE Absent
  BY PayloadFacts
<1> HIDE DEF p, m
<1>8. \A k \in PayloadFields : p[k] # Mistyped
  BY <1>3, <1>4, <1>5, <1>6, <1>7 DEF Sent, PayloadFields
<1> QED
  BY <1>7, <1>8 DEF Deserializes, p

(* Whatever the JSON and the raw string say, the fields decoded are the    *)
(* JSON's, and the raw string's where the JSON leaves them out.            *)
THEOREM ReadingIsTheMeasurement == Spec => []DecodesTheMeasurement
<1>1. Inputs => DecodesTheMeasurement
  <2> SUFFICES ASSUME Inputs, Whole PROVE DecodesTheMeasurement
    BY DEF DecodesTheMeasurement
  <2> DEFINE m == read.of   n == read.raw_of   p == Payload
             frame == IF p.raw = Absent THEN Absent ELSE RawFrame(p.raw)
  <2>1. m \in Measurements /\ n \in Measurements
    BY DEF Inputs
  <2>2. read.raw # Absent => Carries(RawFrame(read.raw), n) /\ RawFrame(read.raw) \in Frames
    BY <2>1, WholeDecodes DEF Whole, Carries
  <2>3. /\ frame = Absent \/ Carries(frame, n)
        /\ frame # Malformed
        /\ frame # Absent <=> read.raw # Absent
    BY <2>2, PayloadFacts, NoValues DEF Whole
  <2>4. p.battery = IF "battery" \in read.json THEN Number(m.battery) ELSE Absent
    BY PayloadFacts DEF Whole
  <2>5. ParseReading(p) = Decode(p, frame)
    BY <2>3, PayloadDeserializes DEF ParseReading, Whole
  <2>6. Sent(p, m, read.json)
    BY PayloadFacts DEF Whole
  <2> HIDE DEF frame, p
  <2>7. IF \A k \in {"read1", "battery", "sensor"} : k \in read.json \/ frame # Absent
        THEN Decode(p, frame) # Malformed /\ Decoded(Decode(p, frame), m, n, read.json, frame)
        ELSE Decode(p, frame) = Malformed
    BY <2>1, <2>3, <2>4, <2>6, DecodeOf
  <2> DEFINE r == ParseReading(p)
  <2>8. IF \A k \in {"read1", "battery", "sensor"} : k \in read.json \/ read.raw # Absent
        THEN r # Malformed /\ Decoded(r, m, n, read.json, frame)
        ELSE r = Malformed
    BY <2>3, <2>5, <2>7
  <2>9. frame # Absent => Carries(frame, n)
    BY <2>3
  <2> HIDE DEF r
  <2> QED
    BY <2>3, <2>8, <2>9 DEF DecodesTheMeasurement, Decoded, Carries, r, p
<1> QED
  BY <1>1, InputsInvariant, PTL

(* A payload that is no JSON, a field of another type, a raw string that is*)
(* cut or garbled, or a battery that is no number, spoils the whole /read. *)
THEOREM CorruptIsRefused == Spec => []CorruptRefused
<1>1. Inputs => CorruptRefused
  <2> SUFFICES ASSUME Inputs, ~Whole PROVE ParseReading(Payload) = Malformed
    BY DEF CorruptRefused
  <2> DEFINE m == read.of   n == read.raw_of   p == Payload
             frame == IF p.raw = Absent THEN Absent ELSE RawFrame(p.raw)
  <2>1. /\ n \in Measurements
        /\ read.raw \in WholeRaws(n) \cup CorruptRaws(n) \cup {Absent}
        /\ read.battery \in {Number(m.battery), Empty} \cup Garbage
        /\ read.spoilt \in PayloadFields \cup {"payload", "nothing"}
    BY ReadFacts DEF Inputs
  <2>2. CASE read.spoilt # "nothing"
    <3>1. ~Deserializes(p)
      BY <2>1, <2>2, PayloadFacts DEF Deserializes
    <3> QED
      BY <3>1 DEF ParseReading
  <2>3. CASE read.spoilt = "nothing" /\ read.raw \notin WholeRaws(n) \cup {Absent}
    <3>1. RawFrame(read.raw) = Malformed
      BY <2>1, <2>3, CorruptFails
    <3> QED
      BY <2>3, <3>1, PayloadFacts DEF ParseReading
  <2>4. CASE read.spoilt = "nothing" /\ "battery" \in read.json /\ read.battery # Number(m.battery)
    <3>1. read.battery \in Texts /\ ParseInt(read.battery) = Malformed
      BY <2>1, <2>4, TextFacts, GarbageFacts
    <3>2. ParseInt(p.battery) = Malformed /\ p.battery # Absent
      BY <2>4, <3>1, PayloadFacts, NoValues
    <3>3. ParseReading(p) \in {Malformed, Decode(p, frame)}
      BY DEF ParseReading
    <3> HIDE DEF p, frame
    <3>4. BatteryOf(p, frame) = Malformed
      BY <3>2 DEF BatteryOf
    <3>5. Decode(p, frame) = Malformed
      BY <3>4 DEF Decode
    <3> QED
      BY <3>3, <3>5 DEF p
  <2> QED
    BY <2>2, <2>3, <2>4 DEF Whole
<1> QED
  BY <1>1, InputsInvariant, PTL
=============================================================================
