----------------------------- MODULE WireProofs -----------------------------
(***************************************************************************)
(* The decoder of Wire, for every sequence of items and every way of       *)
(* cutting it into reads; and its round trip with the encoders, and with   *)
(* what a client writes.                                                   *)
(***************************************************************************)
EXTENDS Wire, SequenceTheorems, WellFoundedInduction, TLAPS

(* A set of numbers that holds 0 and each successor holds them all: stated *)
(* of a set, where the library states it of an operator.                   *)
LEMMA NatInduction0 ==
  ASSUME NEW S, 0 \in S, \A n \in Nat : n \in S => n + 1 \in S
  PROVE  \A n \in Nat : n \in S
<1> DEFINE R == {ss \in Nat \X Nat : ss[1] < ss[2]}
           T == {n \in Nat : n \notin S}
<1>1. SUFFICES ASSUME T # {} PROVE FALSE
  OBVIOUS
<1>2. IsWellFoundedOn(R, Nat)
  BY NatLessThanWellFounded DEF OpToRel
<1>3. T \subseteq Nat
  OBVIOUS
<1>4. PICK x \in T : \A y \in T : ~(<<y, x>> \in R)
  <2> HIDE DEF R, T
  <2> QED
    BY <1>1, <1>2, <1>3, WFMin
<1>5. \A y \in T : y \in Nat /\ x \in Nat /\ ~(y < x)
  BY <1>4
<1>6. x # 0 /\ x - 1 \in Nat
  BY <1>4
<1>7. x - 1 \in S
  BY <1>5, <1>6
<1> QED
  BY <1>4, <1>6, <1>7

-----------------------------------------------------------------------------
(* Recursion on one smaller argument: g[s] is base[s] at a leaf, and what  *)
(* comb makes of g[next[s]] elsewhere.                                     *)
Unfold(g, leaf, base, comb, next, s) == IF s \in leaf THEN base[s] ELSE comb[<<s, g[next[s]]>>]
IsRecursion(S, V, size, leaf, base, comb, next) ==
  /\ size \in [S -> Nat] /\ base \in [S -> V] /\ comb \in [S \X V -> V] /\ next \in [S -> S]
  /\ \A s \in S : s \notin leaf => size[next[s]] < size[s]

LEMMA RecursionExists ==
  ASSUME NEW S, NEW V, NEW size, NEW leaf, NEW base, NEW comb, NEW next,
         IsRecursion(S, V, size, leaf, base, comb, next)
  PROVE  \E g \in [S -> V] : \A s \in S : g[s] = Unfold(g, leaf, base, comb, next, s)
<1> DEFINE Upto(g, n) == \A s \in S : size[s] < n => g[s] = Unfold(g, leaf, base, comb, next, s)
           Good == {n \in Nat : \E g \in [S -> V] : Upto(g, n)}
<1>0. /\ size \in [S -> Nat] /\ base \in [S -> V] /\ comb \in [S \X V -> V] /\ next \in [S -> S]
      /\ \A s \in S : s \notin leaf => size[next[s]] < size[s]
  BY DEF IsRecursion
<1>1. 0 \in Good
  <2>1. Upto(base, 0)
    BY <1>0
  <2> HIDE DEF Upto
  <2> QED
    BY <1>0, <2>1
<1>2. ASSUME NEW n \in Nat, n \in Good PROVE n + 1 \in Good
  <2>1. PICK g \in [S -> V] : Upto(g, n)
    BY <1>2
  <2> DEFINE h == [s \in S |-> Unfold(g, leaf, base, comb, next, s)]
  <2>2. ASSUME NEW s \in S PROVE Unfold(g, leaf, base, comb, next, s) \in V
    BY <1>0 DEF Unfold
  <2>3. h \in [S -> V]
    BY <2>2
  <2>4. ASSUME NEW s \in S, size[s] < n + 1 PROVE h[s] = Unfold(h, leaf, base, comb, next, s)
    <3>1. s \notin leaf => next[s] \in S /\ size[next[s]] < n
      BY <1>0, <2>4
    <3>2. s \notin leaf => h[next[s]] = g[next[s]]
      BY <2>1, <3>1
    <3> QED
      BY <3>2 DEF Unfold
  <2>5. Upto(h, n + 1)
    BY <2>4
  <2> HIDE DEF h, Upto
  <2> QED
    BY <2>3, <2>5
<1>3. \A n \in Nat : n \in Good
  <2> HIDE DEF Good
  <2> QED
    BY <1>1, <1>2, NatInduction0
<1> DEFINE At(n) == CHOOSE g \in [S -> V] : Upto(g, n)
           h == [s \in S |-> At(size[s] + 1)[s]]
<1>4. ASSUME NEW n \in Nat PROVE At(n) \in [S -> V] /\ Upto(At(n), n)
  BY <1>3
<1> HIDE DEF At
<1>5. \A n \in Nat : \A m \in Nat : \A s \in S :
        size[s] < n /\ size[s] < m => At(n)[s] = At(m)[s]
  <2> DEFINE Same == {k \in Nat : \A n, m \in Nat : \A s \in S :
                        size[s] < k /\ size[s] < n /\ size[s] < m => At(n)[s] = At(m)[s]}
  <2>1. 0 \in Same
    BY <1>0
  <2>2. ASSUME NEW k \in Nat, k \in Same PROVE k + 1 \in Same
    <3> SUFFICES ASSUME NEW n \in Nat, NEW m \in Nat, NEW s \in S,
                        size[s] < k + 1, size[s] < n, size[s] < m
                 PROVE  At(n)[s] = At(m)[s]
      OBVIOUS
    <3>1. /\ At(n)[s] = Unfold(At(n), leaf, base, comb, next, s)
          /\ At(m)[s] = Unfold(At(m), leaf, base, comb, next, s)
      BY <1>4
    <3>2. s \notin leaf => /\ next[s] \in S
                           /\ size[next[s]] < k /\ size[next[s]] < n /\ size[next[s]] < m
      BY <1>0
    <3>3. s \notin leaf => At(n)[next[s]] = At(m)[next[s]]
      BY <2>2, <3>2
    <3> QED
      BY <3>1, <3>3 DEF Unfold
  <2>3. \A k \in Nat : k \in Same
    <3> HIDE DEF Same
    <3> QED
      BY <2>1, <2>2, NatInduction0
  <2> QED
    BY <1>0, <2>3
<1>6. h \in [S -> V]
  BY <1>0, <1>4
<1>7. ASSUME NEW s \in S PROVE h[s] = Unfold(h, leaf, base, comb, next, s)
  <2>1. At(size[s] + 1)[s] = Unfold(At(size[s] + 1), leaf, base, comb, next, s)
    BY <1>0, <1>4
  <2>2. s \notin leaf => /\ next[s] \in S /\ size[next[s]] \in Nat
                         /\ size[next[s]] < size[s] + 1 /\ size[s] + 1 \in Nat
    BY <1>0
  <2>3. s \notin leaf => At(size[s] + 1)[next[s]] = h[next[s]]
    BY <1>5, <2>2
  <2> QED
    BY <2>1, <2>3 DEF Unfold
<1> HIDE DEF h
<1> QED
  BY <1>6, <1>7

-----------------------------------------------------------------------------
(* FlattenSeq of each prefix of q, as a function of the prefix's length.   *)
IsFlat(F, q, A) ==
  /\ q \in Seq(Seq(A)) /\ F \in [0..Len(q) -> Seq(A)] /\ F[0] = <<>>
  /\ \A i \in 1..Len(q) : F[i] = F[i - 1] \o q[i]

LEMMA FlatExists ==
  ASSUME NEW A, NEW q \in Seq(Seq(A))
  PROVE  \E F : IsFlat(F, q, A)
<1> DEFINE S == 0..Len(q)
           size == [i \in S |-> i]
           base == [i \in S |-> <<>>]
           comb == [sv \in S \X Seq(A) |-> IF sv[1] = 0 THEN <<>> ELSE sv[2] \o q[sv[1]]]
           next == [i \in S |-> IF i = 0 THEN 0 ELSE i - 1]
<1>0. Len(q) \in Nat /\ \A i \in S : i # 0 => q[i] \in Seq(A)
  OBVIOUS
<1>1. size \in [S -> Nat] /\ base \in [S -> Seq(A)] /\ next \in [S -> S]
  BY <1>0
<1>2. comb \in [S \X Seq(A) -> Seq(A)]
  <2>1. ASSUME NEW sv \in S \X Seq(A)
        PROVE (IF sv[1] = 0 THEN <<>> ELSE sv[2] \o q[sv[1]]) \in Seq(A)
    <3>1. sv[1] # 0 => q[sv[1]] \in Seq(A) /\ sv[2] \in Seq(A)
      BY <1>0
    <3>2. sv[1] # 0 => sv[2] \o q[sv[1]] \in Seq(A)
      BY <3>1, ConcatProperties
    <3>3. <<>> \in Seq(A)
      BY EmptySeq
    <3> QED
      BY <3>2, <3>3
  <2> QED
    BY <2>1
<1>3. \A i \in S : i \notin {0} => size[next[i]] < size[i]
  BY <1>0
<1>4. \A i \in S : i # 0 => /\ next[i] = i - 1
                            /\ \A v \in Seq(A) : comb[<<i, v>>] = v \o q[i]
  OBVIOUS
<1>5. base[0] = <<>> /\ 0 \in S
  BY <1>0
<1>6. IsRecursion(S, Seq(A), size, {0}, base, comb, next)
  <2> HIDE DEF S, size, base, comb, next
  <2> QED
    BY <1>1, <1>2, <1>3 DEF IsRecursion
<1>7. PICK F \in [S -> Seq(A)] : \A i \in S : F[i] = Unfold(F, {0}, base, comb, next, i)
  <2> HIDE DEF S, size, base, comb, next
  <2> QED
    BY <1>6, RecursionExists
<1> HIDE DEF size, base, comb, next
<1>8. F[0] = <<>>
  BY <1>5, <1>7 DEF Unfold
<1>9. ASSUME NEW i \in 1..Len(q) PROVE F[i] = F[i - 1] \o q[i]
  <2>1. i \in S /\ i # 0 /\ i - 1 \in S
    BY <1>0
  <2> QED
    BY <1>4, <1>7, <2>1 DEF Unfold
<1> QED
  BY <1>7, <1>8, <1>9 DEF IsFlat

Flatten(q) == CHOOSE f : f = [i \in 1..Len(q) |-> IF i = 1 THEN q[i] ELSE f[i - 1] \o q[i]]

LEMMA FlattenIs ==
  ASSUME NEW A, NEW q, NEW F, IsFlat(F, q, A),
         NEW p \in Seq(Seq(A)), Len(p) <= Len(q), \A i \in 1..Len(p) : p[i] = q[i]
  PROVE  FlattenSeq(p) = F[Len(p)]
<1>0. Len(p) \in Nat /\ Len(q) \in Nat /\ \A i \in 1..Len(q) : q[i] \in Seq(A)
  BY DEF IsFlat
<1>1. CASE p = <<>>
  <2>1. FlattenSeq(p) = <<>> /\ Len(p) = 0
    BY <1>1 DEF FlattenSeq
  <2> QED
    BY <2>1 DEF IsFlat
<1>2. CASE p # <<>>
  <2>0. Len(p) >= 1 /\ Len(p) # 0
    BY <1>0, <1>2
  <2> DEFINE h == [i \in 1..Len(p) |-> F[i]]
  <2>1. ASSUME NEW i \in 1..Len(p) PROVE h[i] = IF i = 1 THEN p[i] ELSE h[i - 1] \o p[i]
    <3>1. i \in 1..Len(q) /\ p[i] = q[i] /\ h[i] = F[i]
      BY <1>0
    <3>2. F[i] = F[i - 1] \o q[i]
      BY <3>1 DEF IsFlat
    <3>3. i = 1 => F[i] = q[i]
      <4>1. q[i] \in Seq(A)
        BY <1>0, <3>1
      <4>2. i = 1 => F[i - 1] = <<>>
        BY DEF IsFlat
      <4> QED
        BY <3>2, <4>1, <4>2, ConcatEmptySeq
    <3>4. i # 1 => h[i - 1] = F[i - 1]
      BY <1>0
    <3> QED
      BY <3>1, <3>2, <3>3, <3>4
  <2>2. h = [i \in 1..Len(p) |-> IF i = 1 THEN p[i] ELSE h[i - 1] \o p[i]]
    BY <2>1
  <2>3. \E f : f = [i \in 1..Len(p) |-> IF i = 1 THEN p[i] ELSE f[i - 1] \o p[i]]
    BY <2>2
  <2>4. Flatten(p) = [i \in 1..Len(p) |-> IF i = 1 THEN p[i] ELSE Flatten(p)[i - 1] \o p[i]]
    BY <2>3 DEF Flatten
  <2> DEFINE f == Flatten(p)
  <2>5. \A i \in 1..Len(p) : f[i] = IF i = 1 THEN p[i] ELSE f[i - 1] \o p[i]
    BY <2>4
  <2> HIDE DEF f
  <2> DEFINE Same == {n \in Nat : n + 1 <= Len(p) => f[n + 1] = h[n + 1]}
  <2>6. 0 \in Same
    <3>1. 1 \in 1..Len(p) /\ 0 + 1 = 1
      BY <1>0, <2>0
    <3>2. f[1] = p[1] /\ h[1] = p[1]
      BY <2>1, <2>5, <3>1
    <3> HIDE DEF h
    <3> QED
      BY <3>1, <3>2
  <2>7. ASSUME NEW n \in Nat, n \in Same PROVE n + 1 \in Same
    <3> SUFFICES ASSUME n + 1 + 1 <= Len(p) PROVE f[n + 1 + 1] = h[n + 1 + 1]
      OBVIOUS
    <3> DEFINE k == n + 1 + 1
    <3>1. k \in 1..Len(p) /\ k # 1 /\ k - 1 = n + 1
      BY <1>0
    <3>2. f[n + 1] = h[n + 1]
      BY <1>0, <2>7
    <3> HIDE DEF k, h
    <3>3. f[k] = f[n + 1] \o p[k] /\ h[k] = h[n + 1] \o p[k]
      BY <2>1, <2>5, <3>1
    <3> QED
      BY <3>2, <3>3 DEF k
  <2>8. \A n \in Nat : n \in Same
    <3> HIDE DEF Same
    <3> QED
      BY <2>6, <2>7, NatInduction0
  <2>9. f[Len(p)] = h[Len(p)]
    <3>1. Len(p) - 1 \in Nat /\ (Len(p) - 1) + 1 = Len(p)
      BY <1>0, <2>0
    <3>2. Len(p) - 1 \in Same
      BY <2>8, <3>1
    <3> HIDE DEF h
    <3> QED
      BY <3>1, <3>2
  <2>10. h[Len(p)] = F[Len(p)]
    BY <1>0, <2>0
  <2>11. FlattenSeq(p) = f[Len(p)]
    BY <2>0 DEF FlattenSeq, f, Flatten
  <2> QED
    BY <2>9, <2>10, <2>11
<1> QED
  BY <1>1, <1>2

-----------------------------------------------------------------------------
(* The shape of one frame.                                                 *)
Ends(b) == LengthEnds(b, 4)
End(b) == CHOOSE i \in Ends(b) : \A j \in Ends(b) : i <= j
Body(b) == SubSeq(b, End(b) + 1, End(b) + Length(b, End(b)))
PacketOf(b) == DecodeBody(b[1] \div 16, b[1] % 16, Body(b))

LEMMA NextFrameIs ==
  ASSUME NEW b
  PROVE  /\ Ends(b) = {} => NextFrame(b) = [total |-> IF Len(b) > 4 THEN -1 ELSE 0]
         /\ Ends(b) # {} /\ Len(b) < End(b) + Length(b, End(b)) => NextFrame(b) = [total |-> 0]
         /\ Ends(b) # {} /\ ~(Len(b) < End(b) + Length(b, End(b))) =>
              NextFrame(b) = [total |-> End(b) + Length(b, End(b)), packet |-> PacketOf(b)]
BY DEF NextFrame, Framed, Ends, End, Body, PacketOf

LEMMA EndsFacts ==
  ASSUME NEW b \in Seq(Byte)
  PROVE  \A i : i \in Ends(b) <=> i \in 2..5 /\ i <= Len(b) /\ b[i] < 128
BY DEF Ends, LengthEnds

LEMMA EndFacts ==
  ASSUME NEW b \in Seq(Byte), Ends(b) # {}
  PROVE  End(b) \in Ends(b) /\ \A j \in Ends(b) : End(b) <= j
<1>1. \A i \in Ends(b) : i = 2 \/ i = 3 \/ i = 4 \/ i = 5
  BY EndsFacts
<1>2. PICK i \in Ends(b) : \A j \in Ends(b) : i <= j
  BY <1>1
<1> QED
  BY <1>2 DEF End

LEMMA ByteAt == ASSUME NEW b \in Seq(Byte), NEW i \in 1..Len(b)
                PROVE  b[i] \in 0..255
<1>1. b[i] \in Byte
  OBVIOUS
<1> QED
  BY <1>1 DEF Byte

LEMMA LengthNat ==
  ASSUME NEW b \in Seq(Byte), NEW end \in 1..5, end <= Len(b)
  PROVE  Length(b, end) \in Nat
<1>1. ASSUME NEW i \in 2..5, i <= end PROVE b[i] % 128 \in Nat
  <2>1. \A x \in 0..255 : x % 128 \in Nat
    OBVIOUS
  <2>2. i \in 1..Len(b)
    BY <1>1
  <2> QED
    BY <2>1, <2>2, ByteAt
<1>2. /\ Digit(b, end, 2, 1) \in Nat /\ Digit(b, end, 3, 128) \in Nat
      /\ Digit(b, end, 4, 16384) \in Nat /\ Digit(b, end, 5, 2097152) \in Nat
  <2>1. \A x \in Nat : x * 1 \in Nat /\ x * 128 \in Nat /\ x * 16384 \in Nat /\ x * 2097152 \in Nat
    OBVIOUS
  <2>2. 0 \in Nat
    OBVIOUS
  <2> QED
    BY <1>1, <2>1, <2>2, SMT DEF Digit
<1> DEFINE p == Digit(b, end, 2, 1)        q == Digit(b, end, 3, 128)
           r == Digit(b, end, 4, 16384)    s == Digit(b, end, 5, 2097152)
<1>3. p \in Nat /\ q \in Nat /\ r \in Nat /\ s \in Nat /\ Length(b, end) = p + q + r + s
  BY <1>2, SMT DEF Length
<1> HIDE DEF p, q, r, s
<1> QED
  BY <1>3

(* next_frame: what it frames is in the buffer, and is more than its       *)
(* header.                                                                 *)
LEMMA TotalFacts ==
  ASSUME NEW b \in Seq(Byte)
  PROVE  /\ NextFrame(b).total \in Int /\ NextFrame(b).total <= Len(b)
         /\ NextFrame(b).total > 0 =>
              /\ Ends(b) # {} /\ End(b) \in 2..5 /\ End(b) \in 1..Len(b)
              /\ Length(b, End(b)) \in Nat
              /\ NextFrame(b) = [total |-> End(b) + Length(b, End(b)), packet |-> PacketOf(b)]
         /\ NextFrame(b).total < 0 <=> Ends(b) = {} /\ Len(b) > 4
<1>0. Len(b) \in Nat
  OBVIOUS
<1>1. CASE Ends(b) = {}
  <2>1. NextFrame(b) = [total |-> IF Len(b) > 4 THEN -1 ELSE 0]
    BY <1>1, NextFrameIs
  <2> QED
    BY <1>0, <1>1, <2>1
<1>2. CASE Ends(b) # {}
  <2>1. End(b) \in 2..5 /\ End(b) <= Len(b) /\ End(b) \in 1..Len(b)
    BY <1>0, <1>2, EndFacts, EndsFacts
  <2>2. Length(b, End(b)) \in Nat
    BY <2>1, LengthNat
  <2>3. CASE Len(b) < End(b) + Length(b, End(b))
    <3>1. NextFrame(b) = [total |-> 0]
      BY <1>2, <2>3, NextFrameIs
    <3> QED
      BY <1>0, <1>2, <3>1
  <2>4. CASE ~(Len(b) < End(b) + Length(b, End(b)))
    <3>1. NextFrame(b) = [total |-> End(b) + Length(b, End(b)), packet |-> PacketOf(b)]
      BY <1>2, <2>4, NextFrameIs
    <3>2. NextFrame(b).total = End(b) + Length(b, End(b))
      BY <3>1
    <3> QED
      BY <1>0, <1>2, <2>1, <2>2, <2>4, <3>1, <3>2
  <2> QED
    BY <2>3, <2>4
<1> QED
  BY <1>1, <1>2

(* next_frame: a frame that is complete is not changed by what follows it. *)
LEMMA FrameStable ==
  ASSUME NEW b \in Seq(Byte), NEW c \in Seq(Byte), NextFrame(b).total > 0
  PROVE  NextFrame(b \o c) = NextFrame(b)
<1> DEFINE w == b \o c   end == End(b)   len == Length(b, end)
<1>1. /\ w \in Seq(Byte) /\ Len(w) = Len(b) + Len(c) /\ Len(b) \in Nat /\ Len(c) \in Nat
      /\ \A i \in 1..Len(b) : w[i] = b[i]
  BY ConcatProperties
<1>2. /\ Ends(b) # {} /\ end \in 2..5 /\ end \in 1..Len(b) /\ len \in Nat
      /\ NextFrame(b) = [total |-> end + len, packet |-> PacketOf(b)]
      /\ NextFrame(b).total <= Len(b)
  BY TotalFacts
<1>3. end \in Ends(b) /\ \A j \in Ends(b) : end <= j
  BY <1>2, EndFacts
<1> HIDE DEF w, end
<1>4. end \in Ends(w) /\ \A j \in Ends(w) : end <= j
  <2>1. end \in Ends(w)
    BY <1>1, <1>2, <1>3, EndsFacts
  <2>2. ASSUME NEW j \in Ends(w), j < end PROVE FALSE
    <3>0. j \in 2..5 /\ w[j] < 128
      BY <1>1, <2>2, EndsFacts
    <3>1. j \in 1..Len(b)
      BY <1>2, <2>2, <3>0
    <3>2. j \in Ends(b)
      <4>1. b[j] < 128 /\ j <= Len(b)
        BY <1>1, <3>0, <3>1
      <4> QED
        BY <3>0, <4>1, EndsFacts
    <3> QED
      BY <1>3, <2>2, <3>2, <1>2, <3>1
  <2>3. \A j \in Ends(w) : j \in Int
    BY <1>1, EndsFacts
  <2> QED
    BY <1>2, <2>1, <2>2, <2>3
<1>5. End(w) = end
  <2>1. End(w) \in Ends(w) /\ \A j \in Ends(w) : End(w) <= j
    BY <1>1, <1>4, EndFacts
  <2>2. \A j \in Ends(w) : j \in Int
    BY <1>1, EndsFacts
  <2> QED
    BY <1>4, <2>1, <2>2
<1>6. Length(w, end) = len
  <2>1. ASSUME NEW i \in 2..5, NEW mult PROVE Digit(w, end, i, mult) = Digit(b, end, i, mult)
    <3>1. ASSUME i <= end PROVE w[i] = b[i]
      <4>1. i \in 1..Len(b)
        BY <1>2, <3>1
      <4> QED
        BY <1>1, <4>1
    <3> QED
      BY <3>1 DEF Digit
  <2> QED
    BY <2>1, SMT DEF Length
<1> HIDE DEF len
<1>7. end + len \in 1..Len(b) /\ end + len <= Len(w)
  BY <1>1, <1>2
<1>8. SubSeq(w, end + 1, end + len) = SubSeq(b, end + 1, end + len)
  <2>1. CASE len = 0
    BY <1>2, <2>1, SubSeqEmpty
  <2>2. CASE len # 0
    <3>1. end + 1 \in 1..Len(b)
      BY <1>2, <1>7, <2>2
    <3> QED
      BY <1>7, <3>1, SubSeqOfConcat1 DEF w
  <2> QED
    BY <2>1, <2>2
<1>9. PacketOf(w) = PacketOf(b)
  <2>1. w[1] = b[1]
    BY <1>1, <1>7, <1>2
  <2> QED
    BY <1>5, <1>6, <1>8, <2>1 DEF PacketOf, Body, end, len
<1>10. NextFrame(w) = [total |-> end + len, packet |-> PacketOf(w)]
  <2>1. Ends(w) # {} /\ ~(Len(w) < End(w) + Length(w, End(w)))
    BY <1>1, <1>2, <1>4, <1>5, <1>6, <1>7
  <2> QED
    BY <1>5, <1>6, <2>1, NextFrameIs
<1> QED
  BY <1>2, <1>9, <1>10 DEF w

(* next_frame: a length that is none stays none. *)
LEMMA CorruptStable ==
  ASSUME NEW b \in Seq(Byte), NEW c \in Seq(Byte), NextFrame(b).total < 0
  PROVE  NextFrame(b \o c).total < 0
<1> DEFINE w == b \o c
<1>1. /\ w \in Seq(Byte) /\ Len(w) = Len(b) + Len(c) /\ Len(b) \in Nat /\ Len(c) \in Nat
      /\ \A i \in 1..Len(b) : w[i] = b[i]
  BY ConcatProperties
<1>2. Ends(b) = {} /\ Len(b) > 4
  BY TotalFacts
<1> HIDE DEF w
<1>3. ASSUME NEW i \in Ends(w) PROVE FALSE
  <2>1. i \in 2..5 /\ i \in 1..Len(b) /\ i <= Len(b) /\ w[i] < 128
    BY <1>1, <1>2, EndsFacts
  <2>2. i \in Ends(b)
    BY <1>1, <2>1, EndsFacts
  <2> QED
    BY <1>2, <2>2
<1>4. Ends(w) = {} /\ Len(w) > 4
  BY <1>1, <1>2, <1>3
<1>5. NextFrame(w).total < 0
  BY <1>1, <1>4, TotalFacts
<1> QED
  BY <1>5 DEF w

(* next_frame: a frame is waited for until its last byte is there. *)
LEMMA ShortOfAFrame ==
  ASSUME NEW b \in Seq(Byte), NEW c \in Seq(Byte), c # <<>>,
         NextFrame(b \o c).total = Len(b \o c)
  PROVE  NextFrame(b).total = 0
<1>1. /\ Len(b \o c) = Len(b) + Len(c) /\ Len(b) \in Nat /\ Len(c) \in Nat /\ Len(c) # 0
  BY ConcatProperties
<1>2. NextFrame(b).total \in Int /\ NextFrame(b).total <= Len(b)
  BY TotalFacts
<1>3. ~(NextFrame(b).total > 0)
  BY <1>1, <1>2, FrameStable
<1>4. ~(NextFrame(b).total < 0)
  BY <1>1, CorruptStable
<1> QED
  BY <1>2, <1>3, <1>4

-----------------------------------------------------------------------------
(* Decoder::push's loop. *)
Packet == {NextFrame(b).packet : b \in Seq(Byte)}
Drained == [buf : Seq(Byte), packets : Seq(Packet)]
Tails(b) == SubSeq(b, NextFrame(b).total + 1, Len(b))
DrainStep(g, b) ==
  IF NextFrame(b).total = 0 THEN [buf |-> b, packets |-> <<>>]
  ELSE IF NextFrame(b).total < 0 THEN [buf |-> <<>>, packets |-> <<>>]
  ELSE [buf |-> g[Tails(b)].buf, packets |-> Kept(NextFrame(b).packet) \o g[Tails(b)].packets]

LEMMA TailFacts ==
  ASSUME NEW b \in Seq(Byte), NextFrame(b).total > 0
  PROVE  /\ Tails(b) \in Seq(Byte) /\ Len(Tails(b)) = Len(b) - NextFrame(b).total
         /\ Len(Tails(b)) < Len(b)
<1>1. NextFrame(b).total \in Int /\ NextFrame(b).total <= Len(b) /\ Len(b) \in Nat
  BY TotalFacts
<1> DEFINE t == NextFrame(b).total
<1> HIDE DEF t
<1>2. \A i \in t + 1..Len(b) : b[i] \in Byte
  BY <1>1 DEF t
<1>3. SubSeq(b, t + 1, Len(b)) \in Seq(Byte) /\ Len(SubSeq(b, t + 1, Len(b))) = Len(b) - t
  BY <1>1, <1>2, SubSeqProperties DEF t
<1> QED
  BY <1>1, <1>3 DEF Tails, t

LEMMA KeptFacts == ASSUME NEW b \in Seq(Byte) PROVE Kept(NextFrame(b).packet) \in Seq(Packet)
<1>1. NextFrame(b).packet \in Packet
  BY DEF Packet
<1> QED
  BY <1>1, EmptySeq DEF Kept

LEMMA DrainExists == \E g \in [Seq(Byte) -> Drained] : \A b \in Seq(Byte) : g[b] = DrainStep(g, b)
<1> DEFINE S == Seq(Byte)
           size == [b \in S |-> Len(b)]
           leaf == {b \in S : ~(NextFrame(b).total > 0)}
           base == [b \in S |-> IF NextFrame(b).total = 0 THEN [buf |-> b, packets |-> <<>>]
                                ELSE [buf |-> <<>>, packets |-> <<>>]]
           comb == [bv \in S \X Drained |->
                      [buf |-> bv[2].buf, packets |-> Kept(NextFrame(bv[1]).packet) \o bv[2].packets]]
           next == [b \in S |-> IF NextFrame(b).total > 0 THEN Tails(b) ELSE b]
<1>1. size \in [S -> Nat]
  OBVIOUS
<1>2. base \in [S -> Drained]
  BY EmptySeq DEF Drained
<1>3. comb \in [S \X Drained -> Drained]
  <2>1. ASSUME NEW bv \in S \X Drained
        PROVE  [buf |-> bv[2].buf, packets |-> Kept(NextFrame(bv[1]).packet) \o bv[2].packets]
                 \in Drained
    <3>1. bv[1] \in S /\ bv[2].buf \in S /\ bv[2].packets \in Seq(Packet)
      BY DEF Drained
    <3>2. Kept(NextFrame(bv[1]).packet) \o bv[2].packets \in Seq(Packet)
      BY <3>1, KeptFacts, ConcatProperties
    <3> QED
      BY <3>1, <3>2 DEF Drained
  <2> QED
    BY <2>1
<1>4. next \in [S -> S]
  BY TailFacts
<1>5. \A b \in S : b \notin leaf => size[next[b]] < size[b]
  BY TailFacts
<1>6. ASSUME NEW b \in S
      PROVE  /\ NextFrame(b).total > 0 => b \notin leaf /\ next[b] = Tails(b) /\ Tails(b) \in S
             /\ NextFrame(b).total = 0 => b \in leaf /\ base[b] = [buf |-> b, packets |-> <<>>]
             /\ NextFrame(b).total < 0 => b \in leaf /\ base[b] = [buf |-> <<>>, packets |-> <<>>]
             /\ \A v \in Drained : comb[<<b, v>>] =
                  [buf |-> v.buf, packets |-> Kept(NextFrame(b).packet) \o v.packets]
  <2>0. NextFrame(b).total \in Int
    BY TotalFacts
  <2>1. NextFrame(b).total > 0 => b \notin leaf /\ next[b] = Tails(b) /\ Tails(b) \in S
    BY TailFacts
  <2>2. NextFrame(b).total = 0 => b \in leaf /\ base[b] = [buf |-> b, packets |-> <<>>]
    BY <2>0
  <2>3. NextFrame(b).total < 0 => b \in leaf /\ base[b] = [buf |-> <<>>, packets |-> <<>>]
    BY <2>0
  <2>4. \A v \in Drained : comb[<<b, v>>] =
                  [buf |-> v.buf, packets |-> Kept(NextFrame(b).packet) \o v.packets]
    OBVIOUS
  <2> QED
    BY <2>1, <2>2, <2>3, <2>4
<1>7. IsRecursion(S, Drained, size, leaf, base, comb, next)
  <2> HIDE DEF S, size, leaf, base, comb, next
  <2> QED
    BY <1>1, <1>2, <1>3, <1>4, <1>5 DEF IsRecursion
<1> HIDE DEF size, leaf, base, comb, next
<1>8. PICK g \in [S -> Drained] : \A b \in S : g[b] = Unfold(g, leaf, base, comb, next, b)
  <2> HIDE DEF S
  <2> QED
    BY <1>7, RecursionExists
<1>9. ASSUME NEW b \in S PROVE g[b] = DrainStep(g, b)
  <2>1. NextFrame(b).total \in Int
    BY TotalFacts
  <2>2. CASE NextFrame(b).total > 0
    <3>1. g[b] = comb[<<b, g[Tails(b)]>>] /\ g[Tails(b)] \in Drained
      BY <1>6, <1>8, <2>2 DEF Unfold
    <3>2. comb[<<b, g[Tails(b)]>>] =
            [buf |-> g[Tails(b)].buf, packets |-> Kept(NextFrame(b).packet) \o g[Tails(b)].packets]
      BY <1>6, <3>1
    <3>3. DrainStep(g, b) =
            [buf |-> g[Tails(b)].buf, packets |-> Kept(NextFrame(b).packet) \o g[Tails(b)].packets]
      BY <2>1, <2>2 DEF DrainStep
    <3> QED
      BY <3>1, <3>2, <3>3
  <2>3. CASE NextFrame(b).total = 0
    <3>1. g[b] = base[b]
      BY <1>6, <1>8, <2>3 DEF Unfold
    <3>2. base[b] = [buf |-> b, packets |-> <<>>]
      BY <1>6, <2>3
    <3> QED
      BY <2>3, <3>1, <3>2 DEF DrainStep
  <2>4. CASE NextFrame(b).total < 0
    <3>1. g[b] = base[b]
      BY <1>6, <1>8, <2>1, <2>4 DEF Unfold
    <3>2. base[b] = [buf |-> <<>>, packets |-> <<>>] /\ NextFrame(b).total # 0
      BY <1>6, <2>1, <2>4
    <3> QED
      BY <2>4, <3>1, <3>2 DEF DrainStep
  <2> QED
    BY <2>1, <2>2, <2>3, <2>4
<1> QED
  BY <1>8, <1>9

LEMMA DrainIs == ASSUME NEW b \in Seq(Byte) PROVE Drain[b] \in Drained /\ Drain[b] = DrainStep(Drain, b)
<1>1. PICK g \in [Seq(Byte) -> Drained] : \A c \in Seq(Byte) : g[c] = DrainStep(g, c)
  BY DrainExists
<1>2. g = [c \in Seq(Byte) |-> DrainStep(g, c)]
  BY <1>1
<1>3. \E h : h = [c \in Seq(Byte) |-> DrainStep(h, c)]
  BY <1>2
<1>4. Drain = [c \in Seq(Byte) |-> DrainStep(Drain, c)]
  BY <1>3, Zenon DEF Drain, DrainStep, Tails
<1>5. \A c \in Seq(Byte) : Drain[c] = DrainStep(Drain, c)
  BY <1>4
<1> DEFINE Same == {n \in Nat : \A c \in Seq(Byte) : Len(c) < n => Drain[c] = g[c]}
<1>6. 0 \in Same
  OBVIOUS
<1>7. ASSUME NEW n \in Nat, n \in Same PROVE n + 1 \in Same
  <2> SUFFICES ASSUME NEW c \in Seq(Byte), Len(c) < n + 1 PROVE Drain[c] = g[c]
    OBVIOUS
  <2>1. NextFrame(c).total \in Int
    BY TotalFacts
  <2>2. NextFrame(c).total > 0 => Drain[Tails(c)] = g[Tails(c)]
    <3>1. NextFrame(c).total > 0 => Tails(c) \in Seq(Byte) /\ Len(Tails(c)) < n
      BY TailFacts
    <3> QED
      BY <1>7, <3>1
  <2>3. DrainStep(Drain, c) = DrainStep(g, c)
    <3>1. NextFrame(c).total = 0 \/ NextFrame(c).total < 0 \/ NextFrame(c).total > 0
      BY <2>1
    <3>2. NextFrame(c).total = 0 \/ NextFrame(c).total < 0 => DrainStep(Drain, c) = DrainStep(g, c)
      BY Zenon DEF DrainStep
    <3> QED
      BY <2>2, <3>1, <3>2, Zenon DEF DrainStep
  <2> QED
    BY <1>1, <1>5, <2>3
<1>8. \A n \in Nat : n \in Same
  <2> HIDE DEF Same
  <2> QED
    BY <1>6, <1>7, NatInduction0
<1>9. Drain[b] = g[b]
  <2>1. Len(b) + 1 \in Nat /\ Len(b) < Len(b) + 1
    OBVIOUS
  <2> QED
    BY <1>8, <2>1
<1> QED
  BY <1>1, <1>5, <1>9

LEMMA EmptyFrame == NextFrame(<<>>).total = 0
<1>1. <<>> \in Seq(Byte) /\ Len(<<>>) = 0
  BY EmptySeq
<1> DEFINE e == <<>>
<1>2. ASSUME NEW i \in Ends(e) PROVE FALSE
  <2>1. e \in Seq(Byte) /\ Len(e) = 0
    BY <1>1
  <2> HIDE DEF e
  <2>2. i \in 2..5 /\ i <= Len(e)
    BY <2>1, EndsFacts
  <2> QED
    BY <2>1, <2>2
<1>3. Ends(<<>>) = {} /\ ~(Len(<<>>) > 4)
  BY <1>1, <1>2
<1> QED
  BY <1>3, NextFrameIs

(* Decoder::push leaves no frame behind, and no length that is none. *)
LEMMA DrainedRest == ASSUME NEW b \in Seq(Byte) PROVE NextFrame(Drain[b].buf).total = 0
<1>0. NextFrame(<<>>).total = 0
  BY EmptyFrame
<1> DEFINE Clean == {n \in Nat : \A c \in Seq(Byte) : Len(c) < n => NextFrame(Drain[c].buf).total = 0}
<1>1. 0 \in Clean
  OBVIOUS
<1>2. ASSUME NEW n \in Nat, n \in Clean PROVE n + 1 \in Clean
  <2> SUFFICES ASSUME NEW c \in Seq(Byte), Len(c) < n + 1 PROVE NextFrame(Drain[c].buf).total = 0
    OBVIOUS
  <2>1. Drain[c] = DrainStep(Drain, c) /\ NextFrame(c).total \in Int
    BY DrainIs, TotalFacts
  <2>2. CASE NextFrame(c).total = 0
    BY <2>1, <2>2 DEF DrainStep
  <2>3. CASE NextFrame(c).total < 0
    <3>1. NextFrame(c).total # 0
      BY <2>1, <2>3
    <3>2. Drain[c].buf = <<>>
      BY <2>1, <2>3, <3>1 DEF DrainStep
    <3> QED
      BY <1>0, <3>2
  <2>4. CASE NextFrame(c).total > 0
    <3>1. Tails(c) \in Seq(Byte) /\ Len(Tails(c)) < n
      BY <2>4, TailFacts
    <3>2. NextFrame(Drain[Tails(c)].buf).total = 0
      BY <1>2, <3>1
    <3>3. NextFrame(c).total # 0 /\ ~(NextFrame(c).total < 0)
      BY <2>1, <2>4
    <3>4. Drain[c].buf = Drain[Tails(c)].buf
      BY <2>1, <3>3 DEF DrainStep
    <3> QED
      BY <3>2, <3>4
  <2> QED
    BY <2>1, <2>2, <2>3, <2>4
<1>3. \A n \in Nat : n \in Clean
  <2> HIDE DEF Clean
  <2> QED
    BY <1>1, <1>2, NatInduction0
<1>4. Len(b) + 1 \in Nat /\ Len(b) < Len(b) + 1
  OBVIOUS
<1> QED
  BY <1>3, <1>4

-----------------------------------------------------------------------------
(* The stream of a sending, and where its items end in it. *)
BytesOf(s) == [i \in DOMAIN s |-> s[i].bytes]

LEMMA SendingFacts ==
  ASSUME NEW s \in Sendings
  PROVE  /\ Len(s) \in Nat /\ DOMAIN s = 1..Len(s)
         /\ BytesOf(s) \in Seq(Seq(Byte)) /\ Len(BytesOf(s)) = Len(s)
         /\ \A i \in 1..Len(s) : /\ BytesOf(s)[i] = s[i].bytes
                                 /\ s[i].bytes \in Seq(Byte) /\ Len(s[i].bytes) \in Nat \ {0}
<1>1. s \in Seq(Range(s))
  BY WireAssumption
<1>2. Len(s) \in Nat /\ DOMAIN s = 1..Len(s)
  BY <1>1
<1>3. \A i \in 1..Len(s) : s[i].bytes \in Seq(Byte) /\ s[i].bytes # <<>>
  BY <1>2, WireAssumption
<1>4. \A i \in 1..Len(s) : BytesOf(s)[i] = s[i].bytes
  BY <1>2 DEF BytesOf
<1>5. BytesOf(s) \in [1..Len(s) -> Seq(Byte)]
  BY <1>2, <1>3 DEF BytesOf
<1>6. BytesOf(s) \in Seq(Seq(Byte)) /\ Len(BytesOf(s)) = Len(s)
  BY <1>2, <1>5
<1>7. \A i \in 1..Len(s) : Len(s[i].bytes) \in Nat \ {0}
  BY <1>3
<1> QED
  BY <1>2, <1>3, <1>4, <1>6, <1>7

LEMMA StreamIs ==
  ASSUME NEW s \in Sendings, NEW F, IsFlat(F, BytesOf(s), Byte)
  PROVE  Stream(s) = F[Len(s)] /\ \A j \in 0..Len(s) : Stream(SubSeq(s, 1, j)) = F[j]
<1>1. /\ Len(s) \in Nat /\ DOMAIN s = 1..Len(s) /\ s \in Seq(Range(s))
      /\ BytesOf(s) \in Seq(Seq(Byte)) /\ Len(BytesOf(s)) = Len(s)
      /\ \A i \in 1..Len(s) : BytesOf(s)[i] = s[i].bytes /\ s[i].bytes \in Seq(Byte)
  BY SendingFacts, WireAssumption
<1>2. ASSUME NEW j \in 0..Len(s) PROVE Stream(SubSeq(s, 1, j)) = F[j]
  <2> DEFINE t == SubSeq(s, 1, j)   p == BytesOf(t)
  <2>1. t \in Seq(Range(s)) /\ Len(t) = j /\ \A i \in 1..j : t[i] = s[i]
    <3>1. \A i \in 1..j : s[i] \in Range(s)
      BY <1>1
    <3> QED
      BY <1>1, <3>1, SubSeqProperties
  <2> HIDE DEF t
  <2>2. DOMAIN t = 1..j /\ j \in Nat
    BY <1>1, <2>1
  <2>3. p \in [1..j -> Seq(Byte)] /\ \A i \in 1..j : p[i] = BytesOf(s)[i]
    BY <1>1, <2>1, <2>2 DEF BytesOf
  <2> HIDE DEF p
  <2>4. p \in Seq(Seq(Byte)) /\ Len(p) = j
    BY <2>2, <2>3
  <2>5. FlattenSeq(p) = F[Len(p)]
    <3>1. Len(p) <= Len(BytesOf(s)) /\ \A i \in 1..Len(p) : p[i] = BytesOf(s)[i]
      BY <1>1, <2>3, <2>4
    <3> QED
      BY <2>4, <3>1, FlattenIs
  <2>6. Stream(t) = FlattenSeq(p)
    BY DEF Stream, BytesOf, p
  <2> QED
    BY <2>4, <2>5, <2>6 DEF t
<1>3. Stream(s) = F[Len(s)]
  <2>1. FlattenSeq(BytesOf(s)) = F[Len(BytesOf(s))]
    BY <1>1, FlattenIs
  <2> QED
    BY <1>1, <2>1 DEF Stream, BytesOf
<1> QED
  BY <1>2, <1>3

Follows(F, q, i) == F[i] = F[i - 1] \o q[i]
Extends(F, j, k, A) == \E c \in Seq(A) : F[k] = F[j] \o c

LEMMA FlatFacts ==
  ASSUME NEW A, NEW q, NEW F, IsFlat(F, q, A)
  PROVE  /\ Len(q) \in Nat /\ F[0] = <<>>
         /\ \A i \in 0..Len(q) : F[i] \in Seq(A)
         /\ \A i \in 1..Len(q) : q[i] \in Seq(A) /\ Follows(F, q, i)
BY DEF IsFlat, Follows

LEMMA FlatGrows ==
  ASSUME NEW A, NEW q, NEW F, IsFlat(F, q, A), NEW j \in 0..Len(q)
  PROVE  \A k \in j..Len(q) : Extends(F, j, k, A)
<1>0. Len(q) \in Nat /\ j \in Nat /\ j <= Len(q)
  BY FlatFacts
<1>a. /\ \A i \in 0..Len(q) : F[i] \in Seq(A)
      /\ \A i \in 1..Len(q) : q[i] \in Seq(A) /\ Follows(F, q, i)
  BY FlatFacts
<1>b. \A i \in 1..Len(q) : F[i] = F[i - 1] \o q[i]
  BY <1>a DEF Follows
<1> DEFINE Grown == {n \in Nat : j + n <= Len(q) => \E c \in Seq(A) : F[j + n] = F[j] \o c}
<1>1. 0 \in Grown
  <2>1. F[j] = F[j] \o <<>> /\ <<>> \in Seq(A) /\ j + 0 = j
    BY <1>0, <1>a, ConcatEmptySeq, EmptySeq
  <2> QED
    BY <2>1
<1>2. ASSUME NEW n \in Nat, n \in Grown PROVE n + 1 \in Grown
  <2>1. ASSUME j + (n + 1) <= Len(q) PROVE \E c \in Seq(A) : F[j + (n + 1)] = F[j] \o c
    <3> DEFINE k == j + (n + 1)
    <3>1. k \in 1..Len(q) /\ k - 1 = j + n /\ j + n <= Len(q)
      BY <1>0, <2>1
    <3>2. PICK c \in Seq(A) : F[j + n] = F[j] \o c
      BY <1>2, <3>1
    <3> HIDE DEF k
    <3>3. F[k] = F[k - 1] \o q[k] /\ q[k] \in Seq(A) /\ F[j] \in Seq(A)
      BY <1>0, <1>a, <1>b, <3>1
    <3> DEFINE x == q[k]   y == F[j]
    <3>6. x \in Seq(A) /\ y \in Seq(A)
      BY <3>3
    <3> HIDE DEF x, y
    <3>4. (y \o c) \o x = y \o (c \o x) /\ c \o x \in Seq(A)
      BY <3>6, ConcatAssociative, ConcatProperties
    <3>5. F[k] = y \o (c \o x)
      BY <3>1, <3>2, <3>3, <3>4 DEF x, y
    <3> QED
      BY <3>4, <3>5 DEF k, y
  <2> QED
    BY <2>1
<1>3. \A n \in Nat : n \in Grown
  <2> HIDE DEF Grown
  <2> QED
    BY <1>1, <1>2, NatInduction0
<1>4. ASSUME NEW k \in j..Len(q) PROVE Extends(F, j, k, A)
  <2>1. k - j \in Nat /\ j + (k - j) = k /\ k <= Len(q)
    BY <1>0
  <2> QED
    BY <1>3, <2>1 DEF Extends
<1> QED
  BY <1>4

FlatAt(F, q, j) == SubSeq(F[Len(q)], Len(F[j - 1]) + 1, Len(F[j])) = q[j]

(* Item j of q is what lies between the ends of the prefixes j - 1 and j.  *)
LEMMA FlatCut ==
  ASSUME NEW A, NEW q, NEW F, IsFlat(F, q, A)
  PROVE  /\ \A j \in 0..Len(q) : /\ F[j] \in Seq(A) /\ Len(F[j]) \in Nat
                                 /\ Len(F[j]) <= Len(F[Len(q)])
         /\ Len(F[0]) = 0
         /\ \A j \in 1..Len(q) :
              Len(F[j]) = Len(F[j - 1]) + Len(q[j]) /\ FlatAt(F, q, j)
<1>0. Len(q) \in Nat /\ Len(q) \in 0..Len(q)
  BY FlatFacts
<1>a. /\ \A i \in 0..Len(q) : F[i] \in Seq(A)
      /\ \A i \in 1..Len(q) : q[i] \in Seq(A) /\ Follows(F, q, i)
  BY FlatFacts
<1>b. \A i \in 1..Len(q) : F[i] = F[i - 1] \o q[i]
  BY <1>a DEF Follows
<1> DEFINE T == F[Len(q)]
<1>1. ASSUME NEW j \in 0..Len(q)
      PROVE  /\ F[j] \in Seq(A) /\ Len(F[j]) \in Nat /\ Len(F[j]) <= Len(T)
             /\ \E c \in Seq(A) : T = F[j] \o c
  <2>1. F[j] \in Seq(A)
    BY <1>a
  <2>2. Len(q) \in j..Len(q)
    BY <1>0
  <2>5. Extends(F, j, Len(q), A)
    BY <2>2, FlatGrows
  <2>3. PICK c \in Seq(A) : T = F[j] \o c
    BY <2>5 DEF Extends
  <2> HIDE DEF T
  <2>4. Len(T) = Len(F[j]) + Len(c) /\ Len(F[j]) \in Nat /\ Len(c) \in Nat
    BY <2>1, <2>3, ConcatProperties
  <2>6. Len(F[j]) <= Len(T)
    BY <2>4
  <2> QED
    BY <2>1, <2>3, <2>4, <2>6
<1>2. Len(F[0]) = 0
  BY FlatFacts
<1> HIDE DEF T
<1>3. ASSUME NEW j \in 1..Len(q)
      PROVE  /\ Len(F[j]) = Len(F[j - 1]) + Len(q[j])
             /\ SubSeq(T, Len(F[j - 1]) + 1, Len(F[j])) = q[j]
  <2>1. j \in 0..Len(q) /\ j - 1 \in 0..Len(q)
    BY <1>0
  <2> DEFINE x == q[j]   y == F[j - 1]   m == Len(y)   n == Len(x)
  <2>2. y \in Seq(A) /\ x \in Seq(A) /\ F[j] = y \o x
    BY <1>a, <1>b, <2>1
  <2> HIDE DEF x, y
  <2>3. m \in Nat /\ n \in Nat
    BY <2>2
  <2>4. Len(F[j]) = m + n /\ \A i \in 1..m + n : F[j][i] = IF i <= m THEN y[i] ELSE x[i - m]
    BY <2>2, ConcatProperties
  <2>5. PICK c \in Seq(A) : T = F[j] \o c
    BY <1>1, <2>1
  <2>6. F[j] \in Seq(A)
    BY <1>1, <2>1
  <2> HIDE DEF m, n
  <2>7. /\ T \in Seq(A) /\ Len(T) = (m + n) + Len(c) /\ Len(c) \in Nat
        /\ \A i \in 1..m + n : T[i] = F[j][i]
    <3>1. /\ T \in Seq(A) /\ Len(T) = (m + n) + Len(c) /\ Len(c) \in Nat
      BY <2>4, <2>5, <2>6, ConcatProperties
    <3>2. ASSUME NEW i \in 1..m + n PROVE T[i] = F[j][i]
      <4>1. i \in 1..Len(F[j]) + Len(c) /\ i <= Len(F[j])
        BY <2>3, <2>4, <3>1
      <4> QED
        BY <2>5, <2>6, <4>1, ConcatProperties
    <3> QED
      BY <3>1, <3>2
  <2>8. \A i \in m + 1..m + n : T[i] = x[i - m]
    BY <2>3, <2>4, <2>7
  <2> DEFINE u == SubSeq(T, m + 1, m + n)
  <2>9. u \in Seq(A) /\ Len(u) = n /\ \A i \in 1..n : u[i] = T[m + i]
    <3>1. \A i \in m + 1..m + n : T[i] \in A
      BY <2>3, <2>7
    <3>2. m + 1 \in Int /\ m + n \in Int
      BY <2>3
    <3>3. /\ u \in Seq(A) /\ Len(u) = IF m + 1 <= m + n THEN (m + n) - (m + 1) + 1 ELSE 0
          /\ \A i \in 1..(m + n) - (m + 1) + 1 : u[i] = T[(m + 1) + i - 1]
      BY <3>1, <3>2, SubSeqProperties
    <3> HIDE DEF u
    <3> QED
      BY <2>3, <3>3
  <2> HIDE DEF u
  <2>10. ASSUME NEW i \in 1..n PROVE u[i] = x[i]
    <3>1. m + i \in m + 1..m + n /\ (m + i) - m = i
      BY <2>3
    <3>2. T[m + i] = x[(m + i) - m]
      BY <2>8, <3>1
    <3> QED
      BY <2>9, <3>1, <3>2
  <2>11. u = x
    BY <2>2, <2>9, <2>10, SeqEqual DEF n
  <2> QED
    BY <2>4, <2>11 DEF u, m, n, x, y
<1> QED
  BY <1>1, <1>2, <1>3 DEF T, FlatAt

-----------------------------------------------------------------------------
(* Where the items of a sending end in its stream, and what is in it from  *)
(* the end of item j to the r-th byte.                                     *)
EndOf(s, j) == Len(Stream(SubSeq(s, 1, j)))
Cut(s, j, r) == SubSeq(Stream(s), EndOf(s, j) + 1, r)
ItemAt(s, j) == SubSeq(Stream(s), EndOf(s, j - 1) + 1, EndOf(s, j)) = s[j].bytes

LEMMA StreamFacts ==
  ASSUME NEW s \in Sendings
  PROVE  /\ Stream(s) \in Seq(Byte) /\ Len(Stream(s)) \in Nat
         /\ EndOf(s, 0) = 0 /\ EndOf(s, Len(s)) = Len(Stream(s))
         /\ \A j \in 0..Len(s) : EndOf(s, j) \in Nat /\ EndOf(s, j) <= Len(Stream(s))
         /\ \A j \in 1..Len(s) : EndOf(s, j) = EndOf(s, j - 1) + Len(s[j].bytes) /\ ItemAt(s, j)
<1> DEFINE q == BytesOf(s)
<1>1. /\ Len(s) \in Nat /\ q \in Seq(Seq(Byte)) /\ Len(q) = Len(s)
      /\ \A i \in 1..Len(s) : q[i] = s[i].bytes
  BY SendingFacts
<1>2. PICK F : IsFlat(F, q, Byte)
  BY <1>1, FlatExists
<1>3. Stream(s) = F[Len(s)] /\ \A j \in 0..Len(s) : Stream(SubSeq(s, 1, j)) = F[j]
  BY <1>2, StreamIs
<1>4. \A j \in 0..Len(s) : EndOf(s, j) = Len(F[j])
  BY <1>3 DEF EndOf
<1> HIDE DEF q
<1>5. /\ \A j \in 0..Len(q) : /\ F[j] \in Seq(Byte) /\ Len(F[j]) \in Nat
                              /\ Len(F[j]) <= Len(F[Len(q)])
      /\ Len(F[0]) = 0
      /\ \A j \in 1..Len(q) :
           Len(F[j]) = Len(F[j - 1]) + Len(q[j]) /\ FlatAt(F, q, j)
  BY <1>2, FlatCut
<1>6. 0 \in 0..Len(s) /\ Len(s) \in 0..Len(s)
  BY <1>1
<1>7. ASSUME NEW j \in 1..Len(s)
      PROVE  EndOf(s, j) = EndOf(s, j - 1) + Len(s[j].bytes) /\ ItemAt(s, j)
  <2>1. j \in 0..Len(s) /\ j - 1 \in 0..Len(s) /\ j \in 1..Len(q)
    BY <1>1
  <2>2. /\ Len(F[j]) = Len(F[j - 1]) + Len(q[j])
        /\ SubSeq(F[Len(q)], Len(F[j - 1]) + 1, Len(F[j])) = q[j]
    BY <1>5, <2>1 DEF FlatAt
  <2>3. EndOf(s, j) = Len(F[j]) /\ EndOf(s, j - 1) = Len(F[j - 1])
    BY <1>4, <2>1
  <2>4. q[j] = s[j].bytes /\ F[Len(q)] = Stream(s)
    BY <1>1, <1>3
  <2> QED
    BY <2>2, <2>3, <2>4 DEF ItemAt
<1>8. Stream(s) \in Seq(Byte) /\ Len(Stream(s)) \in Nat
  BY <1>1, <1>3, <1>5, <1>6
<1>9. EndOf(s, 0) = 0 /\ EndOf(s, Len(s)) = Len(Stream(s))
  BY <1>3, <1>4, <1>5, <1>6
<1>10. \A j \in 0..Len(s) : EndOf(s, j) \in Nat /\ EndOf(s, j) <= Len(Stream(s))
  BY <1>1, <1>3, <1>4, <1>5
<1> QED
  BY <1>7, <1>8, <1>9, <1>10

LEMMA CutFacts ==
  ASSUME NEW s \in Sendings, NEW j \in 0..Len(s), NEW r \in EndOf(s, j)..Len(Stream(s))
  PROVE  /\ Cut(s, j, r) \in Seq(Byte) /\ Len(Cut(s, j, r)) = r - EndOf(s, j)
         /\ \A n \in Nat : r + n <= Len(Stream(s)) =>
              Cut(s, j, r) \o SubSeq(Stream(s), r + 1, r + n) = Cut(s, j, r + n)
<1> DEFINE T == Stream(s)   e == EndOf(s, j)
<1>1. T \in Seq(Byte) /\ Len(T) \in Nat /\ e \in Nat /\ e <= Len(T)
  BY StreamFacts
<1>2. r \in Nat /\ e <= r /\ r <= Len(T)
  BY <1>1
<1> HIDE DEF T, e
<1>3. \A i \in e + 1..r : T[i] \in Byte
  BY <1>1, <1>2
<1>4. SubSeq(T, e + 1, r) \in Seq(Byte) /\ Len(SubSeq(T, e + 1, r)) = r - e
  BY <1>1, <1>2, <1>3, SubSeqProperties
<1>5. ASSUME NEW n \in Nat, r + n <= Len(T)
      PROVE  SubSeq(T, e + 1, r) \o SubSeq(T, r + 1, r + n) = SubSeq(T, e + 1, r + n)
  <2>1. e + 1 \in 1..Len(T) + 1 /\ r \in (e + 1) - 1..Len(T) /\ r + n \in r..Len(T)
    BY <1>1, <1>2, <1>5
  <2> QED
    BY <1>1, <2>1, ConcatAdjacentSubSeq
<1>6. \A n \in Nat : r + n <= Len(T) =>
              Cut(s, j, r) \o SubSeq(T, r + 1, r + n) = Cut(s, j, r + n)
  BY <1>5 DEF Cut, T, e
<1> QED
  BY <1>4, <1>6 DEF Cut, T, e

(* From the end of item j on comes item j + 1, or a part of it that is not *)
(* yet all of it.                                                          *)
LEMMA CutItem ==
  ASSUME NEW s \in Sendings, NEW j \in 0..Len(s), j < Len(s),
         NEW r \in EndOf(s, j)..Len(Stream(s))
  PROVE  /\ EndOf(s, j) < EndOf(s, j + 1)
         /\ r >= EndOf(s, j + 1) =>
              Cut(s, j, r) = s[j + 1].bytes \o Cut(s, j + 1, r)
         /\ r < EndOf(s, j + 1) =>
              \E c \in Seq(Byte) : c # <<>> /\ s[j + 1].bytes = Cut(s, j, r) \o c
<1> DEFINE T == Stream(s)   e == EndOf(s, j)   f == EndOf(s, j + 1)   w == s[j + 1].bytes
<1>0. Len(s) \in Nat /\ j + 1 \in 1..Len(s) /\ j + 1 \in 0..Len(s) /\ (j + 1) - 1 = j
  BY SendingFacts
<1>1. /\ T \in Seq(Byte) /\ Len(T) \in Nat /\ e \in Nat /\ f \in Nat /\ f <= Len(T) /\ e <= Len(T)
      /\ f = e + Len(w) /\ ItemAt(s, j + 1)
  BY <1>0, StreamFacts
<1>2. SubSeq(T, e + 1, f) = w
  BY <1>0, <1>1 DEF ItemAt
<1>3. w \in Seq(Byte) /\ Len(w) \in Nat \ {0}
  BY <1>0, SendingFacts
<1>4. r \in Nat /\ e <= r /\ r <= Len(T)
  BY <1>1
<1> HIDE DEF T, e, f, w
<1>5. e < f
  BY <1>1, <1>3
<1>6. ASSUME r >= f PROVE SubSeq(T, e + 1, r) = w \o SubSeq(T, f + 1, r)
  <2>1. e + 1 \in 1..Len(T) + 1 /\ f \in (e + 1) - 1..Len(T) /\ r \in f..Len(T)
    BY <1>1, <1>4, <1>5, <1>6
  <2>2. SubSeq(T, e + 1, f) \o SubSeq(T, f + 1, r) = SubSeq(T, e + 1, r)
    BY <1>1, <2>1, ConcatAdjacentSubSeq
  <2> QED
    BY <1>2, <2>2
<1>7. ASSUME r < f
      PROVE  \E c \in Seq(Byte) : c # <<>> /\ w = SubSeq(T, e + 1, r) \o c
  <2> DEFINE c == SubSeq(T, r + 1, f)
  <2>1. e + 1 \in 1..Len(T) + 1 /\ r \in (e + 1) - 1..Len(T) /\ f \in r..Len(T)
    BY <1>1, <1>4, <1>5, <1>7
  <2>2. SubSeq(T, e + 1, r) \o c = w
    BY <1>1, <1>2, <2>1, ConcatAdjacentSubSeq
  <2>3. \A i \in r + 1..f : T[i] \in Byte
    BY <1>1, <1>4
  <2>4. c \in Seq(Byte) /\ Len(c) = f - r
    BY <1>1, <1>4, <1>7, <2>3, SubSeqProperties
  <2> HIDE DEF c
  <2>5. c # <<>>
    BY <1>1, <1>4, <1>7, <2>4
  <2> QED
    BY <2>2, <2>4, <2>5
<1> QED
  BY <1>5, <1>6, <1>7 DEF Cut, T, e, f, w

-----------------------------------------------------------------------------
(* What the items up to j mean, and what is left to decode after them.     *)
Delivered(s) == Packet \cup {s[i].means : i \in DOMAIN s}
KeptOf(s) == [i \in DOMAIN s |-> Kept(s[i].means)]
MeantOf(s, j) == FlattenSeq([i \in 1..j |-> Kept(s[i].means)])
MeantNext(s, j) == MeantOf(s, j) = MeantOf(s, j - 1) \o Kept(s[j].means)
Through(s, j, r) == MeantOf(s, j) \o Drain[Cut(s, j, r)].packets

LEMMA MeantFacts ==
  ASSUME NEW s \in Sendings
  PROVE  /\ MeantOf(s, 0) = <<>>
         /\ \A j \in 0..Len(s) : MeantOf(s, j) \in Seq(Delivered(s))
         /\ \A j \in 1..Len(s) : Kept(s[j].means) \in Seq(Delivered(s)) /\ MeantNext(s, j)
<1> DEFINE q == KeptOf(s)
<1>1. Len(s) \in Nat /\ DOMAIN s = 1..Len(s)
  BY SendingFacts
<1>2. ASSUME NEW i \in 1..Len(s) PROVE Kept(s[i].means) \in Seq(Delivered(s))
  <2>1. s[i].means \in Delivered(s)
    BY <1>1 DEF Delivered
  <2> QED
    BY <2>1, EmptySeq DEF Kept
<1>3. q \in [1..Len(s) -> Seq(Delivered(s))] /\ \A i \in 1..Len(s) : q[i] = Kept(s[i].means)
  BY <1>1, <1>2 DEF KeptOf
<1> HIDE DEF q
<1>4. q \in Seq(Seq(Delivered(s))) /\ Len(q) = Len(s)
  BY <1>1, <1>3
<1>5. PICK F : IsFlat(F, q, Delivered(s))
  BY <1>4, FlatExists
<1>6. ASSUME NEW j \in 0..Len(s) PROVE MeantOf(s, j) = F[j]
  <2> DEFINE p == [i \in 1..j |-> Kept(s[i].means)]
  <2>1. j \in Nat /\ j <= Len(s)
    BY <1>1
  <2>2. p \in [1..j -> Seq(Delivered(s))] /\ \A i \in 1..j : p[i] = q[i]
    BY <1>2, <1>3, <2>1
  <2>3. MeantOf(s, j) = FlattenSeq(p)
    BY DEF MeantOf
  <2> HIDE DEF p
  <2>4. p \in Seq(Seq(Delivered(s))) /\ Len(p) = j
    BY <2>1, <2>2
  <2>5. Len(p) <= Len(q) /\ \A i \in 1..Len(p) : p[i] = q[i]
    BY <1>4, <2>1, <2>2, <2>4
  <2>6. FlattenSeq(p) = F[Len(p)]
    BY <1>5, <2>4, <2>5, FlattenIs
  <2> QED
    BY <2>3, <2>4, <2>6
<1>7. /\ F[0] = <<>>
      /\ \A i \in 0..Len(q) : F[i] \in Seq(Delivered(s))
      /\ \A i \in 1..Len(q) : q[i] \in Seq(Delivered(s)) /\ Follows(F, q, i)
  BY <1>5, FlatFacts
<1>8. ASSUME NEW j \in 1..Len(s) PROVE MeantNext(s, j)
  <2>1. j \in 0..Len(s) /\ j - 1 \in 0..Len(s) /\ j \in 1..Len(q)
    BY <1>1, <1>4
  <2>2. F[j] = F[j - 1] \o q[j]
    BY <1>7, <2>1 DEF Follows
  <2>3. F[j] = MeantOf(s, j) /\ F[j - 1] = MeantOf(s, j - 1) /\ q[j] = Kept(s[j].means)
    BY <1>3, <1>6, <2>1
  <2> QED
    BY <2>2, <2>3 DEF MeantNext
<1>9. 0 \in 0..Len(s)
  BY <1>1
<1>10. MeantOf(s, 0) = <<>>
  BY <1>6, <1>7, <1>9
<1>11. \A j \in 0..Len(s) : MeantOf(s, j) \in Seq(Delivered(s))
  BY <1>4, <1>6, <1>7
<1> QED
  BY <1>2, <1>8, <1>10, <1>11

Assoc(x, y, z) == (x \o y) \o z = x \o (y \o z)

LEMMA ConcatAssoc == ASSUME NEW A, NEW x \in Seq(A), NEW y \in Seq(A), NEW z \in Seq(A)
                     PROVE  Assoc(x, y, z)
  BY ConcatAssociative DEF Assoc

LEMMA ConcatTail ==
  ASSUME NEW A, NEW u \in Seq(A), NEW v \in Seq(A)
  PROVE  SubSeq(u \o v, Len(u) + 1, Len(u \o v)) = v
<1> DEFINE m == Len(u)   n == Len(v)   w == u \o v   t == SubSeq(w, m + 1, m + n)
<1>1. m \in Nat /\ n \in Nat
  OBVIOUS
<1>2. Len(w) = m + n /\ \A i \in 1..m + n : w[i] = IF i <= m THEN u[i] ELSE v[i - m]
  BY ConcatProperties
<1> HIDE DEF w, m, n
<1>3. \A i \in m + 1..m + n : w[i] = v[i - m]
  BY <1>1, <1>2
<1>4. ASSUME NEW i \in m + 1..m + n PROVE w[i] \in A
  <2>1. i - m \in 1..n
    BY <1>1
  <2>2. v[i - m] \in A
    BY <2>1 DEF n
  <2> QED
    BY <1>3, <2>2
<1>5. m + 1 \in Int /\ m + n \in Int
  BY <1>1
<1>6. /\ t \in Seq(A) /\ Len(t) = IF m + 1 <= m + n THEN (m + n) - (m + 1) + 1 ELSE 0
      /\ \A i \in 1..(m + n) - (m + 1) + 1 : t[i] = w[(m + 1) + i - 1]
  BY <1>4, <1>5, SubSeqProperties
<1> HIDE DEF t
<1>7. Len(t) = n
  BY <1>1, <1>6
<1>8. ASSUME NEW i \in 1..n PROVE t[i] = v[i]
  <2>1. /\ i \in 1..(m + n) - (m + 1) + 1 /\ (m + 1) + i - 1 = m + i
        /\ m + i \in m + 1..m + n /\ (m + i) - m = i
    BY <1>1
  <2>2. t[i] = w[m + i] /\ w[m + i] = v[(m + i) - m]
    BY <1>3, <1>6, <2>1
  <2> QED
    BY <2>1, <2>2
<1>9. t = v
  BY <1>6, <1>7, <1>8, SeqEqual DEF n
<1> QED
  BY <1>2, <1>9 DEF t, w, m

-----------------------------------------------------------------------------
(* Decoder::push, item by item. *)
DecodesAll(s) ==
  \A i \in DOMAIN s :
    s[i].means # Malformed =>
      NextFrame(s[i].bytes) = [total |-> Len(s[i].bytes), packet |-> s[i].means]

SameRest(s, j, k, r) ==
  Drain[Cut(s, j, r)].buf = Drain[Cut(s, k, r)].buf /\ Through(s, j, r) = Through(s, k, r)

LEMMA OneItem ==
  ASSUME NEW s \in Sendings, DecodesAll(s), NEW j \in 0..Len(s), j < Len(s),
         s[j + 1].means # Malformed, NEW r \in EndOf(s, j + 1)..Len(Stream(s))
  PROVE  SameRest(s, j, j + 1, r)
<1> DEFINE w == s[j + 1].bytes   p == s[j + 1].means
           b == Cut(s, j, r)     c == Cut(s, j + 1, r)
<1>0. /\ Len(s) \in Nat /\ j + 1 \in 1..Len(s) /\ j + 1 \in 0..Len(s) /\ (j + 1) - 1 = j
      /\ DOMAIN s = 1..Len(s) /\ w \in Seq(Byte) /\ Len(w) \in Nat \ {0}
  BY SendingFacts
<1>1. /\ EndOf(s, j) \in Nat /\ EndOf(s, j + 1) \in Nat /\ Len(Stream(s)) \in Nat
      /\ EndOf(s, j + 1) = EndOf(s, j) + Len(w)
  BY <1>0, StreamFacts
<1>2. r \in EndOf(s, j)..Len(Stream(s)) /\ r >= EndOf(s, j + 1)
  BY <1>0, <1>1
<1>3. b = w \o c /\ b \in Seq(Byte) /\ c \in Seq(Byte)
  BY <1>0, <1>2, CutItem, CutFacts
<1>4. NextFrame(w) = [total |-> Len(w), packet |-> p]
  BY <1>0 DEF DecodesAll
<1> HIDE DEF w, p, b, c
<1>5. NextFrame(b) = [total |-> Len(w), packet |-> p]
  <2>1. NextFrame(w).total > 0
    BY <1>0, <1>4
  <2> QED
    BY <1>0, <1>3, <1>4, <2>1, FrameStable
<1>6. Tails(b) = c
  <2>1. NextFrame(b).total = Len(w)
    BY <1>5
  <2>2. SubSeq(b, Len(w) + 1, Len(b)) = c
    BY <1>0, <1>3, ConcatTail
  <2> QED
    BY <2>1, <2>2 DEF Tails
<1>7. Drain[b] = [buf |-> Drain[c].buf, packets |-> Kept(p) \o Drain[c].packets]
  <2>1. Drain[b] = DrainStep(Drain, b)
    BY <1>3, DrainIs
  <2>2. NextFrame(b).total # 0 /\ ~(NextFrame(b).total < 0) /\ NextFrame(b).packet = p
    BY <1>0, <1>5
  <2> QED
    BY <1>6, <2>1, <2>2 DEF DrainStep
<1>8. Drain[b].buf = Drain[c].buf /\ Drain[b].packets = Kept(p) \o Drain[c].packets
  <2> DEFINE d == Drain[c].buf   e == Kept(p) \o Drain[c].packets
  <2>1. Drain[b] = [buf |-> d, packets |-> e]
    BY <1>7
  <2> HIDE DEF d, e
  <2>2. Drain[b].buf = d /\ Drain[b].packets = e
    BY <2>1
  <2> QED
    BY <2>2 DEF d, e
<1>9. Through(s, j, r) = Through(s, j + 1, r)
  <2> DEFINE M == MeantOf(s, j)   K == Kept(p)   P == Drain[c].packets
  <2>1. M \in Seq(Delivered(s))
    BY MeantFacts
  <2>2. K \in Seq(Delivered(s)) /\ MeantNext(s, j + 1)
    BY <1>0, MeantFacts DEF p
  <2>3. P \in Seq(Delivered(s))
    <3>1. P \in Seq(Packet)
      BY <1>3, DrainIs DEF Drained
    <3>2. Packet \subseteq Delivered(s)
      BY DEF Delivered
    <3> QED
      BY <3>1, <3>2, SeqMonotonic
  <2>4. MeantOf(s, j + 1) = M \o K
    BY <1>0, <2>2 DEF MeantNext, p
  <2>5. Through(s, j, r) = M \o (K \o P)
    BY <1>8 DEF Through, b
  <2>6. Through(s, j + 1, r) = (M \o K) \o P
    BY <2>4 DEF Through, c
  <2> HIDE DEF M, K, P
  <2>7. (M \o K) \o P = M \o (K \o P)
    <3>1. Assoc(M, K, P)
      BY <2>1, <2>2, <2>3, ConcatAssoc
    <3> QED
      BY <3>1 DEF Assoc
  <2> QED
    BY <2>5, <2>6, <2>7
<1> QED
  BY <1>8, <1>9 DEF SameRest, b, c

(* The items before a malformed length, those of them that have been read, *)
(* and the last one of these: Sound, Whole and Arrived of any sending.     *)
SoundOf(s) == {j \in 0..Len(s) : \A i \in 1..j : s[i].means # Malformed}
WholeOf(s, r) == {j \in SoundOf(s) : EndOf(s, j) <= r}
ArrivedOf(s, r) == CHOOSE j \in WholeOf(s, r) : \A k \in WholeOf(s, r) : k <= j

LEMMA MaxOf ==
  ASSUME NEW n \in Nat, NEW T \in SUBSET (0..n), T # {}
  PROVE  \E x \in T : \A y \in T : y <= x
<1> DEFINE Has == {m \in Nat : \A V \in SUBSET (0..m) : V # {} => \E x \in V : \A y \in V : y <= x}
<1>1. 0 \in Has
  <2>1. ASSUME NEW V \in SUBSET (0..0), V # {} PROVE \E x \in V : \A y \in V : y <= x
    <3>1. \A y \in V : y = 0
      OBVIOUS
    <3>2. PICK x \in V : TRUE
      BY <2>1
    <3>3. \A y \in V : y <= x
      BY <3>1
    <3> QED
      BY <3>3
  <2> QED
    BY <2>1
<1>2. ASSUME NEW m \in Nat, m \in Has PROVE m + 1 \in Has
  <2>1. ASSUME NEW V \in SUBSET (0..m + 1), V # {} PROVE \E x \in V : \A y \in V : y <= x
    <3>1. CASE m + 1 \in V
      BY <3>1
    <3>2. CASE m + 1 \notin V
      <4>1. V \in SUBSET (0..m)
        BY <3>2
      <4> QED
        BY <1>2, <2>1, <4>1
    <3> QED
      BY <3>1, <3>2
  <2> QED
    BY <2>1
<1>3. n \in Has
  <2> HIDE DEF Has
  <2> QED
    BY <1>1, <1>2, NatInduction0
<1> QED
  BY <1>3

LEMMA ArrivedFacts ==
  ASSUME NEW s \in Sendings, NEW r \in Nat
  PROVE  LET k == ArrivedOf(s, r)
         IN /\ k \in 0..Len(s) /\ k \in SoundOf(s) /\ EndOf(s, k) <= r
            /\ \A j \in WholeOf(s, r) : j <= k
            /\ k < Len(s) /\ k + 1 \in SoundOf(s) => r < EndOf(s, k + 1)
<1> DEFINE T == WholeOf(s, r)   k == ArrivedOf(s, r)
<1>0. Len(s) \in Nat /\ \A j \in SoundOf(s) : j \in 0..Len(s)
  BY SendingFacts DEF SoundOf
<1>1. T \in SUBSET (0..Len(s))
  BY <1>0 DEF WholeOf
<1>2. 0 \in T
  <2>1. 0 \in SoundOf(s)
    BY <1>0 DEF SoundOf
  <2>2. EndOf(s, 0) <= r
    BY StreamFacts
  <2> QED
    BY <2>1, <2>2 DEF WholeOf
<1>3. \E x \in T : \A y \in T : y <= x
  <2> HIDE DEF T
  <2> QED
    BY <1>0, <1>1, <1>2, MaxOf
<1>4. k \in T /\ \A j \in T : j <= k
  BY <1>3 DEF ArrivedOf
<1> HIDE DEF k
<1>5. k \in 0..Len(s) /\ k \in SoundOf(s) /\ EndOf(s, k) <= r
  BY <1>0, <1>4 DEF WholeOf
<1>6. ASSUME k < Len(s), k + 1 \in SoundOf(s) PROVE r < EndOf(s, k + 1)
  <2>1. k \in Int /\ k + 1 \in 0..Len(s) /\ ~(k + 1 <= k)
    BY <1>0, <1>5, <1>6
  <2>2. k + 1 \notin T
    BY <1>4, <2>1
  <2>3. EndOf(s, k + 1) \in Nat
    BY <2>1, StreamFacts
  <2> QED
    BY <1>6, <2>2, <2>3 DEF WholeOf
<1> QED
  BY <1>4, <1>5, <1>6 DEF k

LEMMA Monotone ==
  ASSUME NEW s \in Sendings
  PROVE  \A k \in 0..Len(s) : \A j \in 0..k : EndOf(s, j) <= EndOf(s, k)
<1>0. Len(s) \in Nat /\ \A j \in 0..Len(s) : EndOf(s, j) \in Nat
  BY SendingFacts, StreamFacts
<1> DEFINE Ok == {k \in Nat : k <= Len(s) => \A j \in 0..k : EndOf(s, j) <= EndOf(s, k)}
<1>1. 0 \in Ok
  BY <1>0
<1>2. ASSUME NEW k \in Nat, k \in Ok PROVE k + 1 \in Ok
  <2>1. ASSUME k + 1 <= Len(s), NEW j \in 0..k + 1 PROVE EndOf(s, j) <= EndOf(s, k + 1)
    <3>1. k \in 0..Len(s) /\ k < Len(s) /\ k + 1 \in 0..Len(s)
      BY <1>0, <2>1
    <3>2. EndOf(s, k) \in EndOf(s, k)..Len(Stream(s))
      BY <1>0, <3>1, StreamFacts
    <3>3. EndOf(s, k) < EndOf(s, k + 1)
      BY <3>1, <3>2, CutItem
    <3>4. CASE j = k + 1
      BY <1>0, <3>1, <3>4
    <3>5. CASE j # k + 1
      <4>1. j \in 0..k /\ j \in 0..Len(s)
        BY <1>0, <3>1, <3>5
      <4>2. EndOf(s, j) <= EndOf(s, k)
        BY <1>2, <3>1, <4>1
      <4> QED
        BY <1>0, <3>1, <3>3, <4>1, <4>2
    <3> QED
      BY <3>4, <3>5
  <2> QED
    BY <2>1
<1>3. \A k \in Nat : k \in Ok
  <2> HIDE DEF Ok
  <2> QED
    BY <1>1, <1>2, NatInduction0
<1> QED
  BY <1>0, <1>3

LEMMA Items ==
  ASSUME NEW s \in Sendings, DecodesAll(s), NEW j \in 0..Len(s),
         NEW k \in j..Len(s), k \in SoundOf(s), NEW r \in EndOf(s, k)..Len(Stream(s))
  PROVE  SameRest(s, j, k, r)
<1>0. /\ Len(s) \in Nat /\ j \in Nat /\ k \in 0..Len(s) /\ k \in Nat
      /\ \A i \in 0..Len(s) : EndOf(s, i) \in Nat
      /\ Len(Stream(s)) \in Nat /\ r \in Nat /\ EndOf(s, k) <= r /\ r <= Len(Stream(s))
  BY SendingFacts, StreamFacts
<1> DEFINE Ok == {n \in Nat : j + n <= k => SameRest(s, j, j + n, r)}
<1>1. 0 \in Ok
  BY <1>0 DEF SameRest
<1>2. ASSUME NEW n \in Nat, n \in Ok PROVE n + 1 \in Ok
  <2>1. ASSUME j + (n + 1) <= k PROVE SameRest(s, j, j + (n + 1), r)
    <3> DEFINE i == j + n
    <3>1. /\ i + 1 = j + (n + 1) /\ i \in 0..Len(s) /\ i < Len(s) /\ i <= k
          /\ i + 1 \in 1..k /\ i + 1 \in 0..k /\ i + 1 \in 0..Len(s)
      BY <1>0, <2>1
    <3>2. SameRest(s, j, i, r)
      BY <1>2, <3>1
    <3> HIDE DEF i
    <3>3. s[i + 1].means # Malformed
      BY <3>1 DEF SoundOf
    <3>4. EndOf(s, i + 1) <= EndOf(s, k)
      BY <1>0, <3>1, Monotone
    <3>5. r \in EndOf(s, i + 1)..Len(Stream(s))
      BY <1>0, <3>1, <3>4
    <3>6. SameRest(s, i, i + 1, r)
      BY <3>1, <3>3, <3>5, OneItem
    <3> QED
      BY <3>1, <3>2, <3>6 DEF SameRest
  <2> QED
    BY <2>1
<1>3. \A n \in Nat : n \in Ok
  <2> HIDE DEF Ok
  <2> QED
    BY <1>1, <1>2, NatInduction0
<1>4. k - j \in Nat /\ j + (k - j) = k /\ j + (k - j) <= k
  BY <1>0
<1> QED
  BY <1>3, <1>4

-----------------------------------------------------------------------------
(* The inductive invariant.  Up to a malformed length the decoder is in    *)
(* sync: it has decoded the items that have arrived, and holds what came   *)
(* after them.  Past one, what it decoded before stays decoded.            *)
InSync(s, r, b, o) ==
  b = Cut(s, ArrivedOf(s, r), r) /\ o = MeantOf(s, ArrivedOf(s, r))
Lost(s, r, o) ==
  LET k == ArrivedOf(s, r)
  IN k < Len(s) /\ k + 1 \notin SoundOf(s) /\ IsPrefix(MeantOf(s, k), o)

LEMMA PrefixExtends ==
  ASSUME NEW A, NEW x \in Seq(A), NEW o \in Seq(A), NEW y \in Seq(A), IsPrefix(x, o)
  PROVE  IsPrefix(x, o \o y)
<1> DEFINE m == Len(x)
<1>1. m \in Nat /\ Len(o) \in Nat /\ m <= Len(o) /\ Len(y) \in Nat
  BY DEF IsPrefix
<1>2. Len(o \o y) = Len(o) + Len(y)
  BY ConcatProperties
<1>3. SubSeq(o \o y, 1, m) = SubSeq(o, 1, m)
  <2> HIDE DEF m
  <2>1. CASE m = 0
    BY <2>1, SubSeqEmpty
  <2>2. CASE m # 0
    <3>1. 1 \in 1..Len(o) /\ m \in 1..Len(o)
      BY <1>1, <2>2
    <3> QED
      BY <3>1, SubSeqOfConcat1
  <2> QED
    BY <2>1, <2>2
<1>4. SubSeq(x, 1, m) = SubSeq(o, 1, m)
  BY DEF IsPrefix
<1> QED
  BY <1>1, <1>2, <1>3, <1>4 DEF IsPrefix

LEMMA PrefixOfConcat ==
  ASSUME NEW A, NEW x \in Seq(A), NEW y \in Seq(A)
  PROVE  IsPrefix(x, x \o y)
<1>1. IsPrefix(x, x)
  BY DEF IsPrefix
<1> QED
  BY <1>1, PrefixExtends

LEMMA Nothing == Drain[<<>>] = [buf |-> <<>>, packets |-> <<>>]
<1>1. <<>> \in Seq(Byte)
  BY EmptySeq
<1>2. NextFrame(<<>>).total = 0
  BY EmptyFrame
<1> QED
  BY <1>1, <1>2, DrainIs DEF DrainStep

(* What follows the last item that has arrived is no frame yet. *)
LEMMA Pending ==
  ASSUME NEW s \in Sendings, DecodesAll(s), NEW r \in 0..Len(Stream(s)), NEW k, k = ArrivedOf(s, r),
         k = Len(s) \/ k + 1 \in SoundOf(s)
  PROVE  Drain[Cut(s, k, r)] = [buf |-> Cut(s, k, r), packets |-> <<>>]
<1>0. /\ Len(s) \in Nat /\ DOMAIN s = 1..Len(s) /\ Len(Stream(s)) \in Nat /\ r \in Nat
      /\ r <= Len(Stream(s))
  BY SendingFacts, StreamFacts
<1>1. /\ k \in 0..Len(s) /\ EndOf(s, k) <= r
      /\ k < Len(s) /\ k + 1 \in SoundOf(s) => r < EndOf(s, k + 1)
  BY <1>0, ArrivedFacts
<1>2. EndOf(s, k) \in Nat /\ r \in EndOf(s, k)..Len(Stream(s))
  BY <1>0, <1>1, StreamFacts
<1> DEFINE b == Cut(s, k, r)
<1>3. b \in Seq(Byte) /\ Len(b) = r - EndOf(s, k)
  BY <1>1, <1>2, CutFacts
<1>4. CASE k = Len(s)
  <2>1. Len(b) = 0
    BY <1>0, <1>2, <1>3, <1>4, StreamFacts
  <2> HIDE DEF b
  <2>2. b = <<>>
    BY <1>3, <2>1
  <2> QED
    BY <2>2, Nothing DEF b
<1>5. CASE k # Len(s)
  <2>1. k < Len(s) /\ k + 1 \in SoundOf(s) /\ k + 1 \in 1..Len(s) /\ r < EndOf(s, k + 1)
    BY <1>0, <1>1, <1>5
  <2> DEFINE w == s[k + 1].bytes
  <2>2. PICK c \in Seq(Byte) : c # <<>> /\ w = b \o c
    BY <1>1, <1>2, <2>1, CutItem
  <2>3. NextFrame(w).total = Len(w)
    <3>1. s[k + 1].means # Malformed
      BY <1>0, <1>1, <2>1 DEF SoundOf
    <3>2. NextFrame(w) = [total |-> Len(w), packet |-> s[k + 1].means]
      BY <1>0, <2>1, <3>1 DEF DecodesAll
    <3> QED
      BY <3>2
  <2> HIDE DEF w, b
  <2>4. NextFrame(b).total = 0
    BY <1>3, <2>2, <2>3, ShortOfAFrame
  <2>5. Drain[b] = DrainStep(Drain, b)
    BY <1>3, DrainIs
  <2> QED
    BY <2>4, <2>5 DEF DrainStep, b
<1> QED
  BY <1>4, <1>5

LEMMA Pushed ==
  ASSUME NEW s \in Sendings, DecodesAll(s), NEW r \in 0..Len(Stream(s)),
         NEW n \in Nat, r + n <= Len(Stream(s)),
         NEW b \in Seq(Byte), NEW o \in Seq(Delivered(s)), InSync(s, r, b, o) \/ Lost(s, r, o),
         NEW d, d = Drain[b \o SubSeq(Stream(s), r + 1, r + n)], d.packets \in Seq(Delivered(s))
  PROVE  InSync(s, r + n, d.buf, o \o d.packets) \/ Lost(s, r + n, o \o d.packets)
<1> DEFINE R == r + n   a == ArrivedOf(s, r)   k == ArrivedOf(s, R)
<1>0. /\ Len(s) \in Nat /\ DOMAIN s = 1..Len(s) /\ Len(Stream(s)) \in Nat
      /\ r \in Nat /\ r <= Len(Stream(s)) /\ R \in Nat /\ R <= Len(Stream(s)) /\ r <= R
  BY SendingFacts, StreamFacts
<1>1. /\ a \in 0..Len(s) /\ a \in SoundOf(s) /\ EndOf(s, a) <= r
      /\ k \in 0..Len(s) /\ k \in SoundOf(s) /\ EndOf(s, k) <= R
      /\ \A j \in WholeOf(s, R) : j <= k
  BY <1>0, ArrivedFacts
<1>2. EndOf(s, a) \in Nat /\ EndOf(s, k) \in Nat
  BY <1>1, StreamFacts
<1> HIDE DEF R, a, k
<1>3. a <= k
  BY <1>0, <1>1, <1>2 DEF WholeOf
<1>4. ASSUME Lost(s, r, o) PROVE Lost(s, R, o \o d.packets)
  <2>1. a < Len(s) /\ a + 1 \notin SoundOf(s) /\ IsPrefix(MeantOf(s, a), o)
    BY <1>4 DEF Lost, a
  <2>2. k = a
    <3>1. ASSUME a < k PROVE FALSE
      <4>1. a + 1 \in 0..Len(s) /\ \A i \in 1..a + 1 : i \in 1..k
        BY <1>0, <1>1, <3>1
      <4>2. a + 1 \in SoundOf(s)
        BY <1>1, <4>1 DEF SoundOf
      <4> QED
        BY <2>1, <4>2
    <3> QED
      BY <1>1, <1>3, <3>1
  <2>3. MeantOf(s, a) \in Seq(Delivered(s))
    BY <1>1, MeantFacts
  <2>4. IsPrefix(MeantOf(s, a), o \o d.packets)
    BY <2>1, <2>3, PrefixExtends
  <2> QED
    BY <2>1, <2>2, <2>4 DEF Lost, k
<1>5. ASSUME InSync(s, r, b, o)
      PROVE  InSync(s, R, d.buf, o \o d.packets) \/ Lost(s, R, o \o d.packets)
  <2>1. b = Cut(s, a, r) /\ o = MeantOf(s, a)
    BY <1>5 DEF InSync, a
  <2>2. b \o SubSeq(Stream(s), r + 1, r + n) = Cut(s, a, R)
    <3>1. r \in EndOf(s, a)..Len(Stream(s))
      BY <1>0, <1>1, <1>2
    <3> QED
      BY <1>1, <2>1, <3>1, CutFacts DEF R
  <2>3. d = Drain[Cut(s, a, R)]
    BY <2>2
  <2>4. SameRest(s, a, k, R)
    <3>1. k \in a..Len(s) /\ R \in EndOf(s, k)..Len(Stream(s))
      BY <1>0, <1>1, <1>2, <1>3
    <3> QED
      BY <1>1, <3>1, Items
  <2>5. d.buf = Drain[Cut(s, k, R)].buf
    BY <2>3, <2>4 DEF SameRest
  <2>6. o \o d.packets = MeantOf(s, k) \o Drain[Cut(s, k, R)].packets
    BY <2>1, <2>3, <2>4 DEF SameRest, Through
  <2>7. CASE k = Len(s) \/ k + 1 \in SoundOf(s)
    <3>1. Drain[Cut(s, k, R)] = [buf |-> Cut(s, k, R), packets |-> <<>>]
      <4>1. R \in 0..Len(Stream(s))
        BY <1>0
      <4> QED
        BY <2>7, <4>1, Pending DEF k
    <3>2. MeantOf(s, k) \in Seq(Delivered(s))
      BY <1>1, MeantFacts
    <3>3. MeantOf(s, k) \o <<>> = MeantOf(s, k)
      BY <3>2, ConcatEmptySeq
    <3>4. d.buf = Cut(s, k, R) /\ o \o d.packets = MeantOf(s, k)
      BY <2>5, <2>6, <3>1, <3>3
    <3> QED
      BY <3>4 DEF InSync, k
  <2>8. CASE k # Len(s) /\ k + 1 \notin SoundOf(s)
    <3>1. MeantOf(s, k) \in Seq(Delivered(s))
      BY <1>1, MeantFacts
    <3>2. Drain[Cut(s, k, R)].packets \in Seq(Delivered(s))
      <4>1. R \in EndOf(s, k)..Len(Stream(s))
        BY <1>0, <1>1, <1>2
      <4>2. Cut(s, k, R) \in Seq(Byte)
        BY <1>1, <4>1, CutFacts
      <4>3. Drain[Cut(s, k, R)].packets \in Seq(Packet)
        BY <4>2, DrainIs DEF Drained
      <4>4. Packet \subseteq Delivered(s)
        BY DEF Delivered
      <4> QED
        BY <4>3, <4>4, SeqMonotonic
    <3>3. IsPrefix(MeantOf(s, k), o \o d.packets)
      BY <2>6, <3>1, <3>2, PrefixOfConcat
    <3>4. k < Len(s)
      <4>1. Len(s) \in Nat
        BY SendingFacts
      <4>2. k \in Nat /\ k <= Len(s)
        BY <1>1, <4>1
      <4>3. k # Len(s)
        BY <2>8
      <4> QED
        BY <4>1, <4>2, <4>3
    <3> QED
      BY <2>8, <3>3, <3>4 DEF Lost, k
  <2> QED
    BY <2>7, <2>8
<1> QED
  BY <1>4, <1>5 DEF R

-----------------------------------------------------------------------------
(* What holds whatever the items are: the types, and that no frame and no  *)
(* corrupt length is left in the buffer.                                   *)
TypeOK ==
  /\ sending \in Sendings
  /\ read \in 0..Len(Stream(sending))
  /\ buf \in Seq(Byte) /\ out \in Seq(Packet)
  /\ NextFrame(buf).total = 0

LEMMA PushTypes ==
  ASSUME TypeOK, NEW n \in 1..Len(Stream(sending)), Push(n)
  PROVE  /\ TypeOK' /\ n \in Nat /\ read + n <= Len(Stream(sending))
         /\ LET d == Drain[buf \o SubSeq(Stream(sending), read + 1, read + n)]
            IN d \in Drained /\ buf' = d.buf /\ out' = out \o d.packets
         /\ read' = read + n /\ sending' = sending
<1> DEFINE T == Stream(sending)   c == SubSeq(T, read + 1, read + n)   d == Drain[buf \o c]
<1>1. T \in Seq(Byte) /\ Len(T) \in Nat
  BY StreamFacts DEF TypeOK
<1>2. /\ read + n <= Len(T) /\ buf' = d.buf /\ out' = out \o d.packets
      /\ read' = read + n /\ sending' = sending
  BY DEF Push
<1>3. read \in Nat /\ n \in Nat /\ read' \in 0..Len(T)
  BY <1>1, <1>2 DEF TypeOK
<1> HIDE DEF T
<1>4. c \in Seq(Byte)
  <2>1. \A i \in read + 1..read + n : T[i] \in Byte
    BY <1>1, <1>2, <1>3
  <2> QED
    BY <1>3, <2>1, SubSeqProperties
<1> HIDE DEF c
<1>5. buf \o c \in Seq(Byte)
  BY <1>4, ConcatProperties DEF TypeOK
<1>6. d \in Drained /\ NextFrame(d.buf).total = 0
  BY <1>5, DrainIs, DrainedRest
<1> HIDE DEF d
<1>7. d.buf \in Seq(Byte) /\ d.packets \in Seq(Packet)
  BY <1>6 DEF Drained
<1>8. out' \in Seq(Packet)
  BY <1>2, <1>7, ConcatProperties DEF TypeOK
<1>9. TypeOK'
  BY <1>2, <1>3, <1>6, <1>7, <1>8 DEF TypeOK, T
<1> QED
  BY <1>2, <1>3, <1>6, <1>9 DEF T, c, d

LEMMA Start ==
  ASSUME NEW s \in Sendings
  PROVE  /\ 0 \in 0..Len(Stream(s)) /\ <<>> \in Seq(Byte) /\ <<>> \in Seq(Packet)
         /\ InSync(s, 0, <<>>, <<>>)
<1>1. 0 \in 0..Len(Stream(s)) /\ <<>> \in Seq(Byte) /\ <<>> \in Seq(Packet)
  BY StreamFacts, EmptySeq
<1> DEFINE k == ArrivedOf(s, 0)
<1>2. k \in 0..Len(s) /\ EndOf(s, k) <= 0
  BY ArrivedFacts
<1> HIDE DEF k
<1>3. k = 0
  <2>1. ASSUME k # 0 PROVE FALSE
    <3>1. k \in 1..Len(s) /\ k - 1 \in 0..Len(s)
      BY <1>2, <2>1, SendingFacts
    <3>2. /\ EndOf(s, k) = EndOf(s, k - 1) + Len(s[k].bytes)
          /\ EndOf(s, k - 1) \in Nat /\ Len(s[k].bytes) \in Nat \ {0}
      BY <3>1, StreamFacts, SendingFacts
    <3> QED
      BY <1>2, <3>2
  <2> QED
    BY <2>1
<1>4. Cut(s, 0, 0) = <<>>
  <2>1. EndOf(s, 0) = 0
    BY StreamFacts
  <2> QED
    BY <2>1, SubSeqEmpty DEF Cut
<1>5. MeantOf(s, 0) = <<>>
  BY MeantFacts
<1> QED
  BY <1>1, <1>3, <1>4, <1>5 DEF InSync, k

(* mqtt_wire.rs:55,77-92: whatever bytes arrive, in whatever pieces, and   *)
(* however often the peer reconnects, the buffer holds the incomplete      *)
(* packet only, never one that could have been handed on.                  *)
THEOREM TypeSafety == Spec => []TypeOK
<1>1. Init => TypeOK
  <2> SUFFICES ASSUME Init PROVE TypeOK
    OBVIOUS
  <2> QED
    BY Start, EmptyFrame DEF Init, TypeOK
<1>2. TypeOK /\ [Next]_vars => TypeOK'
  <2> SUFFICES ASSUME TypeOK, [Next]_vars PROVE TypeOK'
    OBVIOUS
  <2>1. ASSUME NEW n \in 1..Len(Stream(sending)), Push(n) PROVE TypeOK'
    BY <2>1, PushTypes
  <2>2. CASE Reconnect
    <3>1. sending' \in Sendings /\ read' = 0 /\ out' = <<>> /\ buf' = <<>>
      BY <2>2 DEF Reconnect
    <3>2. 0 \in 0..Len(Stream(sending')) /\ <<>> \in Seq(Byte) /\ <<>> \in Seq(Packet)
      BY <3>1, Start
    <3> QED
      BY <3>1, <3>2, EmptyFrame DEF TypeOK
  <2>3. CASE UNCHANGED vars
    BY <2>3 DEF vars, TypeOK
  <2> QED
    BY <2>1, <2>2, <2>3 DEF Next
<1> QED
  BY <1>1, <1>2, PTL DEF Spec

(* mqtt_wire.rs:64-65,117-119: on every connection, whatever the peer      *)
(* sends, a length whose fourth byte is not its last is never waited for.  *)
THEOREM CorruptIsDropped == Spec => []NothingCorruptKept
<1>1. TypeOK => NothingCorruptKept
  <2> SUFFICES ASSUME TypeOK, Len(buf) >= 5 PROVE \E i \in 2..5 : buf[i] < 128
    BY DEF NothingCorruptKept, TypeOK
  <2>1. buf \in Seq(Byte) /\ NextFrame(buf).total = 0
    BY DEF TypeOK
  <2>2. ~(NextFrame(buf).total < 0)
    BY <2>1
  <2>3. Ends(buf) # {}
    BY <2>1, <2>2, TotalFacts
  <2>4. PICK i \in Ends(buf) : TRUE
    BY <2>3
  <2> QED
    BY <2>1, <2>4, EndsFacts
<1> QED
  BY <1>1, TypeSafety, PTL

-----------------------------------------------------------------------------
IInv == TypeOK /\ (InSync(sending, read, buf, out) \/ Lost(sending, read, out))

(* mqtt_wire.rs:73-93: however the stream of a sending is cut into reads,  *)
(* the decoder stays in sync with its items up to a malformed length; what *)
(* it needs of the items is that each, handed over whole, is decoded.      *)
THEOREM StaysInSync == Spec /\ []DecodesWhole => []IInv
<1>1. Init => IInv
  <2> SUFFICES ASSUME Init PROVE IInv
    OBVIOUS
  <2> QED
    BY Start, EmptyFrame DEF Init, TypeOK, IInv
<1>2. IInv /\ DecodesWhole /\ [Next]_vars => IInv'
  <2> SUFFICES ASSUME IInv, DecodesWhole, [Next]_vars PROVE IInv'
    OBVIOUS
  <2>1. ASSUME NEW n \in 1..Len(Stream(sending)), Push(n) PROVE IInv'
    <3>1. TypeOK
      BY DEF IInv
    <3> DEFINE d == Drain[buf \o SubSeq(Stream(sending), read + 1, read + n)]
    <3>2. /\ TypeOK' /\ n \in Nat /\ read + n <= Len(Stream(sending))
          /\ d \in Drained /\ buf' = d.buf /\ out' = out \o d.packets
          /\ read' = read + n /\ sending' = sending
      BY <2>1, <3>1, PushTypes
    <3>3. out \in Seq(Delivered(sending)) /\ d.packets \in Seq(Delivered(sending))
      <4>1. Packet \subseteq Delivered(sending)
        BY DEF Delivered
      <4>2. out \in Seq(Packet) /\ d.packets \in Seq(Packet)
        BY <3>1, <3>2 DEF TypeOK, Drained
      <4> QED
        BY <4>1, <4>2, SeqMonotonic
    <3>4. DecodesAll(sending)
      BY DEF DecodesWhole, DecodesAll
    <3>5. \/ InSync(sending, read + n, d.buf, out \o d.packets)
          \/ Lost(sending, read + n, out \o d.packets)
      <4>1. sending \in Sendings /\ read \in 0..Len(Stream(sending)) /\ buf \in Seq(Byte)
        BY <3>1 DEF TypeOK
      <4>2. InSync(sending, read, buf, out) \/ Lost(sending, read, out)
        BY DEF IInv
      <4> QED
        BY <3>2, <3>3, <3>4, <4>1, <4>2, Pushed
    <3> QED
      BY <3>2, <3>5 DEF IInv
  <2>2. CASE Reconnect
    <3>1. sending' \in Sendings /\ read' = 0 /\ out' = <<>> /\ buf' = <<>>
      BY <2>2 DEF Reconnect
    <3>2. /\ 0 \in 0..Len(Stream(sending')) /\ <<>> \in Seq(Byte) /\ <<>> \in Seq(Packet)
          /\ InSync(sending', 0, <<>>, <<>>)
      BY <3>1, Start
    <3> QED
      BY <3>1, <3>2, EmptyFrame DEF TypeOK, IInv
  <2>3. CASE UNCHANGED vars
    BY <2>3 DEF vars, TypeOK, IInv
  <2> QED
    BY <2>1, <2>2, <2>3 DEF Next
<1> QED
  BY <1>1, <1>2, PTL DEF Spec

LEMMA OfSending ==
  /\ Sound = SoundOf(sending)
  /\ Arrived = ArrivedOf(sending, read)
  /\ \A j : Meant(j) = MeantOf(sending, j)
BY DEF Sound, SoundOf, Whole, WholeOf, EndOf, Arrived, ArrivedOf, Meant, MeantOf

LEMMA LostIsUnsound ==
  ASSUME NEW s \in Sendings, NEW r, NEW o, Lost(s, r, o), ArrivedOf(s, r) \in 0..Len(s)
  PROVE  Len(s) \notin SoundOf(s)
<1> DEFINE k == ArrivedOf(s, r)
<1>1. Len(s) \in Nat /\ k \in 0..Len(s) /\ k < Len(s) /\ k + 1 \notin SoundOf(s)
  BY SendingFacts DEF Lost
<1> HIDE DEF k
<1>2. ASSUME Len(s) \in SoundOf(s) PROVE FALSE
  <2>1. k + 1 \in 0..Len(s) /\ \A i \in 1..k + 1 : i \in 1..Len(s)
    BY <1>1
  <2> QED
    BY <1>1, <1>2, <2>1 DEF SoundOf
<1> QED
  BY <1>2

(* mqtt_wire.rs:51-52,73: for every sequence of items, and every way the   *)
(* network cuts their bytes into reads, the packets decoded are those that *)
(* have arrived whole, each once, in order and as they were encoded; one   *)
(* malformed length loses nothing that came before it.                     *)
THEOREM DecodesWhatWasSent == Spec /\ []DecodesWhole => []DecodedAsSent
<1>1. IInv => DecodedAsSent
  <2> SUFFICES ASSUME IInv PROVE DecodedAsSent
    OBVIOUS
  <2> DEFINE s == sending   k == ArrivedOf(sending, read)
  <2>1. s \in Sendings /\ read \in Nat
    <3>1. Len(Stream(s)) \in Nat /\ s \in Sendings
      BY StreamFacts DEF IInv, TypeOK
    <3> QED
      BY <3>1 DEF IInv, TypeOK
  <2>2. k \in 0..Len(s) /\ MeantOf(s, k) \in Seq(Delivered(s))
    BY <2>1, ArrivedFacts, MeantFacts
  <2>3. Sound = SoundOf(s) /\ Meant(Arrived) = MeantOf(s, k)
    BY OfSending
  <2>4. CASE InSync(s, read, buf, out)
    <3>1. out = MeantOf(s, k)
      BY <2>4 DEF InSync
    <3>2. IsPrefix(out, out)
      BY <2>2, <3>1 DEF IsPrefix
    <3> QED
      BY <2>3, <3>1, <3>2 DEF DecodedAsSent
  <2>5. CASE Lost(s, read, out)
    <3>1. Len(s) \notin Sound
      BY <2>1, <2>2, <2>3, <2>5, LostIsUnsound
    <3>2. IsPrefix(MeantOf(s, k), out)
      BY <2>5 DEF Lost
    <3> QED
      BY <2>3, <3>1, <3>2 DEF DecodedAsSent
  <2> QED
    BY <2>4, <2>5 DEF IInv
<1> QED
  BY <1>1, StaysInSync, PTL

(* mqtt_wire.rs:51-52: what the decoder holds back is the packet that is   *)
(* not complete, from its first byte, and nothing else.                    *)
THEOREM HoldsOnlyTheRest == Spec /\ []DecodesWhole => []HoldsTheRest
<1>1. IInv => HoldsTheRest
  <2> SUFFICES ASSUME IInv, Len(sending) \in Sound
               PROVE  buf = SubSeq(Stream(sending),
                                   Len(Stream(SubSeq(sending, 1, Arrived))) + 1, read)
    BY DEF HoldsTheRest
  <2> DEFINE s == sending   k == ArrivedOf(sending, read)
  <2>1. s \in Sendings /\ read \in Nat
    <3>1. Len(Stream(s)) \in Nat /\ s \in Sendings
      BY StreamFacts DEF IInv, TypeOK
    <3> QED
      BY <3>1 DEF IInv, TypeOK
  <2>2. k \in 0..Len(s)
    BY <2>1, ArrivedFacts
  <2>3. Sound = SoundOf(s) /\ Arrived = k
    BY OfSending
  <2>4. ~Lost(s, read, out)
    BY <2>1, <2>2, <2>3, LostIsUnsound
  <2>5. buf = Cut(s, k, read)
    BY <2>4 DEF IInv, InSync
  <2> QED
    BY <2>3, <2>5 DEF Cut, EndOf
<1> QED
  BY <1>1, StaysInSync, PTL

-----------------------------------------------------------------------------
(* frame: the remaining length, seven bits to a byte.                      *)
VarintStep(g, n) == IF n < 128 THEN <<n>> ELSE <<128 + (n % 128)>> \o g[n \div 128]

LEMMA DivMod ==
  ASSUME NEW n \in Nat
  PROVE  /\ n \div 128 \in Nat /\ n % 128 \in 0..127 /\ n % 128 = n - 128 * (n \div 128)
         /\ n >= 128 => n \div 128 < n
<1>1. n \div 128 \in Nat /\ n % 128 \in 0..127
  OBVIOUS
<1>2. n % 128 = n - 128 * (n \div 128)
  BY SMT
<1> QED
  BY <1>1, <1>2

LEMMA VarintExists == \E g \in [Nat -> Seq(Byte)] : \A n \in Nat : g[n] = VarintStep(g, n)
<1> DEFINE size == [n \in Nat |-> n]
           leaf == {n \in Nat : n < 128}
           base == [n \in Nat |-> IF n < 128 THEN <<n>> ELSE <<>>]
           comb == [nv \in Nat \X Seq(Byte) |-> <<128 + (nv[1] % 128)>> \o nv[2]]
           next == [n \in Nat |-> n \div 128]
<1>1. base \in [Nat -> Seq(Byte)]
  <2>1. ASSUME NEW n \in Nat PROVE (IF n < 128 THEN <<n>> ELSE <<>>) \in Seq(Byte)
    <3>1. n < 128 => n \in Byte
      BY DEF Byte
    <3> HIDE DEF Byte
    <3> QED
      BY <3>1, EmptySeq
  <2> QED
    BY <2>1
<1>2. comb \in [Nat \X Seq(Byte) -> Seq(Byte)]
  <2>1. ASSUME NEW nv \in Nat \X Seq(Byte) PROVE <<128 + (nv[1] % 128)>> \o nv[2] \in Seq(Byte)
    <3>1. nv[1] \in Nat /\ nv[2] \in Seq(Byte)
      OBVIOUS
    <3>2. 128 + (nv[1] % 128) \in Byte
      <4>1. nv[1] % 128 \in 0..127
        BY <3>1, DivMod
      <4>2. \A d \in 0..127 : 128 + d \in Byte
        BY DEF Byte
      <4> QED
        BY <4>1, <4>2
    <3> DEFINE d == 128 + (nv[1] % 128)
    <3> HIDE DEF d
    <3>3. <<d>> \in Seq(Byte)
      BY <3>2 DEF d
    <3> QED
      BY <3>1, <3>3, ConcatProperties DEF d
  <2> QED
    BY <2>1
<1>3. size \in [Nat -> Nat] /\ next \in [Nat -> Nat]
  BY DivMod
<1>4. \A n \in Nat : n \notin leaf => size[next[n]] < size[n]
  BY DivMod
<1>5. ASSUME NEW n \in Nat
      PROVE  /\ n < 128 => n \in leaf /\ base[n] = <<n>>
             /\ ~(n < 128) => /\ n \notin leaf /\ next[n] = n \div 128 /\ n \div 128 \in Nat
                              /\ \A v \in Seq(Byte) : comb[<<n, v>>] = <<128 + (n % 128)>> \o v
  BY DivMod
<1> HIDE DEF size, leaf, base, comb, next
<1> DEFINE S == Nat   V == Seq(Byte)
<1>6. IsRecursion(S, V, size, leaf, base, comb, next)
  BY <1>1, <1>2, <1>3, <1>4 DEF IsRecursion
<1>7. PICK g \in [S -> V] : \A n \in S : g[n] = Unfold(g, leaf, base, comb, next, n)
  <2> HIDE DEF S, V
  <2> QED
    BY <1>6, RecursionExists
<1>8. ASSUME NEW n \in Nat PROVE g[n] = VarintStep(g, n)
  <2>1. CASE n < 128
    BY <1>5, <1>7, <2>1 DEF Unfold, VarintStep
  <2>2. CASE ~(n < 128)
    <3>1. n \notin leaf /\ next[n] = n \div 128 /\ g[n \div 128] \in Seq(Byte)
      BY <1>5, <2>2
    <3>2. g[n] = comb[<<n, g[n \div 128]>>]
      BY <1>7, <3>1 DEF Unfold
    <3>3. comb[<<n, g[n \div 128]>>] = <<128 + (n % 128)>> \o g[n \div 128]
      BY <1>5, <2>2, <3>1
    <3> QED
      BY <2>2, <3>2, <3>3 DEF VarintStep
  <2> QED
    BY <2>1, <2>2
<1> QED
  BY <1>7, <1>8

LEMMA VarintIs == \A n \in Nat : Varint[n] = VarintStep(Varint, n)
<1>1. PICK g \in [Nat -> Seq(Byte)] : \A n \in Nat : g[n] = VarintStep(g, n)
  BY VarintExists
<1>2. g = [n \in Nat |-> VarintStep(g, n)]
  BY <1>1
<1>3. \E h : h = [n \in Nat |-> VarintStep(h, n)]
  BY <1>2
<1>4. Varint = [n \in Nat |-> VarintStep(Varint, n)]
  BY <1>3, Zenon DEF Varint, VarintStep
<1> QED
  BY <1>4

(* Four digits at most, least significant first: what n is, and that only  *)
(* the last byte is below 128.                                             *)
Place(v, i) == IF i <= Len(v) THEN v[i] % 128 ELSE 0
Carries(v, n, k) ==
  /\ v \in Seq(Byte) /\ Len(v) \in 1..k /\ v[Len(v)] < 128
  /\ \A i \in 1..Len(v) : i # Len(v) => v[i] >= 128
  /\ n = Place(v, 1) + Place(v, 2) * 128 + Place(v, 3) * 16384 + Place(v, 4) * 2097152
Lead(n, v) == <<128 + (n % 128)>> \o v

LEMMA LeadFacts ==
  ASSUME NEW n \in Nat, NEW v \in Seq(Byte)
  PROVE  /\ Lead(n, v) \in Seq(Byte) /\ Len(Lead(n, v)) = Len(v) + 1
         /\ Lead(n, v)[1] = 128 + (n % 128)
         /\ \A i \in 1..Len(v) : Lead(n, v)[i + 1] = v[i]
<1> DEFINE d == 128 + (n % 128)
<1>1. d \in Byte
  <2>1. \A e \in 0..127 : 128 + e \in Byte
    BY DEF Byte
  <2> QED
    BY <2>1, DivMod
<1> HIDE DEF d
<1>2. <<d>> \in Seq(Byte) /\ Len(<<d>>) = 1 /\ <<d>>[1] = d
  BY <1>1
<1> DEFINE one == <<d>>
<1> HIDE DEF one
<1>3. one \in Seq(Byte) /\ Len(one) = 1 /\ one[1] = d
  BY <1>2 DEF one
<1>4. /\ one \o v \in Seq(Byte) /\ Len(one \o v) = Len(v) + 1 /\ (one \o v)[1] = d
      /\ \A i \in 1..Len(v) : (one \o v)[i + 1] = v[i]
  <2>1. /\ one \o v \in Seq(Byte) /\ Len(one \o v) = Len(one) + Len(v)
        /\ \A i \in 1..(Len(one) + Len(v)) :
             (one \o v)[i] = IF i <= Len(one) THEN one[i] ELSE v[i - Len(one)]
    BY <1>3, ConcatProperties
  <2>2. Len(v) \in Nat
    OBVIOUS
  <2> DEFINE w == one \o v
  <2> HIDE DEF w
  <2>3. w[1] = d /\ Len(w) = Len(v) + 1 /\ w \in Seq(Byte)
    BY <1>3, <2>1, <2>2 DEF w
  <2>4. ASSUME NEW i \in 1..Len(v) PROVE w[i + 1] = v[i]
    <3>1. i + 1 \in 1..(Len(one) + Len(v)) /\ ~(i + 1 <= Len(one)) /\ (i + 1) - Len(one) = i
      BY <1>3, <2>2
    <3> QED
      BY <2>1, <3>1 DEF w
  <2> QED
    BY <2>3, <2>4 DEF w
<1> QED
  BY <1>4 DEF Lead, one, d

LEMMA CarriesOne ==
  ASSUME NEW n \in Nat, n < 128
  PROVE  Carries(<<n>>, n, 1)
<1>1. n \in Byte /\ n % 128 = n
  BY DEF Byte
<1> DEFINE v == <<n>>
<1>2. v \in Seq(Byte) /\ Len(v) = 1 /\ v[1] = n
  BY <1>1
<1> HIDE DEF v
<1>3. Place(v, 1) = n /\ Place(v, 2) = 0 /\ Place(v, 3) = 0 /\ Place(v, 4) = 0
  BY <1>1, <1>2 DEF Place
<1>4. Carries(v, n, 1)
  BY <1>2, <1>3 DEF Carries
<1> QED
  BY <1>4 DEF v

LEMMA CarriesMore ==
  ASSUME NEW n \in Nat, n >= 128, NEW v, NEW k \in 1..3, Carries(v, n \div 128, k)
  PROVE  Carries(Lead(n, v), n, k + 1)
<1> DEFINE w == Lead(n, v)   m == n \div 128   d == n % 128
<1>1. /\ v \in Seq(Byte) /\ Len(v) \in 1..k /\ v[Len(v)] < 128
      /\ \A i \in 1..Len(v) : i # Len(v) => v[i] >= 128
      /\ m = Place(v, 1) + Place(v, 2) * 128 + Place(v, 3) * 16384 + Place(v, 4) * 2097152
  BY DEF Carries
<1>2. /\ w \in Seq(Byte) /\ Len(w) = Len(v) + 1 /\ w[1] = 128 + d
      /\ \A i \in 1..Len(v) : w[i + 1] = v[i]
  <2>1. v \in Seq(Byte)
    BY <1>1
  <2>2. w \in Seq(Byte) /\ Len(w) = Len(v) + 1
    BY <2>1, LeadFacts
  <2>3. w[1] = 128 + d
    BY <2>1, LeadFacts
  <2>4. ASSUME NEW i \in 1..Len(v) PROVE w[i + 1] = v[i]
    BY <2>1, LeadFacts
  <2> QED
    BY <2>2, <2>3, <2>4
<1>3. m \in Nat /\ d \in 0..127 /\ n = 128 * m + d /\ (128 + d) % 128 = d
  <2>1. m \in Nat /\ d \in 0..127 /\ d = n - 128 * m
    BY DivMod
  <2>2. \A e \in 0..127 : (128 + e) % 128 = e
    OBVIOUS
  <2> HIDE DEF m, d
  <2> QED
    BY <2>1, <2>2
<1> HIDE DEF w, m, d
<1>4. \A i \in 1..3 : Place(w, i + 1) = Place(v, i)
  BY <1>1, <1>2 DEF Place
<1>5. Place(w, 1) = d
  BY <1>1, <1>2, <1>3 DEF Place
<1>6. Place(v, 4) = 0
  BY <1>1 DEF Place
<1>7. \A i \in 1..3 : Place(v, i) \in Nat
  <2>1. \A x \in Byte : x % 128 \in Nat
    BY DEF Byte
  <2>2. \A i \in 1..Len(v) : v[i] \in Byte
    BY <1>1
  <2> HIDE DEF Byte
  <2> QED
    BY <1>1, <2>1, <2>2 DEF Place
<1>8. n = Place(w, 1) + Place(w, 2) * 128 + Place(w, 3) * 16384 + Place(w, 4) * 2097152
  <2>1. Place(w, 2) = Place(v, 1) /\ Place(w, 3) = Place(v, 2) /\ Place(w, 4) = Place(v, 3)
    <3>1. Place(w, 1 + 1) = Place(v, 1) /\ Place(w, 2 + 1) = Place(v, 2) /\ Place(w, 3 + 1) = Place(v, 3)
      BY <1>4
    <3> QED
      BY <3>1
  <2> DEFINE a == Place(v, 1)   b == Place(v, 2)   c == Place(v, 3)
  <2>2. a \in Nat /\ b \in Nat /\ c \in Nat
    BY <1>7
  <2>3. m = a + b * 128 + c * 16384
    <3>1. m = a + b * 128 + c * 16384 + Place(v, 4) * 2097152
      BY <1>1
    <3> HIDE DEF a, b, c
    <3> QED
      BY <1>6, <2>2, <3>1, SMT
  <2> HIDE DEF a, b, c
  <2>4. n = d + a * 128 + b * 16384 + c * 2097152
    BY <1>3, <2>2, <2>3, SMT
  <2> QED
    BY <1>5, <2>1, <2>4 DEF a, b, c
<1>9. \A i \in 1..Len(w) : i # Len(w) => w[i] >= 128
  <2> SUFFICES ASSUME NEW i \in 1..Len(w), i # Len(w) PROVE w[i] >= 128
    OBVIOUS
  <2>1. CASE i = 1
    BY <1>2, <1>3, <2>1
  <2>2. CASE i # 1
    <3>0. \A at \in 1..Len(v) : at # Len(v) => v[at] >= 128
      BY <1>1
    <3>1. i - 1 \in 1..Len(v) /\ i - 1 # Len(v) /\ (i - 1) + 1 = i
      BY <1>1, <1>2, <2>2
    <3>2. v[i - 1] >= 128
      BY <3>0, <3>1
    <3>3. w[(i - 1) + 1] = v[i - 1]
      BY <1>2, <3>1
    <3> QED
      BY <3>1, <3>2, <3>3
  <2> QED
    BY <2>1, <2>2
<1>10. Len(w) \in 1..(k + 1) /\ w[Len(w)] < 128
  <2>1. Len(v) \in 1..Len(v) /\ Len(w) = Len(v) + 1
    BY <1>1, <1>2
  <2> QED
    BY <1>1, <1>2, <2>1
<1>11. Carries(w, n, k + 1)
  BY <1>2, <1>8, <1>9, <1>10 DEF Carries
<1> QED
  BY <1>11 DEF w

LEMMA CarriesWider ==
  ASSUME NEW v, NEW n, NEW j \in Nat, NEW k \in Nat, j <= k, Carries(v, n, j)
  PROVE  Carries(v, n, k)
BY DEF Carries

Fits(most, k) == \A n \in Nat : n < most => Carries(Varint[n], n, k)

LEMMA FitsOne == Fits(128, 1)
<1>1. ASSUME NEW n \in Nat, n < 128 PROVE Carries(Varint[n], n, 1)
  <2>1. Varint[n] = <<n>>
    BY <1>1, VarintIs DEF VarintStep
  <2> QED
    BY <1>1, <2>1, CarriesOne
<1> QED
  BY <1>1 DEF Fits

LEMMA FitsMore ==
  ASSUME NEW most \in Nat, NEW k \in 1..3, Fits(most, k)
  PROVE  Fits(128 * most, k + 1)
<1>1. ASSUME NEW n \in Nat, n < 128 * most PROVE Carries(Varint[n], n, k + 1)
  <2>1. CASE n < 128
    <3>1. Carries(Varint[n], n, 1) /\ 1 \in Nat /\ k + 1 \in Nat /\ 1 <= k + 1
      BY <2>1, FitsOne DEF Fits
    <3> QED
      BY <3>1, CarriesWider
  <2>2. CASE ~(n < 128)
    <3>1. /\ n \div 128 \in Nat /\ n % 128 \in 0..127 /\ n % 128 = n - 128 * (n \div 128)
          /\ n >= 128
      BY <2>2, DivMod
    <3> DEFINE m == n \div 128   d == n % 128
    <3>2. m \in Nat /\ d \in 0..127 /\ d = n - 128 * m
      BY <3>1
    <3>3. Varint[n] = Lead(n, Varint[m])
      <4>1. Varint[n] = VarintStep(Varint, n)
        BY VarintIs
      <4> QED
        BY <2>2, <4>1 DEF VarintStep, Lead
    <3>4. m < most
      <4> HIDE DEF m, d
      <4> QED
        BY <1>1, <3>2
    <3>5. Carries(Varint[m], m, k)
      BY <3>2, <3>4 DEF Fits
    <3>6. Carries(Lead(n, Varint[m]), n, k + 1)
      BY <3>1, <3>5, CarriesMore
    <3> QED
      BY <3>3, <3>6
  <2> QED
    BY <2>1, <2>2
<1> QED
  BY <1>1 DEF Fits

LEMMA VarintCarries == \A n \in Nat : n < 268435456 => Carries(Varint[n], n, 4)
<1> DEFINE p2 == 128 * 128   p3 == 128 * p2   p4 == 128 * p3
<1>1. Fits(p2, 1 + 1)
  BY FitsOne, FitsMore
<1>2. p2 \in Nat /\ p3 \in Nat
  BY SMT
<1> HIDE DEF p2
<1>3. 1 + 1 \in 1..3 /\ 1 + 1 + 1 \in 1..3 /\ 1 + 1 + 1 + 1 = 4
  OBVIOUS
<1>4. Fits(p3, 1 + 1 + 1)
  BY <1>1, <1>2, <1>3, FitsMore, Zenon
<1> HIDE DEF p3
<1>5. Fits(p4, 1 + 1 + 1 + 1)
  BY <1>2, <1>3, <1>4, FitsMore, Zenon
<1>6. p4 = 268435456
  BY SMT DEF p2, p3
<1> HIDE DEF p4
<1>7. Fits(p4, 4)
  BY <1>3, <1>5
<1> QED
  BY <1>6, <1>7, SMT DEF Fits

(* frame and next_frame: what is framed is read as one frame, of exactly   *)
(* its bytes and with the body it was given.                               *)
MaxBody == 268435456

Joined(w, u, v) ==
  /\ w \in Seq(Byte) /\ Len(w) = Len(u) + Len(v)
  /\ \A i \in 1..Len(u) : w[i] = u[i]
  /\ \A i \in 1..Len(v) : w[Len(u) + i] = v[i]
  /\ SubSeq(w, Len(u) + 1, Len(w)) = v

LEMMA Join ==
  ASSUME NEW u \in Seq(Byte), NEW v \in Seq(Byte)
  PROVE  Joined(u \o v, u, v)
<1> DEFINE w == u \o v
<1>1. /\ w \in Seq(Byte) /\ Len(w) = Len(u) + Len(v)
      /\ \A i \in 1..(Len(u) + Len(v)) : w[i] = IF i <= Len(u) THEN u[i] ELSE v[i - Len(u)]
  BY ConcatProperties
<1>2. SubSeq(w, Len(u) + 1, Len(w)) = v
  BY ConcatTail
<1>3. Len(u) \in Nat /\ Len(v) \in Nat
  OBVIOUS
<1> HIDE DEF w
<1>4. \A i \in 1..Len(u) : w[i] = u[i]
  BY <1>1, <1>3
<1>5. ASSUME NEW i \in 1..Len(v) PROVE w[Len(u) + i] = v[i]
  <2>1. /\ Len(u) + i \in 1..(Len(u) + Len(v)) /\ ~(Len(u) + i <= Len(u))
        /\ (Len(u) + i) - Len(u) = i
    BY <1>3
  <2> QED
    BY <1>1, <2>1
<1>6. Joined(w, u, v)
  BY <1>1, <1>2, <1>4, <1>5 DEF Joined
<1> QED
  BY <1>6 DEF w

IsFrame(w, header, v, body) ==
  /\ w \in Seq(Byte) /\ Len(w) = 1 + Len(v) + Len(body) /\ w[1] = header
  /\ \A i \in 1..Len(v) : w[1 + i] = v[i]
  /\ SubSeq(w, 1 + Len(v) + 1, Len(w)) = body

LEMMA Framing ==
  ASSUME NEW header \in Byte, NEW v \in Seq(Byte), NEW body \in Seq(Byte)
  PROVE  IsFrame(<<header>> \o v \o body, header, v, body)
<1> DEFINE one == <<header>>   u == one \o v   w == u \o body
<1>1. one \in Seq(Byte) /\ Len(one) = 1 /\ one[1] = header
  OBVIOUS
<1>2. Len(v) \in Nat /\ Len(body) \in Nat
  OBVIOUS
<1> HIDE DEF one
<1>3. Joined(u, one, v)
  BY <1>1, Join
<1> HIDE DEF u
<1>4. u \in Seq(Byte) /\ Len(u) = 1 + Len(v) /\ u[1] = header /\ \A i \in 1..Len(v) : u[1 + i] = v[i]
  BY <1>1, <1>3 DEF Joined
<1>5. Joined(w, u, body)
  BY <1>4, Join
<1> HIDE DEF w
<1>6. IsFrame(w, header, v, body)
  <2>1. w \in Seq(Byte) /\ Len(w) = 1 + Len(v) + Len(body) /\ SubSeq(w, 1 + Len(v) + 1, Len(w)) = body
    BY <1>4, <1>5 DEF Joined
  <2>2. \A i \in 1..(1 + Len(v)) : w[i] = u[i]
    BY <1>4, <1>5 DEF Joined
  <2>3. w[1] = header
    BY <1>2, <1>4, <2>2
  <2>4. ASSUME NEW i \in 1..Len(v) PROVE w[1 + i] = v[i]
    <3>1. 1 + i \in 1..(1 + Len(v))
      BY <1>2
    <3> QED
      BY <1>4, <2>2, <3>1
  <2> QED
    BY <2>1, <2>3, <2>4 DEF IsFrame
<1> QED
  BY <1>6 DEF w, u, one

LEMMA FrameRead ==
  ASSUME NEW header \in Byte, NEW body \in Seq(Byte), Len(body) < MaxBody
  PROVE  NextFrame(Frame(header, body)) =
           [total |-> Len(Frame(header, body)),
            packet |-> DecodeBody(header \div 16, header % 16, body)]
<1> DEFINE v == Varint[Len(body)]   w == Frame(header, body)   end == Len(v) + 1
<1>1. Len(body) \in Nat /\ Carries(v, Len(body), 4)
  BY VarintCarries DEF MaxBody
<1>2. v \in Seq(Byte) /\ Len(v) \in 1..4 /\ v[Len(v)] < 128
  BY <1>1 DEF Carries
<1>3. \A i \in 1..Len(v) : i # Len(v) => v[i] >= 128
  BY <1>1 DEF Carries
<1> HIDE DEF v
<1>4. /\ w \in Seq(Byte) /\ Len(w) = 1 + Len(v) + Len(body) /\ w[1] = header
      /\ \A i \in 1..Len(v) : w[1 + i] = v[i]
      /\ SubSeq(w, 1 + Len(v) + 1, Len(w)) = body
  <2>1. IsFrame(<<header>> \o v \o body, header, v, body)
    BY <1>2, Framing
  <2>2. w = <<header>> \o v \o body
    BY DEF Frame, v
  <2> HIDE DEF w
  <2>3. IsFrame(w, header, v, body)
    BY <2>1, <2>2, Zenon
  <2> QED
    BY <2>3 DEF IsFrame
<1> HIDE DEF w
<1>5. end \in Ends(w)
  <2> DEFINE n == Len(v)   m == Len(body)
  <2>0. n \in 1..4 /\ m \in Nat /\ Len(w) = 1 + n + m
    BY <1>1, <1>2, <1>4
  <2> HIDE DEF n, m
  <2>1. n + 1 \in 2..5 /\ n + 1 <= Len(w) /\ n \in 1..n /\ n + 1 = 1 + n
    BY <2>0
  <2>2. Len(v) \in 1..Len(v) /\ end = 1 + Len(v) /\ end \in 2..5 /\ end <= Len(w)
    BY <2>1 DEF n
  <2>3. w[1 + Len(v)] = v[Len(v)]
    BY <1>4, <2>2
  <2>4. w[end] < 128
    BY <1>2, <2>2, <2>3
  <2> HIDE DEF end
  <2> QED
    BY <1>4, <2>2, <2>4, EndsFacts
<1>6. ASSUME NEW j \in Ends(w), j < end PROVE FALSE
  <2>1. j \in 2..5 /\ w[j] < 128
    BY <1>4, EndsFacts
  <2>2. j - 1 \in 1..Len(v) /\ j - 1 # Len(v) /\ 1 + (j - 1) = j
    BY <1>2, <1>6, <2>1
  <2>3. w[j] = v[j - 1] /\ v[j - 1] >= 128 /\ v[j - 1] \in 0..255
    BY <1>2, <1>3, <1>4, <2>2, ByteAt
  <2> DEFINE x == w[j]
  <2>4. x < 128 /\ x >= 128 /\ x \in Int
    BY <2>1, <2>3
  <2> HIDE DEF x
  <2> QED
    BY <2>4
<1>7. End(w) = end
  <2>1. End(w) \in Ends(w) /\ End(w) <= end
    BY <1>4, <1>5, EndFacts
  <2>2. ~(End(w) < end)
    BY <1>6, <2>1
  <2>3. End(w) \in 2..5
    BY <1>4, <2>1, EndsFacts
  <2> QED
    BY <1>2, <2>1, <2>2, <2>3
<1>8. ASSUME NEW i \in 1..4, NEW mult PROVE Digit(w, end, i + 1, mult) = IF i <= Len(v) THEN (v[i] % 128) * mult ELSE 0
  <2>1. i <= Len(v) <=> i + 1 <= end
    BY <1>2
  <2>2. i <= Len(v) => w[1 + i] = v[i] /\ 1 + i = i + 1
    BY <1>2, <1>4
  <2> QED
    BY <2>1, <2>2 DEF Digit
<1>9. \A i \in 1..4 : Place(v, i) \in Nat
  <2>1. \A x \in Byte : x % 128 \in Nat
    BY DEF Byte
  <2>2. \A i \in 1..Len(v) : v[i] \in Byte
    BY <1>2
  <2> HIDE DEF Byte
  <2> QED
    BY <1>2, <2>1, <2>2 DEF Place
<1>10. \A i \in 1..4 : \A mult \in Nat : Digit(w, end, i + 1, mult) = Place(v, i) * mult
  BY <1>8, <1>9 DEF Place
<1>11. /\ Digit(w, end, 2, 1) = Place(v, 1) * 1
       /\ Digit(w, end, 3, 128) = Place(v, 2) * 128
       /\ Digit(w, end, 4, 16384) = Place(v, 3) * 16384
       /\ Digit(w, end, 5, 2097152) = Place(v, 4) * 2097152
  <2>1. /\ Digit(w, end, 1 + 1, 1) = Place(v, 1) * 1
        /\ Digit(w, end, 2 + 1, 128) = Place(v, 2) * 128
        /\ Digit(w, end, 3 + 1, 16384) = Place(v, 3) * 16384
        /\ Digit(w, end, 4 + 1, 2097152) = Place(v, 4) * 2097152
    BY <1>10, SMT
  <2> QED
    BY <2>1, SMT
<1>12. Length(w, end) = Len(body)
  <2>1. Len(body) = Place(v, 1) + Place(v, 2) * 128 + Place(v, 3) * 16384 + Place(v, 4) * 2097152
    BY <1>1, SMT DEF Carries
  <2> DEFINE a == Place(v, 1)   b == Place(v, 2)   c == Place(v, 3)   d == Place(v, 4)
  <2>2. a \in Nat /\ b \in Nat /\ c \in Nat /\ d \in Nat
    BY <1>9
  <2> HIDE DEF a, b, c, d
  <2>3. Length(w, end) = a * 1 + b * 128 + c * 16384 + d * 2097152
    BY <1>11, SMT DEF Length, a, b, c, d
  <2>4. Len(body) = a + b * 128 + c * 16384 + d * 2097152
    BY <2>1, SMT DEF a, b, c, d
  <2> QED
    BY <2>2, <2>3, <2>4, SMT
<1> HIDE DEF end
<1>13. end + Length(w, end) = Len(w) /\ end = 1 + Len(v) /\ end \in Nat
  BY <1>1, <1>2, <1>4, <1>12 DEF end
<1>14. Body(w) = body
  <2>1. Body(w) = SubSeq(w, end + 1, Len(w))
    BY <1>7, <1>13 DEF Body
  <2> QED
    BY <1>4, <1>13, <2>1
<1>15. PacketOf(w) = DecodeBody(header \div 16, header % 16, body)
  BY <1>4, <1>14 DEF PacketOf
<1>16. Ends(w) # {} /\ ~(Len(w) < End(w) + Length(w, End(w))) /\ End(w) + Length(w, End(w)) = Len(w)
  <2>1. Len(w) \in Nat
    BY <1>4
  <2> QED
    BY <1>5, <1>7, <1>13, <2>1
<1>17. NextFrame(w) = [total |-> End(w) + Length(w, End(w)), packet |-> PacketOf(w)]
  BY <1>16, NextFrameIs
<1> QED
  BY <1>15, <1>16, <1>17 DEF w

(* encode_publish: a length in two bytes, high byte first, is read back.   *)
MaxText == 65536

LEMMA WordOf ==
  ASSUME NEW n \in Nat, n < MaxText
  PROVE  /\ (n \div 256) % 256 \in Byte /\ n % 256 \in Byte
         /\ ((n \div 256) % 256) * 256 + (n % 256) = n
<1> DEFINE d == n \div 256   r == n % 256
<1>1. d \in Nat /\ d < 256
  BY SMT DEF MaxText
<1>2. r \in Nat /\ r < 256
  BY SMT
<1>3. r = n - 256 * d
  BY SMT
<1> HIDE DEF d, r
<1>4. d % 256 = d
  BY <1>1, SMT
<1>5. d \in Byte /\ r \in Byte
  BY <1>1, <1>2, SMT DEF Byte
<1>6. d * 256 + r = n
  BY <1>1, <1>2, <1>3, SMT
<1>7. d % 256 \in Byte /\ r \in Byte /\ (d % 256) * 256 + r = n
  BY <1>4, <1>5, <1>6
<1> QED
  BY <1>7 DEF d, r

LEMMA TextRead ==
  ASSUME NEW topic \in Seq(Byte), NEW rest \in Seq(Byte), Len(topic) < MaxText
  PROVE  /\ Joined(Text(topic) \o rest, Text(topic), rest)
         /\ Text(topic) \in Seq(Byte) /\ Len(Text(topic)) = 2 + Len(topic)
         /\ ReadBytes(Text(topic) \o rest, 0) = [bytes |-> topic, off |-> 2 + Len(topic)]
<1> DEFINE hi == (Len(topic) \div 256) % 256   lo == Len(topic) % 256   two == <<hi, lo>>
           u == two \o topic   w == u \o rest
<1>1. hi \in Byte /\ lo \in Byte /\ hi * 256 + lo = Len(topic)
  <2> DEFINE n == Len(topic)
  <2>1. n \in Nat /\ n < MaxText
    OBVIOUS
  <2> HIDE DEF n
  <2>2. /\ (n \div 256) % 256 \in Byte /\ n % 256 \in Byte
        /\ ((n \div 256) % 256) * 256 + (n % 256) = n
    BY <2>1, WordOf, Zenon
  <2> QED
    BY <2>2 DEF n
<1>2. Len(topic) \in Nat /\ Len(rest) \in Nat
  OBVIOUS
<1> HIDE DEF hi, lo
<1>3. two \in Seq(Byte) /\ Len(two) = 2 /\ two[1] = hi /\ two[2] = lo
  BY <1>1
<1> HIDE DEF two
<1>4. Joined(u, two, topic)
  BY <1>3, Join
<1> HIDE DEF u
<1>5. /\ u \in Seq(Byte) /\ Len(u) = 2 + Len(topic) /\ u[1] = hi /\ u[2] = lo
      /\ SubSeq(u, 3, Len(u)) = topic
  <2>1. Len(two) + 1 = 3 /\ 1 \in 1..Len(two) /\ 2 \in 1..Len(two)
    BY <1>3
  <2> QED
    BY <1>3, <1>4, <2>1 DEF Joined
<1>6. Joined(w, u, rest)
  BY <1>5, Join
<1> HIDE DEF w
<1>7. /\ w \in Seq(Byte) /\ Len(w) = 2 + Len(topic) + Len(rest)
      /\ \A i \in 1..Len(u) : w[i] = u[i]
  BY <1>5, <1>6 DEF Joined
<1>8. Word(w, 1) = Len(topic)
  <2>1. 1 \in 1..Len(u) /\ 2 \in 1..Len(u) /\ 1 + 1 = 2
    BY <1>2, <1>5
  <2>2. w[1] = hi /\ w[1 + 1] = lo
    BY <1>5, <1>7, <2>1
  <2> QED
    BY <1>1, <2>2 DEF Word
<1>9. SubSeq(w, 3, 2 + Len(topic)) = topic
  <2>1. CASE Len(topic) = 0
    <3>1. SubSeq(u, 3, 2) = topic
      BY <1>5, <2>1
    <3>2. SubSeq(u, 3, 2) = <<>> /\ SubSeq(w, 3, 2) = <<>>
      BY <1>5, <1>7, SubSeqEmpty
    <3> QED
      BY <2>1, <3>1, <3>2
  <2>2. CASE Len(topic) # 0
    <3> DEFINE t == 2 + Len(topic)
    <3>1. t \in Nat /\ t >= 3 /\ t <= Len(w) /\ t = Len(u)
      BY <1>2, <1>5, <1>7, <2>2
    <3> HIDE DEF t
    <3>2. \A i \in 3..t : w[i] = u[i]
      BY <1>7, <3>1
    <3>3. SubSeq(w, 3, t) = SubSeq(u, 3, t)
      BY <1>5, <1>7, <3>1, <3>2
    <3> QED
      BY <1>5, <3>1, <3>3 DEF t
  <2> QED
    BY <2>1, <2>2
<1>10. ReadBytes(w, 0) = [bytes |-> topic, off |-> 2 + Len(topic)]
  <2>1. 0 + 1 = 1 /\ 0 + 2 = 2 /\ 0 + 3 = 3 /\ ~(0 < 0) /\ ~(2 > Len(w)) /\ ~(2 + Len(topic) > Len(w))
    BY <1>2, <1>7
  <2>2. Word(w, 0 + 1) = Len(topic)
    BY <1>8, <2>1
  <2>3. 0 + 2 + Word(w, 0 + 1) = 2 + Len(topic)
    BY <1>2, <2>2
  <2>4. ReadBytes(w, 0) = [bytes |-> SubSeq(w, 3, 2 + Len(topic)), off |-> 2 + Len(topic)]
    BY <2>1, <2>3 DEF ReadBytes
  <2> QED
    BY <1>9, <2>4
<1>11. Text(topic) = u
  BY DEF Text, u, two, hi, lo
<1>12. Joined(w, Text(topic), rest) /\ ReadBytes(w, 0) = [bytes |-> topic, off |-> 2 + Len(topic)]
  BY <1>6, <1>10, <1>11
<1>13. w = Text(topic) \o rest
  BY <1>11 DEF w
<1>14. Text(topic) \in Seq(Byte) /\ Len(Text(topic)) = 2 + Len(topic)
  BY <1>5, <1>11
<1> HIDE DEF w
<1> QED
  BY <1>12, <1>13, <1>14, Zenon

-----------------------------------------------------------------------------
(* from_utf8_lossy: what it gives is bytes, and those of a UTF-8 text.     *)
LEMMA ConvertedTypes ==
  ASSUME NEW b \in Seq(Byte), NEW i \in 1..Len(b)
  PROVE  /\ Converted(b, i) \in Seq(Byte)
         /\ Width(b[i]) \in 0..4
         /\ Character(b, i) => i + Width(b[i]) - 1 <= Len(b)
<1>1. Len(b) \in Nat /\ i \in Nat /\ b[i] \in Nat
  <2>1. Len(b) \in Nat /\ b[i] \in Byte
    OBVIOUS
  <2>2. \A x \in Byte : x \in Nat
    BY DEF Byte
  <2> QED
    BY <2>1, <2>2
<1>2. Width(b[i]) \in 0..4
  BY <1>1 DEF Width
<1>3. Character(b, i) => Width(b[i]) > 0 /\ i + Width(b[i]) - 1 <= Len(b)
  BY DEF Character, Starts
<1>4. Character(b, i) => SubSeq(b, i, i + Width(b[i]) - 1) \in Seq(Byte)
  BY <1>1, <1>2, <1>3, SubSeqProperties
<1>5. <<>> \in Seq(Byte) /\ <<239, 191, 189>> \in Seq(Byte)
  BY DEF Byte
<1> QED
  BY <1>2, <1>3, <1>4, <1>5 DEF Converted

LEMMA LossyIs ==
  ASSUME NEW b \in Seq(Byte)
  PROVE  \E F : /\ F \in [0..Len(b) -> Seq(Byte)] /\ F[0] = <<>> /\ Lossy(b) = F[Len(b)]
               /\ \A i \in 1..Len(b) : F[i] = F[i - 1] \o Converted(b, i)
<1> DEFINE n == Len(b)   q == [i \in 1..n |-> Converted(b, i)]
<1>1. n \in Nat /\ \A i \in 1..n : Converted(b, i) \in Seq(Byte)
  BY ConvertedTypes
<1>2. q \in Seq(Seq(Byte)) /\ Len(q) = n /\ \A i \in 1..n : q[i] = Converted(b, i)
  <2> HIDE DEF n
  <2> QED
    BY <1>1
<1>3. Lossy(b) = FlattenSeq(q)
  BY DEF Lossy
<1> HIDE DEF n, q
<1>4. PICK F : IsFlat(F, q, Byte)
  BY <1>2, FlatExists
<1>5. FlattenSeq(q) = F[Len(q)]
  BY <1>1, <1>2, <1>4, FlattenIs
<1> QED
  BY <1>2, <1>3, <1>4, <1>5 DEF IsFlat, n

LEMMA LossyTypes == ASSUME NEW b \in Seq(Byte) PROVE Lossy(b) \in Seq(Byte)
<1>1. Len(b) \in 0..Len(b)
  OBVIOUS
<1> QED
  BY <1>1, LossyIs

(* A byte inside of a character begins none.                               *)
LEMMA InsideBeginsNone ==
  ASSUME NEW lead \in Byte, NEW x, x \in Second(lead) \/ x \in Trail
  PROVE  x \in Trail /\ Width(x) = 0
<1>1. x \in Trail
  BY DEF Second, Trail, Byte
<1> QED
  BY <1>1 DEF Width, Trail

(* After a character comes the first byte of the next.                     *)
LEMMA CharacterEnds ==
  ASSUME NEW b \in Seq(Byte), NEW i \in 1..Len(b), ~Inside(b, i), Character(b, i)
  PROVE  /\ Width(b[i]) >= 1
         /\ \A j \in 1..Width(b[i]) - 1 : Inside(b, i + j)
         /\ ~Inside(b, i + Width(b[i]))
<1> DEFINE w == Width(b[i])
<1>1. /\ w \in 1..4 /\ Len(b) \in Nat /\ i \in Nat /\ i >= 1 /\ i + w - 1 <= Len(b)
      /\ \A k \in 1..Len(b) : b[k] \in Byte
  BY ConvertedTypes DEF Character
<1>2. \A j \in 1..w - 1 : b[i + j] \in (IF j = 1 THEN Second(b[i]) ELSE Trail)
  BY DEF Character, Starts
<1> HIDE DEF w
<1>3. ASSUME NEW j \in 1..w - 1 PROVE Inside(b, i + j)
  <2>1. j \in 1..3 /\ j < i + j /\ (i + j) - j = i /\ i + (j + 1) - 1 <= Len(b) /\ j + 1 <= w
        /\ \A m \in 1..(j + 1) - 1 : m \in 1..w - 1
    BY <1>1
  <2>2. Starts(b, i, j + 1)
    BY <1>2, <2>1 DEF Starts, w
  <2>3. Starts(b, (i + j) - j, j + 1)
    BY <2>1, <2>2
  <2> QED
    BY <2>1, <2>3 DEF Inside
<1>4. ASSUME NEW k \in 1..3, k < i + w, Starts(b, (i + w) - k, k + 1) PROVE FALSE
  <2> DEFINE p == (i + w) - k
  <2>1. p \in 1..(i + w - 1) /\ p \in 1..Len(b) /\ p + k = i + w
    BY <1>1, <1>4
  <2>2. /\ p + (k + 1) - 1 <= Len(b) /\ k + 1 <= Width(b[p])
        /\ \A j \in 1..(k + 1) - 1 : b[p + j] \in (IF j = 1 THEN Second(b[p]) ELSE Trail)
    BY <1>4 DEF Starts
  <2> HIDE DEF p
  <2>3. CASE p = i
    <3>1. k = w
      BY <1>1, <2>1, <2>3
    <3>2. k + 1 <= w
      BY <2>2, <2>3 DEF w
    <3> QED
      BY <3>1, <3>2
  <2>4. CASE p > i
    <3>1. p - i \in 1..w - 1 /\ i + (p - i) = p
      BY <1>1, <2>1, <2>4
    <3>2. b[p] \in (IF p - i = 1 THEN Second(b[i]) ELSE Trail)
      BY <1>2, <3>1
    <3>3. b[i] \in Byte
      BY <1>1
    <3>4. Width(b[p]) = 0
      BY <3>2, <3>3, InsideBeginsNone
    <3> QED
      BY <2>2, <3>4
  <2>5. CASE p < i
    <3> DEFINE m == i - p
    <3>1. /\ m \in 1..3 /\ m < i /\ i - m = p /\ m + 1 <= k + 1 /\ p + (m + 1) - 1 <= Len(b)
          /\ \A j \in 1..(m + 1) - 1 : j \in 1..(k + 1) - 1
      BY <1>1, <2>1, <2>5
    <3> HIDE DEF m
    <3>2. m + 1 <= Width(b[p])
      <4>1. Width(b[p]) \in 0..4
        BY <2>1, ConvertedTypes
      <4> QED
        BY <2>2, <3>1, <4>1
    <3>3. Starts(b, p, m + 1)
      BY <2>2, <3>1, <3>2 DEF Starts
    <3>4. Starts(b, i - m, m + 1)
      BY <3>1, <3>3
    <3>5. Inside(b, i)
      BY <3>1, <3>4 DEF Inside
    <3> QED
      BY <3>5
  <2> QED
    BY <1>1, <2>1, <2>3, <2>4, <2>5
<1>5. ~Inside(b, i + w)
  BY <1>4 DEF Inside
<1> QED
  BY <1>1, <1>3, <1>5 DEF w

(* mqtt_wire.rs:164,229-231: from_utf8_lossy leaves a UTF-8 text as it is, *)
(* characters of every width included.                                     *)
THEOREM Utf8IsKept ==
  ASSUME NEW b \in Seq(Byte), Utf8(b)
  PROVE  Lossy(b) = b
<1> DEFINE n == Len(b)
           Within(i, e) == \A j \in i + 1..e : Inside(b, j)
           Upto(F, i) == \E e \in i..n : /\ F[i] = SubSeq(b, 1, e) /\ Within(i, e)
                                         /\ ~Inside(b, e + 1)
<1>1. PICK F : /\ F \in [0..n -> Seq(Byte)] /\ F[0] = <<>> /\ Lossy(b) = F[n]
               /\ \A i \in 1..n : F[i] = F[i - 1] \o Converted(b, i)
  BY LossyIs
<1> DEFINE Good == {i \in Nat : i <= n => Upto(F, i)}
<1>2. n \in Nat /\ \A i \in 1..n : Inside(b, i) \/ Character(b, i)
  BY DEF Utf8
<1> HIDE DEF n
<1>3. 0 \in Good
  <2>1. ~Inside(b, 0 + 1)
    BY DEF Inside
  <2>2. SubSeq(b, 1, 0) = <<>>
    BY SubSeqEmpty
  <2>3. 0 \in 0..n /\ \A j \in 0 + 1..0 : Inside(b, j)
    BY <1>2
  <2> QED
    BY <1>1, <2>1, <2>2, <2>3
<1>4. ASSUME NEW i \in Nat, i \in Good PROVE i + 1 \in Good
  <2> SUFFICES ASSUME i + 1 <= n PROVE Upto(F, i + 1)
    OBVIOUS
  <2>1. Upto(F, i)
    BY <1>2, <1>4
  <2>2. PICK e \in i..n : F[i] = SubSeq(b, 1, e) /\ Within(i, e) /\ ~Inside(b, e + 1)
    BY <2>1
  <2>3. i + 1 \in 1..n /\ (i + 1) - 1 = i /\ e \in Nat
    BY <1>2, <2>2
  <2>4. F[i + 1] = F[i] \o Converted(b, i + 1)
    BY <1>1, <2>3
  <2>5. CASE Inside(b, i + 1)
    <3>1. Converted(b, i + 1) = <<>>
      BY <2>5 DEF Converted
    <3>2. e # i
      BY <2>2, <2>5
    <3>3. e \in i + 1..n /\ \A j \in (i + 1) + 1..e : j \in i + 1..e
      BY <1>2, <2>2, <2>3, <3>2
    <3>4. Within(i + 1, e)
      BY <2>2, <3>3
    <3>5. F[i] \in Seq(Byte)
      BY <1>1, <1>2, <2>3
    <3>6. F[i + 1] = SubSeq(b, 1, e)
      BY <2>2, <2>4, <3>1, <3>5, ConcatEmptySeq
    <3> HIDE DEF Within
    <3> QED
      BY <2>2, <3>3, <3>4, <3>6
  <2>6. CASE ~Inside(b, i + 1)
    <3> DEFINE p == i + 1   w == Width(b[p])   d == i + w
    <3>1. p \in 1..Len(b) /\ Character(b, p)
      BY <1>2, <2>3, <2>6 DEF n
    <3>2. /\ w \in 0..4 /\ w >= 1 /\ p + w - 1 <= n
          /\ \A j \in 1..w - 1 : Inside(b, p + j)
      BY <2>6, <3>1, ConvertedTypes, CharacterEnds DEF n
    <3>2a. ~Inside(b, p + w)
      BY <2>6, <3>1, CharacterEnds
    <3>3. Converted(b, p) = SubSeq(b, p, p + w - 1)
      BY <2>6, <3>1 DEF Converted
    <3> HIDE DEF w
    <3>4. e = i
      <4>1. e # i => p \in i + 1..e
        BY <2>2, <2>3
      <4> QED
        BY <2>2, <2>6, <4>1
    <3>5. d \in i + 1..n /\ p + w - 1 = d /\ p + w = d + 1 /\ d \in Nat
          /\ \A j \in (i + 1) + 1..d : j - p \in 1..w - 1 /\ p + (j - p) = j
      BY <1>2, <2>3, <3>2
    <3>6. Within(i + 1, d)
      BY <3>2, <3>5
    <3>7. ~Inside(b, d + 1)
      BY <3>2a, <3>5
    <3> HIDE DEF d
    <3>8. F[i + 1] = SubSeq(b, 1, d)
      <4>1. SubSeq(b, 1, i) \o SubSeq(b, i + 1, d) = SubSeq(b, 1, d)
        BY <1>2, <2>3, <3>5 DEF n
      <4> QED
        BY <2>2, <2>4, <3>3, <3>4, <3>5, <4>1
    <3> HIDE DEF Within
    <3> QED
      BY <3>5, <3>6, <3>7, <3>8
  <2> QED
    BY <2>5, <2>6
<1>5. \A i \in Nat : i \in Good
  <2> HIDE DEF Good
  <2> QED
    BY <1>3, <1>4, NatInduction0
<1>6. PICK e \in n..n : F[n] = SubSeq(b, 1, e)
  <2>1. Upto(F, n)
    BY <1>2, <1>5
  <2> QED
    BY <2>1
<1>7. SubSeq(b, 1, n) = b
  BY DEF n
<1> QED
  BY <1>1, <1>2, <1>6, <1>7

-----------------------------------------------------------------------------
(* What Decoder::push gives for a PUBLISH of QoS 0. *)
Publication(topic, payload, retain) ==
  [kind |-> "publish", topic |-> Lossy(topic), qos |-> 0, retain |-> retain, id |-> None,
   payload |-> payload]

(* mqtt_wire.rs:255-284: a publication that is encoded is the publication  *)
(* that is decoded, whatever its topic, its payload and its retain flag,   *)
(* as long as the lengths fit the protocol's fields; of a topic that is    *)
(* not UTF-8 it is the lossy text (Utf8IsKept).                            *)
THEOREM PublishRoundTrip ==
  ASSUME NEW topic \in Seq(Byte), NEW payload \in Seq(Byte), NEW retain \in BOOLEAN,
         Len(topic) < MaxText, 2 + Len(topic) + Len(payload) < MaxBody
  PROVE  NextFrame(Publish(topic, payload, retain)) =
           [total |-> Len(Publish(topic, payload, retain)),
            packet |-> Publication(topic, payload, retain)]
<1> DEFINE header == IF retain THEN 49 ELSE 48   body == Text(topic) \o payload
           flags == IF retain THEN 1 ELSE 0   n == Len(topic)
<1>1. /\ Joined(body, Text(topic), payload)
      /\ Text(topic) \in Seq(Byte) /\ Len(Text(topic)) = 2 + n
      /\ ReadBytes(body, 0) = [bytes |-> topic, off |-> 2 + n]
  BY TextRead
<1>2. n \in Nat /\ Len(payload) \in Nat
  OBVIOUS
<1>3. header \in Byte /\ header \div 16 = 3 /\ header % 16 = flags
  BY DEF Byte
<1> HIDE DEF body
<1>4. /\ body \in Seq(Byte) /\ Len(body) = 2 + n + Len(payload)
      /\ SubSeq(body, 2 + n + 1, Len(body)) = payload
  BY <1>1 DEF Joined
<1>5. Len(body) < MaxBody
  BY <1>4
<1> HIDE DEF header
<1>6. NextFrame(Frame(header, body)) =
        [total |-> Len(Frame(header, body)),
         packet |-> DecodeBody(header \div 16, header % 16, body)]
  BY <1>3, <1>4, <1>5, FrameRead
<1>7. (flags \div 2) % 4 = 0 /\ (Bit(flags, 1) <=> retain) /\ Bit(flags, 1) \in BOOLEAN
  BY DEF Bit
<1> HIDE DEF flags, n
<1>8. DecodePublish(flags, body) = Publication(topic, payload, retain)
  <2> DEFINE t == ReadBytes(body, 0)   qos == (flags \div 2) % 4
             off == t.off + (IF qos > 0 THEN 2 ELSE 0)
  <2>1. t.off = 2 + n /\ t.bytes = topic /\ qos = 0 /\ ~(qos > 0)
    BY <1>1, <1>7
  <2>2. off = 2 + n /\ ~(t.off < 0) /\ ~(off > Len(body))
    BY <1>2, <1>4, <2>1
  <2>3. DecodePublish(flags, body) =
          IF t.off < 0 \/ off > Len(body) THEN Ignored
          ELSE [kind |-> "publish", topic |-> Lossy(t.bytes), qos |-> qos, retain |-> Bit(flags, 1),
                id |-> IF qos > 0 THEN Word(body, t.off + 1) ELSE None,
                payload |-> SubSeq(body, off + 1, Len(body))]
    BY DEF DecodePublish
  <2>4. Bit(flags, 1) = retain
    BY <1>7
  <2>5. SubSeq(body, off + 1, Len(body)) = payload
    BY <1>4, <2>2
  <2> HIDE DEF t, qos, off
  <2>6. DecodePublish(flags, body) =
          [kind |-> "publish", topic |-> Lossy(topic), qos |-> 0, retain |-> retain, id |-> None,
           payload |-> payload]
    BY <2>1, <2>2, <2>3, <2>4, <2>5
  <2> QED
    BY <2>6 DEF Publication
<1>9. DecodeBody(3, flags, body) = DecodePublish(flags, body)
  BY DEF DecodeBody
<1>10. Publish(topic, payload, retain) = Frame(header, body)
  BY DEF Publish, header, body
<1> QED
  BY <1>3, <1>6, <1>8, <1>9, <1>10

-----------------------------------------------------------------------------
(* CONNECT and SUBSCRIBE, whose bodies are chains of fields.  What is left *)
(* of b from an offset on is rest.                                         *)
At(b, off, rest) ==
  /\ b \in Seq(Byte) /\ rest \in Seq(Byte) /\ off \in Nat /\ off + Len(rest) = Len(b)
  /\ \A i \in 1..Len(rest) : b[off + i] = rest[i]

LEMMA AtStart == ASSUME NEW b \in Seq(Byte) PROVE At(b, 0, b)
  BY DEF At

LEMMA Skip ==
  ASSUME NEW b, NEW off, NEW w, NEW u \in Seq(Byte), NEW v \in Seq(Byte),
         At(b, off, w), Joined(w, u, v)
  PROVE  At(b, off + Len(u), v)
<1> DEFINE n == Len(u)   m == Len(v)
<1>1. n \in Nat /\ m \in Nat /\ off \in Nat
  BY DEF At
<1>2. Len(w) = n + m /\ \A i \in 1..m : w[n + i] = v[i]
  BY DEF Joined
<1>3. off + Len(w) = Len(b) /\ \A i \in 1..Len(w) : b[off + i] = w[i]
  BY DEF At
<1> HIDE DEF n, m
<1>4. ASSUME NEW i \in 1..m PROVE b[(off + n) + i] = v[i]
  <2>1. n + i \in 1..Len(w) /\ off + (n + i) = (off + n) + i
    BY <1>1, <1>2
  <2>2. b[off + (n + i)] = w[n + i]
    BY <1>3, <2>1
  <2> QED
    BY <1>2, <2>1, <2>2
<1>5. (off + n) + m = Len(b) /\ off + n \in Nat
  BY <1>1, <1>2, <1>3
<1>6. b \in Seq(Byte)
  BY DEF At
<1> QED
  BY <1>4, <1>5, <1>6 DEF At, n, m

LEMMA ReadIs ==
  ASSUME NEW r, NEW x, NEW y, r = [bytes |-> x, off |-> y]
  PROVE  r.bytes = x /\ r.off = y
  OBVIOUS

(* A reader sees only what is left.                                        *)
LEMMA ReadAt ==
  ASSUME NEW b, NEW off, NEW w, At(b, off, w), ReadBytes(w, 0).off >= 0
  PROVE  ReadBytes(b, off) = [bytes |-> ReadBytes(w, 0).bytes, off |-> off + ReadBytes(w, 0).off]
<1> DEFINE n == Len(w)   len == Word(w, 1)
<1>1. /\ b \in Seq(Byte) /\ w \in Seq(Byte) /\ off \in Nat /\ n \in Nat /\ off + n = Len(b)
      /\ \A i \in 1..n : b[off + i] = w[i]
  BY DEF At
<1>2. ~(0 < 0 \/ 0 + 2 > Len(w) \/ 0 + 2 + Word(w, 0 + 1) > Len(w))
  BY DEF ReadBytes, NoRead
<1>3. 0 + 1 = 1 /\ 0 + 2 = 2 /\ 0 + 3 = 3
  OBVIOUS
<1>4. 2 <= n
  BY <1>1, <1>2
<1>5. len \in Nat
  <2>1. w[1] \in Byte /\ w[1 + 1] \in Byte
    BY <1>1, <1>4
  <2>2. \A x, y \in Byte : x * 256 + y \in Nat
    BY DEF Byte
  <2> QED
    BY <2>1, <2>2 DEF Word
<1>6. 2 + len <= n
  BY <1>1, <1>2, <1>3, <1>5
<1>7. ReadBytes(w, 0) = [bytes |-> SubSeq(w, 3, 2 + len), off |-> 2 + len]
  BY <1>2, <1>3 DEF ReadBytes
<1>8. Word(b, off + 1) = len
  <2>1. 1 \in 1..n /\ 2 \in 1..n /\ (off + 1) + 1 = off + 2 /\ 1 + 1 = 2
    BY <1>1, <1>4
  <2>2. b[off + 1] = w[1] /\ b[(off + 1) + 1] = w[1 + 1]
    BY <1>1, <2>1
  <2> QED
    BY <2>2 DEF Word
<1> HIDE DEF n, len
<1>9. SubSeq(b, off + 3, off + 2 + len) = SubSeq(w, 3, 2 + len)
  <2>1. \A i \in 1..len : 2 + i \in 1..n /\ off + (2 + i) = (off + 2) + i
    BY <1>1, <1>5, <1>6
  <2>2. \A i \in 1..len : b[(off + 2) + i] = w[2 + i]
    BY <1>1, <2>1
  <2>3. SubSeq(w, 3, 2 + len) = [i \in 1..len |-> w[2 + i]]
    BY <1>1, <1>5, <1>6 DEF n
  <2>4. SubSeq(b, off + 3, off + 2 + len) = [i \in 1..len |-> b[(off + 2) + i]]
    BY <1>1, <1>5, <1>6
  <2> QED
    BY <2>2, <2>3, <2>4
<1>10. ~(off < 0 \/ off + 2 > Len(b) \/ off + 2 + len > Len(b))
  BY <1>1, <1>4, <1>5, <1>6
<1>11. ReadBytes(b, off) = [bytes |-> SubSeq(b, off + 3, off + 2 + len), off |-> off + 2 + len]
  BY <1>8, <1>10 DEF ReadBytes
<1>12. off + 2 + len = off + (2 + len)
  BY <1>1, <1>5
<1>13. ReadBytes(w, 0).bytes = SubSeq(b, off + 3, off + 2 + len) /\ ReadBytes(w, 0).off = 2 + len
  <2> DEFINE r == ReadBytes(w, 0)   x == SubSeq(w, 3, 2 + len)   y == 2 + len
  <2>2. r = [bytes |-> x, off |-> y]
    BY <1>7
  <2>1. r.bytes = x /\ r.off = y
    <3> HIDE DEF r, x, y
    <3> QED
      BY <2>2, ReadIs, Zenon
  <2> QED
    BY <1>9, <2>1, Zenon
<1> QED
  BY <1>11, <1>12, <1>13

ShortText == {s \in Seq(Byte) : Len(s) < MaxText}

LEMMA TextAt ==
  ASSUME NEW b, NEW off, NEW s \in ShortText, NEW rest \in Seq(Byte),
         At(b, off, Text(s) \o rest)
  PROVE  /\ ReadBytes(b, off) = [bytes |-> s, off |-> off + (2 + Len(s))]
         /\ At(b, off + (2 + Len(s)), rest)
<1> DEFINE w == Text(s) \o rest
<1>1. s \in Seq(Byte) /\ Len(s) < MaxText
  BY DEF ShortText
<1>2. /\ Joined(w, Text(s), rest) /\ Text(s) \in Seq(Byte) /\ Len(Text(s)) = 2 + Len(s)
      /\ ReadBytes(w, 0) = [bytes |-> s, off |-> 2 + Len(s)]
  BY <1>1, TextRead
<1>3. Len(s) \in Nat
  BY <1>1
<1> HIDE DEF w
<1>4. At(b, off, w)
  BY DEF w
<1>5. At(b, off + (2 + Len(s)), rest)
  BY <1>2, <1>4, Skip
<1>6. ReadBytes(w, 0).off >= 0
  BY <1>2, <1>3
<1>7. ReadBytes(b, off) = [bytes |-> ReadBytes(w, 0).bytes, off |-> off + ReadBytes(w, 0).off]
  BY <1>4, <1>6, ReadAt
<1> QED
  BY <1>2, <1>5, <1>7

(* A field that is there only if a flag says so.                           *)
Field(present, s) == IF present THEN Text(s) ELSE <<>>

LEMMA FieldTypes ==
  ASSUME NEW present \in BOOLEAN, NEW s \in ShortText, NEW rest \in Seq(Byte)
  PROVE  Field(present, s) \o rest \in Seq(Byte)
<1>1. Text(s) \o rest \in Seq(Byte)
  BY TextRead DEF ShortText, Joined
<1>2. <<>> \o rest = rest
  BY ConcatEmptySeq
<1> QED
  BY <1>1, <1>2 DEF Field

LEMMA FieldAt ==
  ASSUME NEW b, NEW off, NEW present \in BOOLEAN, NEW s \in ShortText, NEW rest \in Seq(Byte),
         At(b, off, Field(present, s) \o rest)
  PROVE  /\ ReadIf(present, b, off).bytes = IF present THEN s ELSE None
         /\ At(b, ReadIf(present, b, off).off, rest)
         /\ ReadIf(present, b, off).off <= off + MaxText + 1
<1>1. CASE present
  <2>1. At(b, off, Text(s) \o rest)
    BY <1>1 DEF Field
  <2>2. /\ ReadBytes(b, off) = [bytes |-> s, off |-> off + (2 + Len(s))]
        /\ At(b, off + (2 + Len(s)), rest)
    BY <2>1, TextAt
  <2>3. ReadIf(present, b, off) = ReadBytes(b, off)
    BY <1>1 DEF ReadIf
  <2>4. Len(s) \in Nat /\ Len(s) < MaxText /\ off \in Nat
    BY <2>1 DEF ShortText, At
  <2>5. off + (2 + Len(s)) <= off + MaxText + 1
    BY <2>4 DEF MaxText
  <2> DEFINE r == ReadIf(present, b, off)   y == off + (2 + Len(s))
  <2>7. r = [bytes |-> s, off |-> y]
    BY <2>2, <2>3
  <2>6. r.bytes = s /\ r.off = y
    <3> HIDE DEF r, y
    <3> QED
      BY <2>7, ReadIs, Zenon
  <2> QED
    BY <1>1, <2>2, <2>5, <2>6
<1>2. CASE ~present
  <2>1. Field(present, s) \o rest = rest
    BY <1>2, ConcatEmptySeq DEF Field
  <2>2. ReadIf(present, b, off) = [bytes |-> None, off |-> off]
    BY <1>2 DEF ReadIf
  <2>3. At(b, off, rest)
    BY <2>1
  <2>4. off <= off + MaxText + 1
    BY <2>3 DEF At, MaxText
  <2> QED
    BY <1>2, <2>2, <2>3, <2>4
<1> QED
  BY <1>1, <1>2

(* What a client says in a CONNECT; which of its fields are there the      *)
(* flags say.                                                              *)
Clients == [proto : ShortText, level : Byte, flags : Byte, hi : Byte, lo : Byte,
            id : ShortText, topic : ShortText, will : ShortText, user : ShortText,
            pass : ShortText]
PassField(c) == Field(Bit(c.flags, 64), c.pass) \o <<>>
UserField(c) == Field(Bit(c.flags, 128), c.user) \o PassField(c)
WillField(c) == Field(Bit(c.flags, 4), c.will) \o UserField(c)
TopicField(c) == Field(Bit(c.flags, 4), c.topic) \o WillField(c)
IdField(c) == Text(c.id) \o TopicField(c)
ConnectBody(c) == Text(c.proto) \o (<<c.level, c.flags, c.hi, c.lo>> \o IdField(c))
Introduces(c) == [kind |-> "connect", clientId |-> Lossy(c.id),
                  user |-> IF Bit(c.flags, 128) THEN Lossy(c.user) ELSE None,
                  pass |-> IF Bit(c.flags, 64) THEN Lossy(c.pass) ELSE None]
AsSent(c) == [kind |-> "connect", clientId |-> c.id,
              user |-> IF Bit(c.flags, 128) THEN c.user ELSE None,
              pass |-> IF Bit(c.flags, 64) THEN c.pass ELSE None]

LEMMA ClientTypes ==
  ASSUME NEW c \in Clients
  PROVE  /\ PassField(c) \in Seq(Byte) /\ UserField(c) \in Seq(Byte) /\ WillField(c) \in Seq(Byte)
         /\ TopicField(c) \in Seq(Byte) /\ IdField(c) \in Seq(Byte)
         /\ <<c.level, c.flags, c.hi, c.lo>> \in Seq(Byte)
         /\ ConnectBody(c) \in Seq(Byte)
<1> DEFINE four == <<c.level, c.flags, c.hi, c.lo>>
<1>1. /\ c.proto \in ShortText /\ c.id \in ShortText /\ c.topic \in ShortText
      /\ c.will \in ShortText /\ c.user \in ShortText /\ c.pass \in ShortText
      /\ c.level \in Byte /\ c.flags \in Byte /\ c.hi \in Byte /\ c.lo \in Byte
  BY DEF Clients
<1>2. \A x, y : Bit(x, y) \in BOOLEAN
  BY DEF Bit
<1>3. four \in Seq(Byte) /\ <<>> \in Seq(Byte)
  BY <1>1
<1> HIDE DEF four
<1>4. PassField(c) \in Seq(Byte)
  BY <1>1, <1>2, <1>3, FieldTypes DEF PassField
<1>5. UserField(c) \in Seq(Byte)
  BY <1>1, <1>2, <1>4, FieldTypes DEF UserField
<1>6. WillField(c) \in Seq(Byte)
  BY <1>1, <1>2, <1>5, FieldTypes DEF WillField
<1>7. TopicField(c) \in Seq(Byte)
  BY <1>1, <1>2, <1>6, FieldTypes DEF TopicField
<1>8. ASSUME NEW s \in ShortText, NEW r \in Seq(Byte) PROVE Text(s) \o r \in Seq(Byte)
  BY TextRead DEF ShortText, Joined
<1>9. IdField(c) \in Seq(Byte)
  BY <1>1, <1>7, <1>8 DEF IdField
<1>10. four \o IdField(c) \in Seq(Byte)
  BY <1>3, <1>9, ConcatProperties
<1>11. ConnectBody(c) \in Seq(Byte)
  BY <1>1, <1>8, <1>10 DEF ConnectBody, four
<1> QED
  BY <1>3, <1>4, <1>5, <1>6, <1>7, <1>9, <1>11 DEF four

(* mqtt_wire.rs:137-172: of every CONNECT the client id and, where its     *)
(* flags say that they are there, the user and the password are the lossy  *)
(* texts of the ones the client sent, with or without a will before them;  *)
(* and the ones it sent, if these are UTF-8.                               *)
THEOREM ConnectRoundTrip ==
  ASSUME NEW c \in Clients
  PROVE  /\ DecodeConnect(ConnectBody(c)) = Introduces(c)
         /\ NextFrame(Frame(16, ConnectBody(c))) =
              [total |-> Len(Frame(16, ConnectBody(c))), packet |-> Introduces(c)]
         /\ Utf8(c.id) /\ Utf8(c.user) /\ Utf8(c.pass) => Introduces(c) = AsSent(c)
<1> DEFINE b     == ConnectBody(c)   four == <<c.level, c.flags, c.hi, c.lo>>
           head  == ReadBytes(b, 0)
           flags == b[head.off + 2]
           id    == ReadBytes(b, head.off + 4)
           topic == ReadIf(Bit(c.flags, 4), b, id.off)
           will  == ReadIf(Bit(c.flags, 4), b, topic.off)
           user  == ReadIf(Bit(c.flags, 128), b, will.off)
           pass  == ReadIf(Bit(c.flags, 64), b, user.off)
<1>1. /\ c.proto \in ShortText /\ c.id \in ShortText /\ c.topic \in ShortText
      /\ c.will \in ShortText /\ c.user \in ShortText /\ c.pass \in ShortText
      /\ \A s \in ShortText : Len(s) \in Nat /\ Len(s) < MaxText
  BY DEF Clients, ShortText
<1>2. \A x, y : Bit(x, y) \in BOOLEAN
  BY DEF Bit
<1>3. four \in Seq(Byte) /\ Len(four) = 4 /\ four[2] = c.flags
  BY ClientTypes
<1> HIDE DEF four
<1>4. four \o IdField(c) \in Seq(Byte) /\ Joined(four \o IdField(c), four, IdField(c))
  BY <1>3, ClientTypes, Join DEF Joined
<1>5. At(b, 0, Text(c.proto) \o (four \o IdField(c)))
  BY ClientTypes, AtStart DEF ConnectBody, four
<1> HIDE DEF b
<1>6. head.off = 0 + (2 + Len(c.proto)) /\ At(b, head.off, four \o IdField(c))
  <2> DEFINE r == four \o IdField(c)   z == 0
  <2>1. r \in Seq(Byte) /\ c.proto \in ShortText /\ At(b, z, Text(c.proto) \o r)
    BY <1>1, <1>4, <1>5
  <2> HIDE DEF r, z
  <2>2. /\ ReadBytes(b, z) = [bytes |-> c.proto, off |-> z + (2 + Len(c.proto))]
        /\ At(b, z + (2 + Len(c.proto)), r)
    BY <2>1, TextAt
  <2>3. ReadBytes(b, z).off = z + (2 + Len(c.proto))
    BY <2>2, ReadIs, Zenon
  <2> QED
    BY <2>2, <2>3 DEF r, z
<1>7. head.off \in Nat /\ head.off <= MaxText + 1
  BY <1>1, <1>6 DEF MaxText
<1> HIDE DEF head
<1>8. flags = c.flags
  <2>1. 2 \in 1..Len(four)
    BY <1>3
  <2>2. (four \o IdField(c))[2] = c.flags /\ 2 \in 1..Len(four \o IdField(c))
    BY <1>3, <1>4, <2>1, ClientTypes DEF Joined
  <2> QED
    BY <1>6, <2>2 DEF At
<1>9. At(b, head.off + 4, IdField(c))
  BY <1>3, <1>4, <1>6, ClientTypes, Skip
<1>10. /\ id = [bytes |-> c.id, off |-> (head.off + 4) + (2 + Len(c.id))]
       /\ At(b, id.off, TopicField(c))
  BY <1>1, <1>9, ClientTypes, TextAt DEF IdField
<1> HIDE DEF flags, id
<1>11. At(b, topic.off, WillField(c)) /\ topic.off <= id.off + MaxText + 1
  BY <1>1, <1>2, <1>10, ClientTypes, FieldAt DEF TopicField
<1> HIDE DEF topic
<1>12. At(b, will.off, UserField(c)) /\ will.off <= topic.off + MaxText + 1
  BY <1>1, <1>2, <1>11, ClientTypes, FieldAt DEF WillField
<1> HIDE DEF will
<1>13. /\ user.bytes = IF Bit(c.flags, 128) THEN c.user ELSE None
       /\ At(b, user.off, PassField(c)) /\ user.off <= will.off + MaxText + 1
  BY <1>1, <1>2, <1>12, ClientTypes, FieldAt DEF UserField
<1> HIDE DEF user
<1>14. <<>> \in Seq(Byte) /\ Len(<<>>) = 0
  OBVIOUS
<1>15. /\ pass.bytes = IF Bit(c.flags, 64) THEN c.pass ELSE None
       /\ At(b, pass.off, <<>>) /\ pass.off <= user.off + MaxText + 1
  <2> DEFINE nil == <<>>
  <2>1. At(b, user.off, Field(Bit(c.flags, 64), c.pass) \o nil) /\ nil \in Seq(Byte)
    BY <1>13, <1>14 DEF PassField
  <2> HIDE DEF nil
  <2>2. /\ pass.bytes = IF Bit(c.flags, 64) THEN c.pass ELSE None
        /\ At(b, pass.off, nil) /\ pass.off <= user.off + MaxText + 1
    BY <1>1, <1>2, <2>1, FieldAt
  <2> QED
    BY <2>2 DEF nil
<1> HIDE DEF pass
<1>16. ~(head.off < 0 \/ head.off + 4 > Len(b) \/ pass.off < 0)
  <2>1. (head.off + 4) + Len(IdField(c)) = Len(b) /\ Len(IdField(c)) \in Nat /\ pass.off \in Nat
    BY <1>9, <1>15 DEF At
  <2> QED
    BY <1>7, <2>1
<1>17. DecodeConnect(b) = [kind |-> "connect", clientId |-> Lossy(id.bytes),
                           user |-> TextIf(Bit(c.flags, 128), user.bytes),
                           pass |-> TextIf(Bit(c.flags, 64), pass.bytes)]
  BY <1>8, <1>16 DEF DecodeConnect, head, flags, id, topic, will, user, pass
<1>18. DecodeConnect(b) = Introduces(c)
  BY <1>10, <1>13, <1>15, <1>17 DEF Introduces, TextIf
<1>18a. Utf8(c.id) /\ Utf8(c.user) /\ Utf8(c.pass) => Introduces(c) = AsSent(c)
  BY <1>1, Utf8IsKept DEF Introduces, AsSent, ShortText
<1>19. b \in Seq(Byte) /\ Len(b) < MaxBody
  <2>1. b \in Seq(Byte) /\ pass.off + 0 = Len(b) /\ pass.off \in Nat /\ user.off \in Nat
        /\ will.off \in Nat /\ topic.off \in Nat
    BY <1>11, <1>12, <1>13, <1>14, <1>15 DEF At
  <2>2. id.off = (head.off + 4) + (2 + Len(c.id)) /\ Len(c.id) < MaxText /\ Len(c.id) \in Nat
    BY <1>1, <1>10
  <2> DEFINE p1 == head.off   p2 == id.off   p3 == topic.off   p4 == will.off
             p5 == user.off   p6 == pass.off   n == Len(c.id)
  <2>3. /\ p1 \in Nat /\ p2 = (p1 + 4) + (2 + n) /\ p3 \in Nat /\ p4 \in Nat
        /\ p5 \in Nat /\ p6 \in Nat /\ n \in Nat
    BY <1>7, <2>1, <2>2
  <2>4. /\ p1 <= 65537 /\ n < 65536 /\ p3 <= p2 + 65536 + 1 /\ p4 <= p3 + 65536 + 1
        /\ p5 <= p4 + 65536 + 1 /\ p6 <= p5 + 65536 + 1
    BY <1>7, <1>11, <1>12, <1>13, <1>15, <2>2 DEF MaxText
  <2> HIDE DEF p1, p2, p3, p4, p5, p6, n
  <2>5. p6 < 268435456
    BY <2>3, <2>4
  <2> QED
    BY <2>1, <2>5 DEF p6, MaxBody
<1>20. 16 \in Byte /\ 16 \div 16 = 1 /\ 16 % 16 = 0
  BY DEF Byte
<1>21. NextFrame(Frame(16, b)) = [total |-> Len(Frame(16, b)), packet |-> DecodeBody(1, 0, b)]
  BY <1>19, <1>20, FrameRead
<1>22. DecodeBody(1, 0, b) = DecodeConnect(b)
  BY DEF DecodeBody
<1> QED
  BY <1>18, <1>18a, <1>21, <1>22 DEF b

-----------------------------------------------------------------------------
(* SUBSCRIBE.  The topics that the decoder gives from an offset on, as one *)
(* step of the recursion in TopicsFrom.                                    *)
TopicsStep(g, b, off) ==
  IF off >= Len(b) THEN <<>>
  ELSE LET t == ReadBytes(b, off)
       IN IF t.off < 0 \/ g[t.off + 1] = Ignored THEN Ignored
          ELSE <<Lossy(t.bytes)>> \o g[t.off + 1]

LEMMA ReadForward ==
  ASSUME NEW b \in Seq(Byte), NEW off \in Nat
  PROVE  /\ ReadBytes(b, off).bytes \in Seq(Byte)
         /\ \/ ReadBytes(b, off).off = -1
            \/ off < Len(b) /\ ReadBytes(b, off).off \in Nat /\ ReadBytes(b, off).off > off
<1> DEFINE len == Word(b, off + 1)
<1>1. CASE off < 0 \/ off + 2 > Len(b) \/ off + 2 + len > Len(b)
  <2> DEFINE x == <<>>   y == -1   r == ReadBytes(b, off)
  <2>1. r = [bytes |-> x, off |-> y]
    BY <1>1 DEF ReadBytes, NoRead
  <2>2. x \in Seq(Byte)
    BY EmptySeq
  <2>3. r.bytes = x /\ r.off = y
    <3> HIDE DEF r, x, y
    <3> QED
      BY <2>1, ReadIs, Zenon
  <2>4. r.bytes \in Seq(Byte)
    BY <2>2, <2>3, Zenon
  <2>5. r.off = -1
    BY <2>3, Zenon
  <2> QED
    BY <2>4, <2>5
<1>2. CASE ~(off < 0 \/ off + 2 > Len(b) \/ off + 2 + len > Len(b))
  <2>1. len \in Nat
    <3>1. b[off + 1] \in Byte /\ b[(off + 1) + 1] \in Byte
      BY <1>2
    <3>2. \A x, y \in Byte : x * 256 + y \in Nat
      BY DEF Byte
    <3> QED
      BY <3>1, <3>2 DEF Word
  <2> DEFINE x == SubSeq(b, off + 3, off + 2 + len)   y == off + 2 + len   r == ReadBytes(b, off)
  <2>2. r = [bytes |-> x, off |-> y]
    BY <1>2 DEF ReadBytes
  <2>3. x \in Seq(Byte)
    <3> HIDE DEF len
    <3> QED
      BY <1>2, <2>1, SubSeqProperties
  <2>4. y \in Nat /\ y > off /\ off < Len(b)
    <3> HIDE DEF len
    <3> QED
      BY <1>2, <2>1
  <2>5. r.bytes = x /\ r.off = y
    <3> HIDE DEF r, x, y
    <3> QED
      BY <2>2, ReadIs, Zenon
  <2> QED
    BY <2>3, <2>4, <2>5
<1> QED
  BY <1>1, <1>2

LEMMA TopicsExist ==
  ASSUME NEW b \in Seq(Byte)
  PROVE  \E g : DOMAIN g = Nat /\ g = [off \in Nat |-> g[off]]
                /\ \A off \in Nat : g[off] = TopicsStep(g, b, off)
<1> DEFINE S == Nat   V == Seq(Seq(Byte)) \cup {Ignored}
           after(off) == ReadBytes(b, off).off
           topic(off) == Lossy(ReadBytes(b, off).bytes)
           leaf == {off \in Nat : off >= Len(b) \/ after(off) < 0}
           size == [off \in Nat |-> IF off >= Len(b) THEN 0 ELSE Len(b) - off]
           base == [off \in Nat |-> IF off >= Len(b) THEN <<>> ELSE Ignored]
           comb == [ov \in Nat \X V |-> IF ov[2] = Ignored THEN Ignored ELSE <<topic(ov[1])>> \o ov[2]]
           next == [off \in Nat |-> IF off \in leaf THEN off ELSE after(off) + 1]
<1>0. /\ Len(b) \in Nat
      /\ \A off \in Nat : /\ topic(off) \in Seq(Byte)
                          /\ \/ after(off) = -1
                             \/ off < Len(b) /\ after(off) \in Nat /\ after(off) > off
  BY ReadForward, LossyTypes
<1> HIDE DEF after, topic
<1>9. ASSUME NEW off \in Nat, ~(off >= Len(b) \/ after(off) < 0)
      PROVE  off < Len(b) /\ after(off) + 1 \in Nat /\ after(off) + 1 > off
  <2> DEFINE t == after(off)   n == Len(b)
  <2>1. n \in Nat /\ ~(off >= n \/ t < 0) /\ (t = -1 \/ (off < n /\ t \in Nat /\ t > off))
    BY <1>0, <1>9
  <2> HIDE DEF t, n
  <2>2. off < n /\ t + 1 \in Nat /\ t + 1 > off
    BY <2>1
  <2> QED
    BY <2>2 DEF t, n
<1>1. size \in [Nat -> Nat] /\ next \in [Nat -> Nat]
  <2>1. ASSUME NEW off \in Nat PROVE (IF off \in leaf THEN off ELSE after(off) + 1) \in Nat
    BY <1>9
  <2>2. ASSUME NEW off \in Nat PROVE (IF off >= Len(b) THEN 0 ELSE Len(b) - off) \in Nat
    BY <1>0
  <2> HIDE DEF leaf
  <2> QED
    BY <2>1, <2>2
<1>2. base \in [Nat -> V]
  BY EmptySeq
<1>3. comb \in [Nat \X V -> V]
  <2>1. ASSUME NEW ov \in Nat \X V
        PROVE  (IF ov[2] = Ignored THEN Ignored ELSE <<topic(ov[1])>> \o ov[2]) \in V
    <3>1. ov[1] \in Nat /\ ov[2] \in V
      OBVIOUS
    <3>2. CASE ov[2] = Ignored
      BY <3>2
    <3>3. CASE ov[2] # Ignored
      <4> DEFINE s == topic(ov[1])   v == ov[2]
      <4>1. s \in Seq(Byte) /\ v \in Seq(Seq(Byte))
        BY <1>0, <3>1, <3>3
      <4> HIDE DEF s, v
      <4>2. <<s>> \o v \in Seq(Seq(Byte))
        BY <4>1, ConcatProperties
      <4> QED
        BY <3>3, <4>2 DEF s, v
    <3> QED
      BY <3>2, <3>3
  <2> HIDE DEF V
  <2> QED
    BY <2>1
<1>4. ASSUME NEW off \in Nat, off \notin leaf PROVE size[next[off]] < size[off]
  <2> DEFINE on == after(off) + 1   n == Len(b)
  <2>1. off < n /\ on \in Nat /\ on > off /\ n \in Nat
    BY <1>0, <1>4, <1>9
  <2>2. next[off] = on
    BY <1>4
  <2> HIDE DEF on, n, next, leaf
  <2>3. size[on] = IF on >= n THEN 0 ELSE n - on
    BY <2>1 DEF n
  <2>4. size[off] = n - off
    BY <2>1 DEF n
  <2> QED
    BY <2>1, <2>2, <2>3, <2>4
<1>5. ASSUME NEW off \in Nat
      PROVE  /\ off \in leaf <=> off >= Len(b) \/ after(off) < 0
             /\ base[off] = IF off >= Len(b) THEN <<>> ELSE Ignored
             /\ off \notin leaf => next[off] = after(off) + 1 /\ next[off] \in Nat
             /\ \A v \in V : comb[<<off, v>>] = IF v = Ignored THEN Ignored ELSE <<topic(off)>> \o v
  BY <1>1
<1> HIDE DEF size, leaf, base, comb, next, V
<1>6. IsRecursion(S, V, size, leaf, base, comb, next)
  BY <1>1, <1>2, <1>3, <1>4 DEF IsRecursion
<1>7. PICK g \in [S -> V] : \A off \in S : g[off] = Unfold(g, leaf, base, comb, next, off)
  <2> HIDE DEF S
  <2> QED
    BY <1>6, RecursionExists
<1>8. ASSUME NEW off \in Nat PROVE g[off] = TopicsStep(g, b, off)
  <2>0. TopicsStep(g, b, off) =
          IF off >= Len(b) THEN <<>>
          ELSE IF after(off) < 0 \/ g[after(off) + 1] = Ignored THEN Ignored
          ELSE <<topic(off)>> \o g[after(off) + 1]
    BY DEF TopicsStep, after, topic
  <2>1. CASE off \in leaf
    BY <1>5, <1>7, <2>0, <2>1 DEF Unfold
  <2>2. CASE off \notin leaf
    <3>1. next[off] = after(off) + 1 /\ g[after(off) + 1] \in V
      BY <1>5, <1>7, <2>2
    <3>2. g[off] = comb[<<off, g[after(off) + 1]>>]
      BY <1>7, <2>2, <3>1 DEF Unfold
    <3> QED
      BY <1>5, <2>0, <2>2, <3>1, <3>2
  <2> QED
    BY <2>1, <2>2
<1> QED
  BY <1>7, <1>8

LEMMA TopicsUnfold ==
  ASSUME NEW b \in Seq(Byte)
  PROVE  \E g : TopicsFrom(b) = g[2] /\ \A off \in Nat : g[off] = TopicsStep(g, b, off)
<1> DEFINE T == CHOOSE f : f = [off \in Nat |-> TopicsStep(f, b, off)]
<1>1. PICK g : g = [off \in Nat |-> g[off]] /\ \A off \in Nat : g[off] = TopicsStep(g, b, off)
  BY TopicsExist
<1>2. g = [off \in Nat |-> TopicsStep(g, b, off)]
  BY <1>1
<1>3. T = [off \in Nat |-> TopicsStep(T, b, off)]
  BY <1>2, Zenon
<1>4. TopicsFrom(b) = T[2]
  BY Zenon DEF TopicsFrom, TopicsStep
<1> HIDE DEF T
<1>5. \A off \in Nat : T[off] = TopicsStep(T, b, off)
  BY <1>3
<1> QED
  BY <1>4, <1>5

(* What a client asks for: topics, a QoS byte after each.                  *)
Wishes == [topic : ShortText, qos : Byte]
WishesStep(g, q, i) ==
  IF i = Len(q) + 1 THEN <<>> ELSE Text(q[i].topic) \o (<<q[i].qos>> \o g[i + 1])
WishesBody(q) ==
  LET from[i \in 1..(Len(q) + 1)] ==
        IF i = Len(q) + 1 THEN <<>> ELSE Text(q[i].topic) \o (<<q[i].qos>> \o from[i + 1])
  IN from[1]
SubscribeBody(hi, lo, q) == <<hi, lo>> \o WishesBody(q)
AskedFor(q) == [i \in 1..Len(q) |-> Lossy(q[i].topic)]
Asks(hi, lo, q) == [kind |-> "subscribe", id |-> hi * 256 + lo, topics |-> AskedFor(q)]

LEMMA WishTypes ==
  ASSUME NEW x \in Wishes, NEW v \in Seq(Byte)
  PROVE  /\ x.topic \in ShortText /\ <<x.qos>> \in Seq(Byte)
         /\ <<x.qos>> \o v \in Seq(Byte) /\ Joined(<<x.qos>> \o v, <<x.qos>>, v)
         /\ Text(x.topic) \o (<<x.qos>> \o v) \in Seq(Byte)
<1> DEFINE u == <<x.qos>>
<1>1. x.topic \in ShortText /\ u \in Seq(Byte)
  BY DEF Wishes
<1> HIDE DEF u
<1>2. u \o v \in Seq(Byte) /\ Joined(u \o v, u, v)
  BY <1>1, Join DEF Joined
<1>3. Text(x.topic) \o (u \o v) \in Seq(Byte)
  BY <1>1, <1>2, TextRead DEF ShortText, Joined
<1> QED
  BY <1>1, <1>2, <1>3 DEF u

LEMMA WishesExist ==
  ASSUME NEW q \in Seq(Wishes)
  PROVE  \E g \in [1..(Len(q) + 1) -> Seq(Byte)] :
           \A i \in 1..(Len(q) + 1) : g[i] = WishesStep(g, q, i)
<1> DEFINE n == Len(q)   S == 1..(n + 1)   V == Seq(Byte)
           leaf == {n + 1}
           size == [i \in S |-> n + 1 - i]
           base == [i \in S |-> <<>>]
           wish(i) == q[IF i \in 1..n THEN i ELSE 1]
           comb == [iv \in S \X V |-> IF iv[1] \in 1..n
                                        THEN Text(q[iv[1]].topic) \o (<<q[iv[1]].qos>> \o iv[2])
                                        ELSE <<>>]
           next == [i \in S |-> IF i \in 1..n THEN i + 1 ELSE i]
<1>0. n \in Nat /\ \A i \in 1..n : q[i] \in Wishes
  OBVIOUS
<1> HIDE DEF n
<1>1. size \in [S -> Nat] /\ next \in [S -> S]
  BY <1>0
<1>2. base \in [S -> V] /\ <<>> \in V
  BY EmptySeq
<1>3. comb \in [S \X V -> V]
  <2>1. ASSUME NEW iv \in S \X V
        PROVE  (IF iv[1] \in 1..n THEN Text(q[iv[1]].topic) \o (<<q[iv[1]].qos>> \o iv[2])
                ELSE <<>>) \in V
    <3>1. iv[2] \in Seq(Byte) /\ (iv[1] \in 1..n => q[iv[1]] \in Wishes)
      BY <1>0
    <3> QED
      BY <1>2, <3>1, WishTypes
  <2> HIDE DEF S, V
  <2> QED
    BY <2>1
<1>4. \A i \in S : i \notin leaf => size[next[i]] < size[i]
  BY <1>0
<1>5. ASSUME NEW i \in S
      PROVE  /\ i \in leaf <=> i = n + 1
             /\ base[i] = <<>>
             /\ i # n + 1 => /\ next[i] = i + 1 /\ i + 1 \in S
                             /\ \A v \in V : comb[<<i, v>>] = Text(q[i].topic) \o (<<q[i].qos>> \o v)
  <2>1. i # n + 1 => i \in 1..n /\ i + 1 \in S
    BY <1>0
  <2>2. ASSUME NEW v \in V, i \in 1..n
        PROVE  comb[<<i, v>>] = Text(q[i].topic) \o (<<q[i].qos>> \o v)
    BY <2>2
  <2> QED
    BY <2>1, <2>2
<1> HIDE DEF size, leaf, base, comb, next
<1>6. IsRecursion(S, V, size, leaf, base, comb, next)
  BY <1>1, <1>2, <1>3, <1>4 DEF IsRecursion
<1>7. PICK g \in [S -> V] : \A i \in S : g[i] = Unfold(g, leaf, base, comb, next, i)
  <2> HIDE DEF S, V
  <2> QED
    BY <1>6, RecursionExists
<1>8. ASSUME NEW i \in S PROVE g[i] = WishesStep(g, q, i)
  <2>0. WishesStep(g, q, i) =
          IF i = n + 1 THEN <<>> ELSE Text(q[i].topic) \o (<<q[i].qos>> \o g[i + 1])
    BY DEF WishesStep, n
  <2>1. CASE i = n + 1
    BY <1>5, <1>7, <2>0, <2>1 DEF Unfold
  <2>2. CASE i # n + 1
    <3>1. next[i] = i + 1 /\ g[i + 1] \in V /\ i \notin leaf
      BY <1>5, <1>7, <2>2
    <3>2. g[i] = comb[<<i, g[i + 1]>>]
      BY <1>7, <3>1 DEF Unfold
    <3> QED
      BY <1>5, <2>0, <2>2, <3>1, <3>2
  <2> QED
    BY <2>1, <2>2
<1> QED
  BY <1>7, <1>8 DEF n

LEMMA WishesUnfold ==
  ASSUME NEW q \in Seq(Wishes)
  PROVE  \E g \in [1..(Len(q) + 1) -> Seq(Byte)] :
           WishesBody(q) = g[1] /\ \A i \in 1..(Len(q) + 1) : g[i] = WishesStep(g, q, i)
<1> DEFINE D == 1..(Len(q) + 1)
           W == CHOOSE f : f = [i \in D |-> WishesStep(f, q, i)]
<1>1. PICK g \in [D -> Seq(Byte)] : \A i \in D : g[i] = WishesStep(g, q, i)
  BY WishesExist
<1>2. g = [i \in D |-> WishesStep(g, q, i)]
  BY <1>1
<1>3. W = [i \in D |-> WishesStep(W, q, i)]
  BY <1>2, Zenon
<1>4. WishesBody(q) = W[1]
  BY Zenon DEF WishesBody, WishesStep
<1> DEFINE n == Len(q)   Typed == {k \in Nat : k <= n => W[n + 1 - k] \in Seq(Byte)}
<1> HIDE DEF W
<1>5. \A i \in D : W[i] = WishesStep(W, q, i)
  BY <1>3
<1>6. n \in Nat /\ \A i \in 1..n : q[i] \in Wishes
  OBVIOUS
<1> HIDE DEF n
<1>7. \A i \in 1..(n + 1) :
        W[i] = IF i = n + 1 THEN <<>> ELSE Text(q[i].topic) \o (<<q[i].qos>> \o W[i + 1])
  BY <1>5 DEF WishesStep, n
<1>8. 0 \in Typed
  <2>1. n + 1 - 0 = n + 1 /\ n + 1 \in 1..(n + 1)
    BY <1>6
  <2> QED
    BY <1>7, <2>1, EmptySeq
<1>9. ASSUME NEW k \in Nat, k \in Typed PROVE k + 1 \in Typed
  <2>1. SUFFICES ASSUME k + 1 <= n PROVE W[n + 1 - (k + 1)] \in Seq(Byte)
    OBVIOUS
  <2> DEFINE i == n + 1 - (k + 1)
  <2>2. i \in 1..n /\ i \in 1..(n + 1) /\ i # n + 1 /\ i + 1 = n + 1 - k /\ k <= n
    BY <1>6, <2>1
  <2>3. W[i + 1] \in Seq(Byte)
    BY <1>9, <2>2
  <2> HIDE DEF i
  <2>4. W[i] = Text(q[i].topic) \o (<<q[i].qos>> \o W[i + 1])
    BY <1>7, <2>2
  <2>5. W[i] \in Seq(Byte)
    BY <1>6, <2>2, <2>3, <2>4, WishTypes
  <2> QED
    BY <2>5 DEF i
<1>10. \A k \in Nat : k \in Typed
  <2> HIDE DEF Typed
  <2> QED
    BY <1>8, <1>9, NatInduction0
<1>11. ASSUME NEW i \in 1..(n + 1) PROVE W[i] \in Seq(Byte)
  <2>1. n + 1 - i \in Nat /\ n + 1 - i <= n /\ n + 1 - (n + 1 - i) = i
    BY <1>6
  <2> QED
    BY <1>10, <2>1
<1>12. W \in [1..(n + 1) -> Seq(Byte)]
  <2>1. W = [i \in 1..(n + 1) |-> W[i]]
    BY <1>3, <1>5 DEF n
  <2> QED
    BY <1>11, <2>1
<1> QED
  BY <1>4, <1>5, <1>12 DEF n

(* The i-th topic of q and those after it, as the decoder gives them.      *)
TopicsOf(q, i) == [j \in 1..(Len(q) + 1 - i) |-> Lossy(q[i + j - 1].topic)]

LEMMA TopicsLead ==
  ASSUME NEW q \in Seq(Wishes), NEW i \in 1..Len(q)
  PROVE  /\ TopicsOf(q, i + 1) \in Seq(Seq(Byte))
         /\ <<Lossy(q[i].topic)>> \o TopicsOf(q, i + 1) = TopicsOf(q, i)
<1> DEFINE n == Len(q)   u == TopicsOf(q, i + 1)   h == Lossy(q[i].topic)   w == TopicsOf(q, i)
<1>1. n \in Nat /\ i \in 1..n /\ \A k \in 1..n : Lossy(q[k].topic) \in Seq(Byte)
  <2>1. \A wish \in Wishes : Lossy(wish.topic) \in Seq(Byte)
    BY LossyTypes DEF Wishes, ShortText
  <2>2. n \in Nat /\ i \in 1..n /\ \A k \in 1..n : q[k] \in Wishes
    OBVIOUS
  <2> QED
    BY <2>1, <2>2
<1>2. u = [j \in 1..(n - i) |-> Lossy(q[i + j].topic)]
  <2>1. n + 1 - (i + 1) = n - i /\ \A j \in 1..(n - i) : i + 1 + j - 1 = i + j
    BY <1>1
  <2> QED
    BY <2>1 DEF TopicsOf
<1>3. w = [j \in 1..(n - i + 1) |-> Lossy(q[i + j - 1].topic)]
  <2>1. n + 1 - i = n - i + 1
    BY <1>1
  <2> QED
    BY <2>1 DEF TopicsOf
<1> HIDE DEF n, u, h, w
<1>4. u \in Seq(Seq(Byte)) /\ Len(u) = n - i
  <2> DEFINE m == n - i
  <2>1. m \in Nat /\ \A j \in 1..m : i + j \in 1..n
    BY <1>1
  <2>2. \A j \in 1..m : Lossy(q[i + j].topic) \in Seq(Byte)
    BY <1>1, <2>1
  <2> HIDE DEF m
  <2> QED
    BY <1>2, <2>1, <2>2 DEF m
<1>5. h \in Seq(Byte)
  BY <1>1 DEF h
<1>6. w \in Seq(Seq(Byte)) /\ Len(w) = n - i + 1
  <2> DEFINE m == n - i + 1
  <2>1. m \in Nat /\ \A j \in 1..m : i + j - 1 \in 1..n
    BY <1>1
  <2>2. \A j \in 1..m : Lossy(q[i + j - 1].topic) \in Seq(Byte)
    BY <1>1, <2>1
  <2> HIDE DEF m
  <2> QED
    BY <1>3, <2>1, <2>2 DEF m
<1>7. <<h>> \o u \in Seq(Seq(Byte)) /\ Len(<<h>> \o u) = n - i + 1
      /\ \A j \in 1..(n - i + 1) : (<<h>> \o u)[j] = IF j = 1 THEN h ELSE u[j - 1]
  <2> DEFINE one == <<h>>
  <2>1. one \in Seq(Seq(Byte)) /\ Len(one) = 1 /\ one[1] = h
    BY <1>5
  <2> HIDE DEF one
  <2>2. /\ one \o u \in Seq(Seq(Byte)) /\ Len(one \o u) = 1 + (n - i)
        /\ \A j \in 1..(1 + (n - i)) : (one \o u)[j] = IF j <= 1 THEN one[j] ELSE u[j - 1]
    <3> DEFINE T == Seq(Byte)
    <3>1. one \in Seq(T) /\ u \in Seq(T)
      BY <1>4, <2>1
    <3> HIDE DEF T
    <3>2. /\ one \o u \in Seq(T) /\ Len(one \o u) = Len(one) + Len(u)
          /\ \A j \in 1..(Len(one) + Len(u)) :
               (one \o u)[j] = IF j <= Len(one) THEN one[j] ELSE u[j - Len(one)]
      BY <3>1, ConcatProperties
    <3> QED
      BY <1>4, <2>1, <3>2 DEF T
  <2> QED
    BY <1>1, <2>1, <2>2 DEF one
<1>8. ASSUME NEW j \in 1..(n - i + 1) PROVE (<<h>> \o u)[j] = w[j]
  <2>1. CASE j = 1
    <3>1. i + 1 - 1 = i /\ 1 \in 1..(n - i + 1)
      BY <1>1
    <3>2. w[1] = Lossy(q[i].topic)
      BY <1>3, <3>1
    <3> QED
      BY <1>7, <2>1, <3>2 DEF h
  <2>2. CASE j # 1
    <3>1. j - 1 \in 1..(n - i) /\ i + (j - 1) = i + j - 1
      BY <1>1, <2>2
    <3>2. u[j - 1] = Lossy(q[i + j - 1].topic)
      BY <1>2, <3>1
    <3>3. w[j] = Lossy(q[i + j - 1].topic)
      BY <1>3
    <3> QED
      BY <1>7, <2>2, <3>2, <3>3
  <2> QED
    BY <2>1, <2>2
<1>9. <<h>> \o u = w
  BY <1>6, <1>7, <1>8, SeqEqual
<1> QED
  BY <1>4, <1>9 DEF u, h, w

LEMMA WishesLength ==
  ASSUME NEW b, NEW off, NEW x \in Wishes, NEW v \in Seq(Byte),
         At(b, off, Text(x.topic) \o (<<x.qos>> \o v))
  PROVE  /\ off < Len(b)
         /\ ReadBytes(b, off).bytes = x.topic
         /\ ReadBytes(b, off).off \in Nat
         /\ At(b, ReadBytes(b, off).off + 1, v)
<1> DEFINE u == <<x.qos>>   w == u \o v   s == x.topic   y == off + (2 + Len(s))
           r == ReadBytes(b, off)
<1>1. s \in ShortText /\ Len(s) \in Nat /\ u \in Seq(Byte) /\ Len(u) = 1
      /\ w \in Seq(Byte) /\ Joined(w, u, v)
  BY WishTypes DEF ShortText
<1>2. At(b, off, Text(s) \o w)
  OBVIOUS
<1> HIDE DEF u, w, s
<1>3. r = [bytes |-> s, off |-> y] /\ At(b, y, w)
  BY <1>1, <1>2, TextAt
<1>4. At(b, y + 1, v)
  BY <1>1, <1>3, Skip
<1>5. off \in Nat /\ y + 1 + Len(v) = Len(b) /\ Len(v) \in Nat
  <2>1. off \in Nat
    BY <1>2 DEF At
  <2> HIDE DEF y
  <2>2. y + 1 + Len(v) = Len(b)
    BY <1>4 DEF At
  <2> QED
    BY <2>1, <2>2
<1>6. r.bytes = s /\ r.off = y
  <2> HIDE DEF r, y
  <2> QED
    BY <1>3, ReadIs, Zenon
<1>7. off < Len(b) /\ y \in Nat
  BY <1>1, <1>5
<1> HIDE DEF r, y
<1>8. off < Len(b) /\ r.bytes = s /\ r.off \in Nat /\ At(b, r.off + 1, v)
  BY <1>4, <1>6, <1>7
<1> QED
  BY <1>8 DEF r, s

(* mqtt_wire.rs:199-213: of every SUBSCRIBE the packet id and the lossy    *)
(* text of every topic (the topic, where Utf8IsKept), in their order, are  *)
(* those of the client; its frame is read as one packet.  The None of the  *)
(* decoder is no list of topics.                                           *)
THEOREM SubscribeRoundTrip ==
  ASSUME NEW hi \in Byte, NEW lo \in Byte, NEW q \in Seq(Wishes),
         Ignored \notin Seq(Seq(Byte)), Len(SubscribeBody(hi, lo, q)) < MaxBody
  PROVE  /\ DecodeSubscribe(SubscribeBody(hi, lo, q)) = Asks(hi, lo, q)
         /\ NextFrame(Frame(130, SubscribeBody(hi, lo, q))) =
              [total |-> Len(Frame(130, SubscribeBody(hi, lo, q))), packet |-> Asks(hi, lo, q)]
<1> DEFINE n == Len(q)   b == SubscribeBody(hi, lo, q)   two == <<hi, lo>>
<1>1. n \in Nat /\ \A i \in 1..n : q[i] \in Wishes
  OBVIOUS
<1>2. PICK rest \in [1..(n + 1) -> Seq(Byte)] :
         WishesBody(q) = rest[1] /\ \A i \in 1..(n + 1) : rest[i] = WishesStep(rest, q, i)
  BY WishesUnfold
<1>3. two \in Seq(Byte) /\ Len(two) = 2 /\ two[1] = hi /\ two[2] = lo
  OBVIOUS
<1>4. rest[1] \in Seq(Byte)
  <2>1. 1 \in 1..(n + 1)
    BY <1>1
  <2> HIDE DEF n
  <2> QED
    BY <1>2, <2>1
<1>5. b = two \o rest[1]
  BY <1>2, Zenon DEF SubscribeBody
<1> HIDE DEF two
<1>6. Joined(b, two, rest[1])
  BY <1>3, <1>4, <1>5, Join
<1>7. b \in Seq(Byte)
  BY <1>6 DEF Joined
<1> HIDE DEF b
<1>8. Len(b) >= 2 /\ Word(b, 1) = hi * 256 + lo
  <2>1. Len(b) = 2 + Len(rest[1]) /\ Len(rest[1]) \in Nat
    BY <1>3, <1>4, <1>6 DEF Joined
  <2>2. b[1] = hi /\ b[1 + 1] = lo
    BY <1>3, <1>6 DEF Joined
  <2> QED
    BY <2>1, <2>2 DEF Word
<1>9. At(b, 2, rest[1])
  <2>1. At(b, 0 + Len(two), rest[1])
    BY <1>3, <1>4, <1>6, <1>7, AtStart, Skip
  <2> QED
    BY <1>3, <2>1
<1>10. PICK g : TopicsFrom(b) = g[2] /\ \A off \in Nat : g[off] = TopicsStep(g, b, off)
  BY <1>7, TopicsUnfold
<1> DEFINE Told(k) == \A off : At(b, off, rest[n + 1 - k]) => g[off] = TopicsOf(q, n + 1 - k)
           Known == {k \in Nat : k <= n => Told(k)}
<1>11. 0 \in Known
  <2> SUFFICES ASSUME NEW off, At(b, off, rest[n + 1 - 0]) PROVE g[off] = TopicsOf(q, n + 1 - 0)
    OBVIOUS
  <2>1. n + 1 - 0 = n + 1 /\ n + 1 \in 1..(n + 1)
    BY <1>1
  <2>2. rest[n + 1] = <<>>
    BY <1>2, <2>1 DEF WishesStep
  <2>3. At(b, off, <<>>)
    BY <2>1, <2>2
  <2>4. off \in Nat /\ off = Len(b)
    BY <2>3 DEF At
  <2>5. g[off] = <<>>
    <3>1. off >= Len(b)
      BY <2>4
    <3>2. TopicsStep(g, b, off) = <<>>
      BY <3>1, Zenon DEF TopicsStep
    <3> QED
      BY <1>10, <2>4, <3>2, Zenon
  <2>6. TopicsOf(q, n + 1) = <<>>
    <3>1. Len(q) + 1 - (n + 1) = 0
      BY <1>1
    <3> QED
      BY <3>1 DEF TopicsOf
  <2> QED
    BY <2>1, <2>5, <2>6
<1>12. ASSUME NEW k \in Nat, k \in Known PROVE k + 1 \in Known
  <2> SUFFICES ASSUME k + 1 <= n PROVE Told(k + 1)
    OBVIOUS
  <2> DEFINE i == n + 1 - (k + 1)
  <2>1. i \in 1..n /\ i \in 1..(n + 1) /\ i # n + 1 /\ i + 1 \in 1..(n + 1)
        /\ i + 1 = n + 1 - k /\ k <= n
    BY <1>1
  <2>2. Told(k)
    BY <1>12, <2>1
  <2>3. \A off : At(b, off, rest[i + 1]) => g[off] = TopicsOf(q, i + 1)
    BY <2>1, <2>2
  <2> HIDE DEF Told, i, n
  <2>4. rest[i] = Text(q[i].topic) \o (<<q[i].qos>> \o rest[i + 1]) /\ rest[i + 1] \in Seq(Byte)
    BY <1>2, <2>1 DEF WishesStep, n
  <2>5. q[i] \in Wishes
    BY <1>1, <2>1
  <2>6. ASSUME NEW off, At(b, off, rest[i]) PROVE g[off] = TopicsOf(q, i)
    <3> DEFINE t == ReadBytes(b, off)   x == q[i]   v == rest[i + 1]   more == TopicsOf(q, i + 1)
    <3>1. x \in Wishes /\ v \in Seq(Byte) /\ At(b, off, Text(x.topic) \o (<<x.qos>> \o v))
      BY <2>4, <2>5, <2>6
    <3> HIDE DEF x, v
    <3>2. /\ off < Len(b) /\ t.bytes = x.topic /\ t.off \in Nat /\ At(b, t.off + 1, v)
      BY <3>1, WishesLength
    <3>3. off \in Nat /\ Len(b) \in Nat
      BY <3>1 DEF At
    <3>4. g[t.off + 1] = more
      BY <2>3, <3>2 DEF v
    <3>5. more \in Seq(Seq(Byte)) /\ <<Lossy(q[i].topic)>> \o more = TopicsOf(q, i)
      BY <2>1, TopicsLead DEF n
    <3> HIDE DEF more
    <3>6. more # Ignored
      BY <3>5
    <3>7. g[off] = IF off >= Len(b) THEN <<>>
                   ELSE IF t.off < 0 \/ g[t.off + 1] = Ignored THEN Ignored
                   ELSE <<Lossy(t.bytes)>> \o g[t.off + 1]
      BY <1>10, <3>3 DEF TopicsStep
    <3> HIDE DEF t
    <3>8. g[off] = <<Lossy(t.bytes)>> \o more
      BY <3>2, <3>3, <3>4, <3>6, <3>7
    <3> QED
      BY <3>2, <3>5, <3>8, Zenon DEF x
  <2> QED
    BY <2>6 DEF Told, i
<1>13. \A k \in Nat : k \in Known
  <2> HIDE DEF Known
  <2> QED
    BY <1>11, <1>12, NatInduction0
<1>14. TopicsFrom(b) = TopicsOf(q, 1)
  <2>1. n <= n /\ n + 1 - n = 1
    BY <1>1
  <2>2. Told(n)
    BY <1>1, <1>13, <2>1
  <2>3. \A off : At(b, off, rest[1]) => g[off] = TopicsOf(q, 1)
    BY <2>1, <2>2
  <2> QED
    BY <1>9, <1>10, <2>3
<1>15. TopicsOf(q, 1) = AskedFor(q) /\ AskedFor(q) \in Seq(Seq(Byte))
  <2>1. Len(q) + 1 - 1 = Len(q) /\ \A j \in 1..Len(q) : 1 + j - 1 = j
    BY <1>1
  <2>2. TopicsOf(q, 1) = AskedFor(q)
    BY <2>1 DEF TopicsOf, AskedFor
  <2>3. \A wish \in Wishes : Lossy(wish.topic) \in Seq(Byte)
    BY LossyTypes DEF Wishes, ShortText
  <2>4. \A j \in 1..n : Lossy(q[j].topic) \in Seq(Byte)
    BY <1>1, <2>3
  <2> QED
    BY <1>1, <2>2, <2>4 DEF AskedFor
<1> HIDE DEF n
<1>16. DecodeSubscribe(b) = Asks(hi, lo, q)
  <2>1. ~(Len(b) < 2 \/ TopicsFrom(b) = Ignored)
    <3>1. Len(b) \in Nat
      BY <1>7
    <3> QED
      BY <1>8, <1>14, <1>15, <3>1
  <2> QED
    BY <1>8, <1>14, <1>15, <2>1 DEF DecodeSubscribe, Asks
<1>17. 130 \in Byte /\ 130 \div 16 = 8 /\ 130 % 16 = 2
  BY DEF Byte
<1>18. NextFrame(Frame(130, b)) = [total |-> Len(Frame(130, b)), packet |-> DecodeBody(8, 2, b)]
  <2>1. Len(b) < MaxBody
    BY DEF b
  <2> QED
    BY <1>7, <1>17, <2>1, FrameRead
<1>19. DecodeBody(8, 2, b) = DecodeSubscribe(b)
  BY DEF DecodeBody
<1> QED
  BY <1>16, <1>18, <1>19 DEF b

(* What is framed is read as what its body is. *)
Encoded(item) ==
  \E header \in Byte, body \in Seq(Byte) :
    Len(body) < MaxBody /\ item = [bytes |-> Frame(header, body),
                                   means |-> DecodeBody(header \div 16, header % 16, body)]

(* mqtt_wire.rs:255-284,73-93: every packet that the encoders frame is     *)
(* decoded as one packet of exactly its bytes, for every body the protocol *)
(* has a length for.                                                       *)
THEOREM FramesDecodeWhole ==
  ASSUME \A s \in Sendings : \A i \in DOMAIN s : s[i].means = Malformed \/ Encoded(s[i])
  PROVE  Spec => []DecodesWhole
<1>1. ASSUME NEW item, Encoded(item)
      PROVE  NextFrame(item.bytes) = [total |-> Len(item.bytes), packet |-> item.means]
  <2>1. PICK header \in Byte, body \in Seq(Byte) :
           Len(body) < MaxBody /\ item = [bytes |-> Frame(header, body),
                                          means |-> DecodeBody(header \div 16, header % 16, body)]
    BY <1>1 DEF Encoded
  <2>2. /\ item.bytes = Frame(header, body)
        /\ item.means = DecodeBody(header \div 16, header % 16, body)
    BY <2>1
  <2>3. NextFrame(Frame(header, body)) =
          [total |-> Len(Frame(header, body)),
           packet |-> DecodeBody(header \div 16, header % 16, body)]
    BY <2>1, FrameRead
  <2> QED
    BY <2>2, <2>3
<1>2. TypeOK => DecodesWhole
  <2> SUFFICES ASSUME TypeOK, NEW i \in DOMAIN sending, sending[i].means # Malformed
               PROVE  NextFrame(sending[i].bytes) =
                        [total |-> Len(sending[i].bytes), packet |-> sending[i].means]
    BY DEF DecodesWhole
  <2>1. Encoded(sending[i])
    BY DEF TypeOK
  <2> QED
    BY <1>1, <2>1
<1> QED
  BY <1>2, TypeSafety, PTL

(* mqtt_wire.rs:51-52,73: the encoders and the decoder together, with no   *)
(* hypothesis on what a run has seen: however the stream of framed packets *)
(* is cut into reads, the packets decoded are those sent.                  *)
THEOREM FramesArrive ==
  ASSUME \A s \in Sendings : \A i \in DOMAIN s : s[i].means = Malformed \/ Encoded(s[i])
  PROVE  Spec => []DecodedAsSent
<1>1. Spec => []DecodesWhole
  BY FramesDecodeWhole
<1> QED
  BY <1>1, DecodesWhatWasSent, PTL

(* mqtt_wire.rs:255-284 with 51-52: and of any publications, in the same   *)
(* order, each as it was published, a topic that is no UTF-8 as its lossy  *)
(* text.                                                                   *)
THEOREM PublicationsArrive ==
  ASSUME \A s \in Sendings : \A i \in DOMAIN s :
           \E topic \in Seq(Byte), payload \in Seq(Byte), retain \in BOOLEAN :
             /\ Len(topic) < MaxText /\ 2 + Len(topic) + Len(payload) < MaxBody
             /\ s[i] = [bytes |-> Publish(topic, payload, retain),
                        means |-> Publication(topic, payload, retain)]
  PROVE  Spec => []DecodedAsSent
<1>1. TypeOK => DecodesWhole
  <2> SUFFICES ASSUME TypeOK, NEW i \in DOMAIN sending
               PROVE  NextFrame(sending[i].bytes) =
                        [total |-> Len(sending[i].bytes), packet |-> sending[i].means]
    BY DEF DecodesWhole
  <2>1. PICK topic \in Seq(Byte), payload \in Seq(Byte), retain \in BOOLEAN :
           /\ Len(topic) < MaxText /\ 2 + Len(topic) + Len(payload) < MaxBody
           /\ sending[i] = [bytes |-> Publish(topic, payload, retain),
                            means |-> Publication(topic, payload, retain)]
    BY DEF TypeOK
  <2>2. /\ sending[i].bytes = Publish(topic, payload, retain)
        /\ sending[i].means = Publication(topic, payload, retain)
    BY <2>1
  <2>3. NextFrame(Publish(topic, payload, retain)) =
          [total |-> Len(Publish(topic, payload, retain)),
           packet |-> Publication(topic, payload, retain)]
    BY <2>1, PublishRoundTrip
  <2> QED
    BY <2>2, <2>3
<1>2. Spec => []DecodesWhole
  BY <1>1, TypeSafety, PTL
<1> QED
  BY <1>2, DecodesWhatWasSent, PTL

(* mqtt_wire.rs:51-93,137-213: what clients say, in any order.             *)
Said(item) ==
  \/ \E topic \in Seq(Byte), payload \in Seq(Byte), retain \in BOOLEAN :
       /\ Len(topic) < MaxText /\ 2 + Len(topic) + Len(payload) < MaxBody
       /\ item = [bytes |-> Publish(topic, payload, retain),
                  means |-> Publication(topic, payload, retain)]
  \/ \E c \in Clients :
       item = [bytes |-> Frame(16, ConnectBody(c)), means |-> Introduces(c)]
  \/ \E hi, lo \in Byte, q \in Seq(Wishes) :
       /\ Len(SubscribeBody(hi, lo, q)) < MaxBody
       /\ item = [bytes |-> Frame(130, SubscribeBody(hi, lo, q)), means |-> Asks(hi, lo, q)]

(* mqtt_wire.rs:51-52,137-213: whatever CONNECTs, SUBSCRIBEs and QoS 0     *)
(* publications a client sends, and however they are cut into reads, the   *)
(* packets decoded are those it sent, in their order, their texts the      *)
(* lossy ones: where they are UTF-8 the texts it sent (Utf8IsKept).        *)
THEOREM ClientsAreHeard ==
  ASSUME Ignored \notin Seq(Seq(Byte)), \A s \in Sendings : \A i \in DOMAIN s : Said(s[i])
  PROVE  Spec => []DecodedAsSent
<1>1. ASSUME NEW item, Said(item)
      PROVE  NextFrame(item.bytes) = [total |-> Len(item.bytes), packet |-> item.means]
  <2>1. CASE \E topic \in Seq(Byte), payload \in Seq(Byte), retain \in BOOLEAN :
               /\ Len(topic) < MaxText /\ 2 + Len(topic) + Len(payload) < MaxBody
               /\ item = [bytes |-> Publish(topic, payload, retain),
                          means |-> Publication(topic, payload, retain)]
    <3>1. PICK topic \in Seq(Byte), payload \in Seq(Byte), retain \in BOOLEAN :
            /\ Len(topic) < MaxText /\ 2 + Len(topic) + Len(payload) < MaxBody
            /\ item = [bytes |-> Publish(topic, payload, retain),
                       means |-> Publication(topic, payload, retain)]
      BY <2>1
    <3>2. /\ item.bytes = Publish(topic, payload, retain)
          /\ item.means = Publication(topic, payload, retain)
      BY <3>1
    <3>3. NextFrame(Publish(topic, payload, retain)) =
            [total |-> Len(Publish(topic, payload, retain)),
             packet |-> Publication(topic, payload, retain)]
      BY <3>1, PublishRoundTrip
    <3> QED
      BY <3>2, <3>3
  <2>2. CASE \E c \in Clients :
               item = [bytes |-> Frame(16, ConnectBody(c)), means |-> Introduces(c)]
    <3>1. PICK c \in Clients :
            item = [bytes |-> Frame(16, ConnectBody(c)), means |-> Introduces(c)]
      BY <2>2
    <3>2. item.bytes = Frame(16, ConnectBody(c)) /\ item.means = Introduces(c)
      BY <3>1
    <3>3. NextFrame(Frame(16, ConnectBody(c))) =
            [total |-> Len(Frame(16, ConnectBody(c))), packet |-> Introduces(c)]
      BY ConnectRoundTrip
    <3> QED
      BY <3>2, <3>3
  <2>3. CASE \E hi, lo \in Byte, q \in Seq(Wishes) :
               /\ Len(SubscribeBody(hi, lo, q)) < MaxBody
               /\ item = [bytes |-> Frame(130, SubscribeBody(hi, lo, q)), means |-> Asks(hi, lo, q)]
    <3>1. PICK hi \in Byte, lo \in Byte, q \in Seq(Wishes) :
            /\ Len(SubscribeBody(hi, lo, q)) < MaxBody
            /\ item = [bytes |-> Frame(130, SubscribeBody(hi, lo, q)), means |-> Asks(hi, lo, q)]
      BY <2>3
    <3>2. item.bytes = Frame(130, SubscribeBody(hi, lo, q)) /\ item.means = Asks(hi, lo, q)
      BY <3>1
    <3>3. NextFrame(Frame(130, SubscribeBody(hi, lo, q))) =
            [total |-> Len(Frame(130, SubscribeBody(hi, lo, q))), packet |-> Asks(hi, lo, q)]
      BY <3>1, SubscribeRoundTrip
    <3> QED
      BY <3>2, <3>3
  <2> QED
    BY <1>1, <2>1, <2>2, <2>3 DEF Said
<1>2. TypeOK => DecodesWhole
  <2> SUFFICES ASSUME TypeOK, NEW i \in DOMAIN sending
               PROVE  NextFrame(sending[i].bytes) =
                        [total |-> Len(sending[i].bytes), packet |-> sending[i].means]
    BY DEF DecodesWhole
  <2>1. Said(sending[i])
    BY DEF TypeOK
  <2> QED
    BY <1>1, <2>1
<1>3. Spec => []DecodesWhole
  BY <1>2, TypeSafety, PTL
<1> QED
  BY <1>3, DecodesWhatWasSent, PTL
=============================================================================
