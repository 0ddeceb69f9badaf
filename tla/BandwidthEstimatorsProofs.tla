--------------------- MODULE BandwidthEstimatorsProofs ---------------------
(***************************************************************************)
(* The estimators are means of what they look at, for every history, any   *)
(* window size and any two windows in time; and the assertion in           *)
(* AverageBandwidth holds as long as no pause between two segments is as   *)
(* long as the earlier window.  The sums are folds: a lemma says that      *)
(* those exist and goes along their steps, the rest is exact arithmetic.   *)
(***************************************************************************)
EXTENDS BandwidthEstimators, SequenceTheorems, WellFoundedInduction, TLAPS

-----------------------------------------------------------------------------
(* Searches and folds over a sequence.                                     *)

\* A set of natural numbers has a least one.
LEMMA Least ==
  ASSUME NEW S \in SUBSET Nat, S # {}
  PROVE  \E x \in S : \A y \in S : x <= y
<1>1. PICK x \in S : \A y \in S : ~ (<<y, x>> \in OpToRel(<, Nat))
  BY NatLessThanWellFounded, WFMin
<1>2. \A y \in S : ~ (y < x)
  BY <1>1 DEF OpToRel
<1> QED
  BY <1>2

\* A search from the end finds the last index of some.
LEMMA LastIndex ==
  ASSUME NEW n \in Nat, NEW S \in SUBSET (1 .. n), S # {}
  PROVE  \E x \in S : \A y \in S : x >= y
<1> DEFINE D == {n - x : x \in S}
<1>0. \A x \in S : n - x \in Nat
  OBVIOUS
<1>1. D \in SUBSET Nat /\ D # {}
  BY <1>0, Zenon
<1>2. PICK d \in D : \A e \in D : d <= e
  BY <1>1, Least
<1>3. PICK x \in S : d = n - x
  BY <1>2
<1> QED
  BY <1>2, <1>3

\* Induction along an interval: what holds at 0 and goes on holds everywhere.
LEMMA AlongInterval ==
  ASSUME NEW n \in Nat, NEW Good \in SUBSET Int, 0 \in Good,
         \A i \in 1 .. n : i - 1 \in Good => i \in Good
  PROVE  0 .. n \subseteq Good
<1> DEFINE Bad == {i \in 0 .. n : i \notin Good}
<1>1. SUFFICES ASSUME Bad # {} PROVE FALSE
  OBVIOUS
<1>2. PICK k \in Bad : \A j \in Bad : k <= j
  <2>1. Bad \in SUBSET Nat
    OBVIOUS
  <2> HIDE DEF Bad
  <2> QED
    BY <1>1, <2>1, Least
<1>3. k # 0 /\ k \in 0 .. n /\ k \notin Good
  OBVIOUS
<1>4. k - 1 \in 0 .. n /\ ~(k <= k - 1) /\ k \in 1 .. n
  BY <1>3
<1>5. k - 1 \in Good
  BY <1>2, <1>4
<1> QED
  BY <1>3, <1>4, <1>5

\* The greatest number of a set that is not empty.
LEMMA Greatest ==
  ASSUME NEW n \in Nat, NEW s \in SUBSET (1 .. n), s # {}
  PROVE  Max(s) \in s /\ \A y \in s : Max(s) >= y
BY LastIndex DEF Max

\* The greatest number of an interval, and what is left without it.
LEMMA GreatestOfInterval ==
  ASSUME NEW n \in Nat, NEW k \in 1 .. n
  PROVE  Max(1 .. k) = k /\ (1 .. k) \ {Max(1 .. k)} = 1 .. k - 1 /\ 1 .. k # {}
<1>1. 1 .. k \in SUBSET (1 .. n) /\ k \in 1 .. k /\ 1 .. k # {}
  OBVIOUS
<1>2. Max(1 .. k) \in 1 .. k /\ Max(1 .. k) >= k
  BY <1>1, Greatest
<1>3. Max(1 .. k) = k
  BY <1>2
<1> QED
  BY <1>1, <1>3

\* f is the fold of n steps G from base, on all sets of them, as MapThenFoldSet has it:
\* each set after its greatest step.
FoldOf(n, base, G, f) ==
  \A s \in SUBSET (1 .. n) : f[s] = IF s = {} THEN base ELSE G[Max(s)][f[s \ {Max(s)}]]

\* There is such a fold.
LEMMA FoldExists ==
  ASSUME NEW n \in Nat, NEW R, NEW base \in R, NEW G \in [1 .. n -> [R -> R]]
  PROVE  \E f \in [SUBSET (1 .. n) -> R] : FoldOf(n, base, G, f)
<1> DEFINE Solves(k, f) ==
             \A s \in SUBSET (1 .. k) :
               f[s] = IF s = {} THEN base ELSE G[Max(s)][f[s \ {Max(s)}]]
           Good == {k \in 0 .. n : \E f \in [SUBSET (1 .. n) -> R] : Solves(k, f)}
<1>1. 0 \in Good
  <2> DEFINE g == [s \in SUBSET (1 .. n) |-> base]
  <2>1. g \in [SUBSET (1 .. n) -> R]
    OBVIOUS
  <2>2. Solves(0, g)
    <3> TAKE s \in SUBSET (1 .. 0)
    <3>1. s = {} /\ s \in SUBSET (1 .. n)
      OBVIOUS
    <3> QED
      BY <3>1
  <2> HIDE DEF g, Solves
  <2> QED
    BY <2>1, <2>2
<1>2. ASSUME NEW k \in 1 .. n, k - 1 \in Good PROVE k \in Good
  <2>1. PICK f \in [SUBSET (1 .. n) -> R] : Solves(k - 1, f)
    BY <1>2
  <2> DEFINE g == [s \in SUBSET (1 .. n) |-> IF k \in s THEN G[k][f[s \ {k}]] ELSE f[s]]
  <2>2. g \in [SUBSET (1 .. n) -> R]
    <3> SUFFICES ASSUME NEW s \in SUBSET (1 .. n)
                 PROVE  (IF k \in s THEN G[k][f[s \ {k}]] ELSE f[s]) \in R
      OBVIOUS
    <3>1. s \ {k} \in SUBSET (1 .. n) /\ G[k] \in [R -> R]
      OBVIOUS
    <3>2. f[s \ {k}] \in R /\ f[s] \in R
      BY <3>1
    <3> QED
      BY <3>1, <3>2
  <2>3. Solves(k, g)
    <3> SUFFICES ASSUME NEW s \in SUBSET (1 .. k)
                 PROVE  g[s] = IF s = {} THEN base ELSE G[Max(s)][g[s \ {Max(s)}]]
      OBVIOUS
    <3>1. s \in SUBSET (1 .. n) /\ s \ {k} \in SUBSET (1 .. n)
      OBVIOUS
    <3>2. CASE k \in s
      <4>1. Max(s) \in s /\ Max(s) >= k /\ s # {}
        BY <3>1, <3>2, Greatest
      <4>2. Max(s) = k
        <5>1. Max(s) \in 1 .. k
          BY <4>1
        <5> QED
          BY <4>1, <5>1
      <4>3. g[s] = G[k][f[s \ {k}]] /\ g[s \ {k}] = f[s \ {k}]
        BY <3>1, <3>2
      <4> QED
        BY <4>1, <4>2, <4>3
    <3>3. CASE k \notin s
      <4>1. s \in SUBSET (1 .. k - 1)
        BY <3>3
      <4>2. f[s] = IF s = {} THEN base ELSE G[Max(s)][f[s \ {Max(s)}]]
        BY <2>1, <4>1
      <4>3. g[s] = f[s]
        BY <3>1, <3>3
      <4>4. s \ {Max(s)} \in SUBSET (1 .. n) /\ k \notin s \ {Max(s)}
        BY <3>1, <3>3
      <4>5. g[s \ {Max(s)}] = f[s \ {Max(s)}]
        BY <4>4
      <4> QED
        BY <4>2, <4>3, <4>5
    <3> QED
      BY <3>2, <3>3
  <2> HIDE DEF g, Solves
  <2> QED
    BY <2>2, <2>3
<1>3. n \in Good
  <2>1. Good \in SUBSET Int /\ n \in 0 .. n
    OBVIOUS
  <2> HIDE DEF Good
  <2>2. 0 .. n \subseteq Good
    BY <1>1, <1>2, <2>1, AlongInterval
  <2> QED
    BY <2>1, <2>2
<1> QED
  BY <1>3 DEF FoldOf

\* F takes those steps, from what is in R.
StepsIn(n, R, G, F) ==
  \A t \in SUBSET (1 .. n) :
    t # {} /\ F[t \ {Max(t)}] \in R => F[t] = G[Max(t)][F[t \ {Max(t)}]]

\* A fold goes through the intervals, and stays where its steps stay.
LEMMA FoldIn ==
  ASSUME NEW n \in Nat, NEW R, NEW base \in R, NEW G \in [1 .. n -> [R -> R]], NEW F,
         F[{}] = base, StepsIn(n, R, G, F)
  PROVE  /\ \A k \in 0 .. n : F[1 .. k] \in R
         /\ \A k \in 1 .. n : F[1 .. k] = G[k][F[1 .. k - 1]]
<1> DEFINE Good == {k \in 0 .. n : F[1 .. k] \in R}
<1>1. 0 \in Good
  <2>1. 1 .. 0 = {} /\ 0 \in 0 .. n
    OBVIOUS
  <2> QED
    BY <2>1
<1>2. ASSUME NEW k \in 1 .. n, F[1 .. k - 1] \in R
      PROVE  F[1 .. k] = G[k][F[1 .. k - 1]]
  <2>1. 1 .. k \in SUBSET (1 .. n)
    OBVIOUS
  <2>2. Max(1 .. k) = k /\ (1 .. k) \ {Max(1 .. k)} = 1 .. k - 1 /\ 1 .. k # {}
    BY GreatestOfInterval
  <2> QED
    BY <1>2, <2>1, <2>2 DEF StepsIn
<1>3. ASSUME NEW k \in 1 .. n, k - 1 \in Good PROVE k \in Good
  <2>1. F[1 .. k - 1] \in R /\ G[k] \in [R -> R]
    BY <1>3
  <2> QED
    BY <1>2, <2>1
<1>4. Good \in SUBSET Int
  OBVIOUS
<1>5. 0 .. n \subseteq Good
  <2> HIDE DEF Good
  <2> QED
    BY <1>1, <1>3, <1>4, AlongInterval
<1>6. \A k \in 0 .. n : F[1 .. k] \in R
  BY <1>5
<1>7. \A k \in 1 .. n : F[1 .. k - 1] \in R
  <2> TAKE k \in 1 .. n
  <2>1. k - 1 \in 0 .. n
    OBVIOUS
  <2> QED
    BY <1>6, <2>1
<1> QED
  BY <1>2, <1>6, <1>7

-----------------------------------------------------------------------------
(* Fractions.                                                              *)

\* Fractions with a sign and without one.
Signed == Int \X (Nat \ {0})
Fractions == Nat \X (Nat \ {0})

\* Products are compared as their factors.
LEMMA MulMono ==
  ASSUME NEW x \in Int, NEW y \in Int, NEW z \in Nat, x <= y
  PROVE  x * z <= y * z
OBVIOUS

\* A positive factor may be dropped.
LEMMA MulCancel ==
  ASSUME NEW x \in Int, NEW y \in Int, NEW z \in Nat \ {0}, x * z <= y * z
  PROVE  x <= y
OBVIOUS

\* Division without a rest.
LEMMA Divided ==
  ASSUME NEW n \in Int, NEW g \in Nat \ {0}, n % g = 0
  PROVE  n = (n \div g) * g /\ n \div g \in Int
OBVIOUS

\* The greatest common divisor divides.
LEMMA GcdDivides ==
  ASSUME NEW n \in Int, NEW d \in Nat \ {0}
  PROVE  Gcd(n, d) \in Nat \ {0} /\ n % Gcd(n, d) = 0 /\ d % Gcd(n, d) = 0
<1> DEFINE D == {k \in 1 .. d : n % k = 0 /\ d % k = 0}
<1>1. 1 \in D
  OBVIOUS
<1>2. Max(D) \in D
  <2>1. D \in SUBSET (1 .. d)
    OBVIOUS
  <2> HIDE DEF D
  <2> QED
    BY <1>1, <2>1, Greatest
<1> QED
  BY <1>2 DEF Gcd

\* Reducing does not change the value.
LEMMA ReducedSame ==
  ASSUME NEW n \in Int, NEW d \in Nat \ {0}
  PROVE  /\ Reduced(n, d) \in Signed
         /\ Same(Reduced(n, d), <<n, d>>)
         /\ n >= 0 => Reduced(n, d) \in Fractions
<1> DEFINE g == Gcd(n, d)
           a == n \div g
           b == d \div g
<1>1. g \in Nat \ {0} /\ n % g = 0 /\ d % g = 0
  BY GcdDivides
<1> HIDE DEF g
<1>2. n = a * g /\ a \in Int
  BY <1>1, Divided
<1>3. d = b * g /\ b \in Int
  BY <1>1, Divided
<1> HIDE DEF a, b
<1>4. b > 0
  BY <1>1, <1>3
<1>5. n >= 0 => a >= 0
  BY <1>1, <1>2
<1>6. a * d = n * b
  <2>1. a * (b * g) = (a * g) * b
    BY <1>1, <1>2, <1>3
  <2> QED
    BY <1>2, <1>3, <2>1
<1>7. Reduced(n, d) = <<a, b>>
  BY DEF Reduced, g, a, b
<1> QED
  BY <1>2, <1>3, <1>4, <1>5, <1>6, <1>7 DEF Signed, Fractions, Same

\* Leq is an order.
LEMMA LeqTrans ==
  ASSUME NEW p \in Signed, NEW q \in Signed, NEW r \in Signed, Leq(p, q), Leq(q, r)
  PROVE  Leq(p, r)
<1> DEFINE a == p[1]
           b == p[2]
           c == q[1]
           d == q[2]
           e == r[1]
           f == r[2]
<1>1. /\ a \in Int /\ c \in Int /\ e \in Int
      /\ b \in Nat \ {0} /\ d \in Nat \ {0} /\ f \in Nat \ {0}
  BY DEF Signed
<1>2. a * d <= c * b /\ c * f <= e * d
  BY DEF Leq
<1> HIDE DEF a, b, c, d, e, f
<1>3. (a * d) * f <= (c * b) * f
  BY <1>1, <1>2, MulMono
<1>4. (c * f) * b <= (e * d) * b
  BY <1>1, <1>2, MulMono
<1>5. (a * f) * d <= (e * b) * d
  <2>1. (a * d) * f = (a * f) * d /\ (c * b) * f = (c * f) * b /\ (e * d) * b = (e * b) * d
    BY <1>1
  <2>2. \A x, y, z \in Int : x <= y /\ y <= z => x <= z
    OBVIOUS
  <2>3. (a * d) * f \in Int /\ (c * b) * f \in Int /\ (e * d) * b \in Int
    BY <1>1
  <2> QED
    BY <1>3, <1>4, <2>1, <2>2, <2>3
<1>6. a * f <= e * b
  <2>1. a * f \in Int /\ e * b \in Int
    BY <1>1
  <2> QED
    BY <1>1, <1>5, <2>1, MulCancel
<1> QED
  BY <1>6 DEF Leq, a, b, e, f

\* Fractions are the same when each is at most the other.
LEMMA SameLeq ==
  ASSUME NEW p \in Signed, NEW q \in Signed
  PROVE  /\ Same(p, q) <=> Leq(p, q) /\ Leq(q, p)
         /\ Same(p, q) <=> Same(q, p)
         /\ Leq(p, q) \/ Leq(q, p)
<1>1. p[1] * q[2] \in Int /\ q[1] * p[2] \in Int
  BY DEF Signed
<1> QED
  BY <1>1 DEF Same, Leq

\* The sum before it is reduced.
RawPlus(p, q) == <<p[1] * q[2] + q[1] * p[2], p[2] * q[2]>>

\* Adding the same to both sides.
LEMMA RawPlusMono ==
  ASSUME NEW p \in Signed, NEW q \in Signed, NEW r \in Signed, Leq(p, q)
  PROVE  Leq(RawPlus(p, r), RawPlus(q, r))
<1> DEFINE a == p[1]
           b == p[2]
           c == q[1]
           d == q[2]
           e == r[1]
           f == r[2]
<1>1. /\ a \in Int /\ c \in Int /\ e \in Int
      /\ b \in Nat \ {0} /\ d \in Nat \ {0} /\ f \in Nat \ {0}
  BY DEF Signed
<1>2. a * d <= c * b
  BY DEF Leq
<1>3. RawPlus(p, r) = <<a * f + e * b, b * f>> /\ RawPlus(q, r) = <<c * f + e * d, d * f>>
  BY DEF RawPlus
<1> HIDE DEF a, b, c, d, e, f
<1>4. (a * f + e * b) * (d * f) = (a * d) * (f * f) + e * b * d * f
  BY <1>1
<1>5. (c * f + e * d) * (b * f) = (c * b) * (f * f) + e * b * d * f
  BY <1>1
<1>6. (a * d) * (f * f) <= (c * b) * (f * f)
  <2>1. a * d \in Int /\ c * b \in Int /\ f * f \in Nat
    BY <1>1
  <2> QED
    BY <1>2, <2>1, MulMono
<1>7. (a * f + e * b) * (d * f) <= (c * f + e * d) * (b * f)
  <2> DEFINE x == (a * d) * (f * f)
             y == (c * b) * (f * f)
             z == e * b * d * f
  <2>1. x \in Int /\ y \in Int /\ z \in Int
    BY <1>1
  <2> HIDE DEF x, y, z
  <2>2. x <= y => x + z <= y + z
    BY <2>1
  <2> QED
    BY <1>4, <1>5, <1>6, <2>2 DEF x, y, z
<1> QED
  BY <1>3, <1>7 DEF Leq

\* k times p.
Times(k, p) == <<k * p[1], p[2]>>

\* Being the same is transitive.
LEMMA SameTrans ==
  ASSUME NEW p \in Signed, NEW q \in Signed, NEW r \in Signed, Same(p, q), Same(q, r)
  PROVE  Same(p, r)
<1>1. Leq(p, q) /\ Leq(q, p) /\ Leq(q, r) /\ Leq(r, q)
  BY SameLeq
<1>2. Leq(p, r) /\ Leq(r, p)
  BY <1>1, LeqTrans
<1> QED
  BY <1>2, SameLeq

\* What is compared may be replaced by what is the same.
LEMMA LeqOfSame ==
  ASSUME NEW p \in Signed, NEW q \in Signed, NEW r \in Signed, Same(p, q)
  PROVE  (Leq(p, r) <=> Leq(q, r)) /\ (Leq(r, p) <=> Leq(r, q))
<1>1. Leq(p, q) /\ Leq(q, p)
  BY SameLeq
<1> QED
  BY <1>1, LeqTrans

\* A sum is a fraction, in either order.
LEMMA RawPlusSigned ==
  ASSUME NEW p \in Signed, NEW q \in Signed
  PROVE  /\ RawPlus(p, q) \in Signed
         /\ RawPlus(p, q) = RawPlus(q, p)
         /\ p \in Fractions /\ q \in Fractions => RawPlus(p, q) \in Fractions
<1> DEFINE a == p[1]
           b == p[2]
           c == q[1]
           d == q[2]
<1>1. a \in Int /\ c \in Int /\ b \in Nat \ {0} /\ d \in Nat \ {0}
  BY DEF Signed
<1>2. p \in Fractions /\ q \in Fractions => a \in Nat /\ c \in Nat
  BY DEF Fractions
<1>3. RawPlus(p, q) = <<a * d + c * b, b * d>> /\ RawPlus(q, p) = <<c * b + a * d, d * b>>
  BY DEF RawPlus
<1> HIDE DEF a, b, c, d
<1>4. a * d + c * b \in Int /\ b * d \in Nat \ {0} /\ b * d = d * b
      /\ a * d + c * b = c * b + a * d
  BY <1>1
<1>5. a \in Nat /\ c \in Nat => a * d + c * b \in Nat
  BY <1>1
<1> QED
  BY <1>2, <1>3, <1>4, <1>5 DEF Signed, Fractions

\* Plus reduces the sum.
LEMMA PlusIsRaw ==
  ASSUME NEW p \in Signed, NEW q \in Signed
  PROVE  /\ Plus(p, q) \in Signed
         /\ Same(Plus(p, q), RawPlus(p, q))
         /\ p \in Fractions /\ q \in Fractions => Plus(p, q) \in Fractions
<1> DEFINE n == p[1] * q[2] + q[1] * p[2]
           d == p[2] * q[2]
<1>1. RawPlus(p, q) = <<n, d>> /\ Plus(p, q) = Reduced(n, d)
  BY DEF RawPlus, Plus
<1> HIDE DEF n, d
<1>2. /\ n \in Int /\ d \in Nat \ {0}
      /\ p \in Fractions /\ q \in Fractions => n \in Nat
  BY <1>1, RawPlusSigned DEF Signed, Fractions
<1> QED
  BY <1>1, <1>2, ReducedSame

\* Sums are compared as their terms.
LEMMA PlusMono ==
  ASSUME NEW p \in Signed, NEW q \in Signed, NEW r \in Signed, NEW s \in Signed,
         Leq(p, q), Leq(r, s)
  PROVE  Leq(Plus(p, r), Plus(q, s))
<1>1. Leq(RawPlus(p, r), RawPlus(q, r))
  BY RawPlusMono
<1>2. Leq(RawPlus(q, r), RawPlus(q, s))
  <2>1. Leq(RawPlus(r, q), RawPlus(s, q))
    BY RawPlusMono
  <2> QED
    BY <2>1, RawPlusSigned
<1>3. RawPlus(p, r) \in Signed /\ RawPlus(q, r) \in Signed /\ RawPlus(q, s) \in Signed
  BY RawPlusSigned
<1>4. Leq(RawPlus(p, r), RawPlus(q, s))
  BY <1>1, <1>2, <1>3, LeqTrans
<1>5. /\ Plus(p, r) \in Signed /\ Same(Plus(p, r), RawPlus(p, r))
      /\ Plus(q, s) \in Signed /\ Same(Plus(q, s), RawPlus(q, s))
  BY PlusIsRaw
<1>6. Leq(Plus(p, r), RawPlus(q, s))
  BY <1>3, <1>4, <1>5, LeqOfSame
<1> QED
  BY <1>3, <1>5, <1>6, LeqOfSame

\* Sums of the same are the same.
LEMMA PlusSame ==
  ASSUME NEW p \in Signed, NEW q \in Signed, NEW r \in Signed, NEW s \in Signed,
         Same(p, q), Same(r, s)
  PROVE  Same(Plus(p, r), Plus(q, s))
<1>1. Leq(p, q) /\ Leq(q, p) /\ Leq(r, s) /\ Leq(s, r)
  BY SameLeq
<1>2. Leq(Plus(p, r), Plus(q, s)) /\ Leq(Plus(q, s), Plus(p, r))
  BY <1>1, PlusMono
<1>3. Plus(p, r) \in Signed /\ Plus(q, s) \in Signed
  BY PlusIsRaw
<1> QED
  BY <1>2, <1>3, SameLeq

\* Zero adds nothing.
LEMMA PlusZero ==
  ASSUME NEW p \in Signed
  PROVE  Same(Plus(p, Zero), p) /\ Zero \in Signed /\ Zero \in Fractions
<1>1. Zero \in Signed /\ Zero \in Fractions
  BY DEF Zero, Signed, Fractions
<1>2. p[1] \in Int /\ p[2] \in Int /\ p = <<p[1], p[2]>>
  BY DEF Signed
<1>3. RawPlus(p, Zero) = p
  BY <1>2 DEF RawPlus, Zero
<1> QED
  BY <1>1, <1>3, PlusIsRaw

\* The sum of k times p and p.
LEMMA TimesPlus ==
  ASSUME NEW p \in Signed, NEW k \in Nat
  PROVE  /\ Times(k, p) \in Signed
         /\ p \in Fractions => Times(k, p) \in Fractions
         /\ Same(Plus(Times(k, p), p), Times(k + 1, p))
<1> DEFINE a == p[1]
           b == p[2]
<1>1. a \in Int /\ b \in Nat \ {0} /\ (p \in Fractions => a \in Nat)
  BY DEF Signed, Fractions
<1>2. Times(k, p) = <<k * a, b>> /\ Times(k + 1, p) = <<(k + 1) * a, b>>
  BY DEF Times
<1>3. RawPlus(Times(k, p), p) = <<(k * a) * b + a * b, b * b>>
  BY <1>2 DEF RawPlus
<1> HIDE DEF a, b
<1>4. k * a \in Int /\ (k + 1) * a \in Int /\ (a \in Nat => k * a \in Nat)
  BY <1>1
<1>5. Times(k, p) \in Signed /\ Times(k + 1, p) \in Signed
      /\ (p \in Fractions => Times(k, p) \in Fractions)
  BY <1>1, <1>2, <1>4 DEF Signed, Fractions
<1>6. ((k * a) * b + a * b) * b = ((k + 1) * a) * (b * b)
  BY <1>1
<1>7. Same(RawPlus(Times(k, p), p), Times(k + 1, p))
  BY <1>2, <1>3, <1>6 DEF Same
<1>8. Plus(Times(k, p), p) \in Signed /\ RawPlus(Times(k, p), p) \in Signed
      /\ Same(Plus(Times(k, p), p), RawPlus(Times(k, p), p))
  BY <1>5, PlusIsRaw, RawPlusSigned
<1> QED
  BY <1>5, <1>7, <1>8, SameTrans

\* A k-th of p.
LEMMA OverIs ==
  ASSUME NEW p \in Signed, NEW k \in Nat \ {0}
  PROVE  /\ Over(p, k) \in Signed
         /\ p \in Fractions => Over(p, k) \in Fractions
         /\ Same(Times(k, Over(p, k)), p)
         /\ <<p[1], p[2] * k>> \in Signed /\ Same(Over(p, k), <<p[1], p[2] * k>>)
<1> DEFINE a == p[1]
           b == p[2]
<1>1. a \in Int /\ b \in Nat \ {0} /\ (p \in Fractions => a \in Nat)
  BY DEF Signed, Fractions
<1>2. Over(p, k) = Reduced(a, b * k) /\ p = <<a, b>>
  BY DEF Over, Signed
<1> HIDE DEF a, b
<1>3. b * k \in Nat \ {0}
  BY <1>1
<1>4. Over(p, k) \in Signed /\ Same(Over(p, k), <<a, b * k>>)
      /\ (p \in Fractions => Over(p, k) \in Fractions)
  BY <1>1, <1>2, <1>3, ReducedSame
<1>5. <<a, b * k>> \in Signed
  BY <1>1, <1>3 DEF Signed
<1>6. Same(Times(k, Over(p, k)), p)
  <2> DEFINE x == Over(p, k)[1]
             y == Over(p, k)[2]
  <2>1. x \in Int /\ y \in Nat \ {0} /\ x * (b * k) = a * y
    BY <1>4 DEF Same, Signed
  <2>2. Times(k, Over(p, k)) = <<k * x, y>>
    BY DEF Times
  <2> HIDE DEF x, y
  <2>3. (k * x) * b = x * (b * k)
    BY <1>1, <2>1
  <2> QED
    BY <1>2, <2>1, <2>2, <2>3 DEF Same
<1> QED
  BY <1>4, <1>5, <1>6 DEF a, b

\* Multiples are compared as what they are multiples of.
LEMMA TimesMono ==
  ASSUME NEW p \in Signed, NEW q \in Signed, NEW k \in Nat \ {0}
  PROVE  Leq(Times(k, p), Times(k, q)) <=> Leq(p, q)
<1> DEFINE a == p[1]
           b == p[2]
           c == q[1]
           d == q[2]
<1>1. a \in Int /\ c \in Int /\ b \in Nat \ {0} /\ d \in Nat \ {0}
  BY DEF Signed
<1>2. /\ Leq(p, q) <=> a * d <= c * b
      /\ Leq(Times(k, p), Times(k, q)) <=> (k * a) * d <= (k * c) * b
  BY DEF Leq, Times
<1> HIDE DEF a, b, c, d
<1>3. (k * a) * d = (a * d) * k /\ (k * c) * b = (c * b) * k /\ a * d \in Int /\ c * b \in Int
  BY <1>1
<1>4. a * d <= c * b => (a * d) * k <= (c * b) * k
  BY <1>3, MulMono
<1>5. (a * d) * k <= (c * b) * k => a * d <= c * b
  BY <1>3, MulCancel
<1> QED
  BY <1>2, <1>3, <1>4, <1>5

-----------------------------------------------------------------------------
(* Sums.                                                                   *)

\* SumOf adds one fraction after the other.
LEMMA SumSteps ==
  ASSUME NEW x \in Seq(Fractions)
  PROVE  \E f \in [0 .. Len(x) -> Fractions] :
           /\ f[0] = Zero /\ f[Len(x)] = SumOf(x)
           /\ \A k \in 1 .. Len(x) : f[k] = Plus(f[k - 1], x[k])
<1> DEFINE n == Len(x)
           R == Fractions
           none == Zero
           Step(k, r) == Plus(r, x[k])
           Solves(f) == f = [t \in SUBSET (1 .. n) |->
                               IF t = {} THEN none ELSE Step(Max(t), f[t \ {Max(t)}])]
           F == CHOOSE f : Solves(f)
           G == [k \in 1 .. n |-> [r \in R |-> Step(k, r)]]
<1>0. n \in Nat /\ DOMAIN x = 1 .. n /\ \A k \in 1 .. n : x[k] \in R
  OBVIOUS
<1>1. SumOf(x) = F[DOMAIN x]
  BY <1>0 DEF SumOf, FoldLeft, MapThenFoldSet
<1> HIDE DEF n
<1>2. \A k \in 1 .. n, r \in R : Step(k, r) \in R
  BY <1>0, PlusIsRaw DEF Signed, Fractions
<1>3. none \in R
  BY DEF Zero, Fractions
<1> HIDE DEF Step, R, none
<1>4. G \in [1 .. n -> [R -> R]]
  BY <1>2
<1>5. PICK f \in [SUBSET (1 .. n) -> R] : \A t \in SUBSET (1 .. n) :
        f[t] = IF t = {} THEN none ELSE G[Max(t)][f[t \ {Max(t)}]]
  <2> HIDE DEF G
  <2>1. \E f \in [SUBSET (1 .. n) -> R] : FoldOf(n, none, G, f)
    BY <1>0, <1>3, <1>4, FoldExists
  <2> QED
    BY <2>1 DEF FoldOf
<1>6. Solves(f)
  <2>1. \A t \in SUBSET (1 .. n) :
          f[t] = IF t = {} THEN none ELSE Step(Max(t), f[t \ {Max(t)}])
    <3> SUFFICES ASSUME NEW t \in SUBSET (1 .. n), t # {}
                 PROVE  f[t] = Step(Max(t), f[t \ {Max(t)}])
      BY <1>5
    <3>1. Max(t) \in 1 .. n /\ t \ {Max(t)} \in SUBSET (1 .. n)
      BY <1>0, Greatest
    <3>2. f[t] = G[Max(t)][f[t \ {Max(t)}]] /\ f[t \ {Max(t)}] \in R
      BY <1>5, <3>1
    <3> QED
      BY <3>1, <3>2
  <2> QED
    BY <2>1
<1>7. Solves(F)
  <2> HIDE DEF Solves
  <2> QED
    BY <1>6
<1> HIDE DEF F
<1>8. F[{}] = none
  <2>1. {} \in SUBSET (1 .. n)
    OBVIOUS
  <2> QED
    BY <1>7, <2>1
<1>9. StepsIn(n, R, G, F)
  <2> SUFFICES ASSUME NEW t \in SUBSET (1 .. n), t # {}, F[t \ {Max(t)}] \in R
               PROVE  F[t] = G[Max(t)][F[t \ {Max(t)}]]
    BY DEF StepsIn
  <2>1. Max(t) \in 1 .. n
    BY <1>0, Greatest
  <2>2. F[t] = Step(Max(t), F[t \ {Max(t)}])
    BY <1>7
  <2> QED
    BY <2>1, <2>2
<1>10. /\ \A k \in 0 .. n : F[1 .. k] \in R
       /\ \A k \in 1 .. n : F[1 .. k] = G[k][F[1 .. k - 1]]
  <2> HIDE DEF G
  <2> QED
    BY <1>0, <1>3, <1>4, <1>8, <1>9, FoldIn
<1> DEFINE p == [k \in 0 .. n |-> F[1 .. k]]
<1>11. p \in [0 .. n -> R] /\ p[0] = none /\ p[n] = SumOf(x)
  <2>1. 1 .. 0 = {} /\ 0 \in 0 .. n /\ n \in 0 .. n
    BY <1>0
  <2> QED
    BY <1>0, <1>1, <1>8, <1>10, <2>1
<1>12. \A k \in 1 .. n : p[k] = Step(k, p[k - 1])
  <2> TAKE k \in 1 .. n
  <2>1. k \in 0 .. n /\ k - 1 \in 0 .. n
    BY <1>0
  <2>2. p[k] = F[1 .. k] /\ p[k - 1] = F[1 .. k - 1] /\ F[1 .. k - 1] \in R
    BY <1>10, <2>1
  <2>3. F[1 .. k] = G[k][F[1 .. k - 1]]
    BY <1>10
  <2>4. G[k][F[1 .. k - 1]] = Step(k, F[1 .. k - 1])
    BY <2>2
  <2> QED
    BY <2>2, <2>3, <2>4
<1> HIDE DEF p
<1> QED
  BY <1>11, <1>12 DEF R, none, n, Step

\* Total adds one number after the other, and stays among numbers that can be added.
LEMMA TotalStepsIn ==
  ASSUME NEW R, NEW x \in Seq(R), 0 \in R, \A a, b \in R : a + b \in R
  PROVE  \E f \in [0 .. Len(x) -> R] :
           /\ f[0] = 0 /\ f[Len(x)] = Total(x)
           /\ \A k \in 1 .. Len(x) : f[k] = f[k - 1] + x[k]
<1> DEFINE n == Len(x)
           none == 0
           Step(k, r) == r + x[k]
           Solves(f) == f = [t \in SUBSET (1 .. n) |->
                               IF t = {} THEN none ELSE Step(Max(t), f[t \ {Max(t)}])]
           F == CHOOSE f : Solves(f)
           G == [k \in 1 .. n |-> [r \in R |-> Step(k, r)]]
<1>0. n \in Nat /\ DOMAIN x = 1 .. n /\ \A k \in 1 .. n : x[k] \in R
  OBVIOUS
<1>1. Total(x) = F[DOMAIN x]
  BY <1>0 DEF Total, FoldLeft, MapThenFoldSet
<1> HIDE DEF n
<1>2. \A k \in 1 .. n, r \in R : Step(k, r) \in R
  BY <1>0
<1>3. none \in R
  OBVIOUS
<1> HIDE DEF Step, none
<1>4. G \in [1 .. n -> [R -> R]]
  BY <1>2
<1>5. PICK f \in [SUBSET (1 .. n) -> R] : \A t \in SUBSET (1 .. n) :
        f[t] = IF t = {} THEN none ELSE G[Max(t)][f[t \ {Max(t)}]]
  <2> HIDE DEF G
  <2>1. \E f \in [SUBSET (1 .. n) -> R] : FoldOf(n, none, G, f)
    BY <1>0, <1>3, <1>4, FoldExists
  <2> QED
    BY <2>1 DEF FoldOf
<1>6. Solves(f)
  <2>1. \A t \in SUBSET (1 .. n) :
          f[t] = IF t = {} THEN none ELSE Step(Max(t), f[t \ {Max(t)}])
    <3> SUFFICES ASSUME NEW t \in SUBSET (1 .. n), t # {}
                 PROVE  f[t] = Step(Max(t), f[t \ {Max(t)}])
      BY <1>5
    <3>1. Max(t) \in 1 .. n /\ t \ {Max(t)} \in SUBSET (1 .. n)
      BY <1>0, Greatest
    <3>2. f[t] = G[Max(t)][f[t \ {Max(t)}]] /\ f[t \ {Max(t)}] \in R
      BY <1>5, <3>1
    <3> QED
      BY <3>1, <3>2
  <2> QED
    BY <2>1
<1>7. Solves(F)
  <2> HIDE DEF Solves
  <2> QED
    BY <1>6
<1> HIDE DEF F
<1>8. F[{}] = none
  <2>1. {} \in SUBSET (1 .. n)
    OBVIOUS
  <2> QED
    BY <1>7, <2>1
<1>9. StepsIn(n, R, G, F)
  <2> SUFFICES ASSUME NEW t \in SUBSET (1 .. n), t # {}, F[t \ {Max(t)}] \in R
               PROVE  F[t] = G[Max(t)][F[t \ {Max(t)}]]
    BY DEF StepsIn
  <2>1. Max(t) \in 1 .. n
    BY <1>0, Greatest
  <2>2. F[t] = Step(Max(t), F[t \ {Max(t)}])
    BY <1>7
  <2> QED
    BY <2>1, <2>2
<1>10. /\ \A k \in 0 .. n : F[1 .. k] \in R
       /\ \A k \in 1 .. n : F[1 .. k] = G[k][F[1 .. k - 1]]
  <2> HIDE DEF G
  <2> QED
    BY <1>0, <1>3, <1>4, <1>8, <1>9, FoldIn
<1> DEFINE p == [k \in 0 .. n |-> F[1 .. k]]
<1>11. p \in [0 .. n -> R] /\ p[0] = none /\ p[n] = Total(x)
  <2>1. 1 .. 0 = {} /\ 0 \in 0 .. n /\ n \in 0 .. n
    BY <1>0
  <2> QED
    BY <1>0, <1>1, <1>8, <1>10, <2>1
<1>12. \A k \in 1 .. n : p[k] = Step(k, p[k - 1])
  <2> TAKE k \in 1 .. n
  <2>1. k \in 0 .. n /\ k - 1 \in 0 .. n
    BY <1>0
  <2>2. p[k] = F[1 .. k] /\ p[k - 1] = F[1 .. k - 1] /\ F[1 .. k - 1] \in R
    BY <1>10, <2>1
  <2>3. F[1 .. k] = G[k][F[1 .. k - 1]]
    BY <1>10
  <2>4. G[k][F[1 .. k - 1]] = Step(k, F[1 .. k - 1])
    BY <2>2
  <2> QED
    BY <2>2, <2>3, <2>4
<1> HIDE DEF p
<1> QED
  BY <1>11, <1>12 DEF none, n, Step

LEMMA TotalSteps ==
  ASSUME NEW x \in Seq(Nat)
  PROVE  \E f \in [0 .. Len(x) -> Nat] :
           /\ f[0] = 0 /\ f[Len(x)] = Total(x)
           /\ \A k \in 1 .. Len(x) : f[k] = f[k - 1] + x[k]
<1>1. 0 \in Nat /\ \A a, b \in Nat : a + b \in Nat
  OBVIOUS
<1> QED
  BY <1>1, TotalStepsIn

\* A sum of integers is one.
LEMMA TotalInt ==
  ASSUME NEW x \in Seq(Int)
  PROVE  Total(x) \in Int
<1>1. 0 \in Int /\ \A a, b \in Int : a + b \in Int
  OBVIOUS
<1>2. PICK f \in [0 .. Len(x) -> Int] : f[Len(x)] = Total(x)
  BY <1>1, TotalStepsIn
<1>3. Len(x) \in 0 .. Len(x)
  OBVIOUS
<1> QED
  BY <1>2, <1>3

\* A fraction without a sign is one with a sign.
LEMMA FractionsSigned == Fractions \subseteq Signed
BY DEF Fractions, Signed

\* A sum of numbers that are all at least low, or at most high.
LEMMA SumBounds ==
  ASSUME NEW x \in Seq(Fractions), NEW low \in Signed, NEW high \in Signed,
         \A i \in 1 .. Len(x) : Leq(low, x[i]) /\ Leq(x[i], high)
  PROVE  /\ SumOf(x) \in Fractions
         /\ Leq(Times(Len(x), low), SumOf(x)) /\ Leq(SumOf(x), Times(Len(x), high))
<1> DEFINE n == Len(x)
<1>1. n \in Nat /\ \A i \in 1 .. n : x[i] \in Signed
  BY FractionsSigned
<1>2. PICK f \in [0 .. n -> Fractions] :
        /\ f[0] = Zero /\ f[n] = SumOf(x)
        /\ \A k \in 1 .. n : f[k] = Plus(f[k - 1], x[k])
  BY SumSteps
<1> DEFINE Good == {k \in 0 .. n : Leq(Times(k, low), f[k]) /\ Leq(f[k], Times(k, high))}
<1>3. 0 \in Good
  <2>1. 0 * low[1] = 0 /\ 0 * high[1] = 0 /\ low[2] \in Nat /\ high[2] \in Nat
    BY DEF Signed
  <2>2. Leq(Times(0, low), Zero) /\ Leq(Zero, Times(0, high))
    BY <2>1 DEF Leq, Times, Zero
  <2> QED
    BY <1>1, <1>2, <2>2
<1>4. ASSUME NEW k \in 1 .. n, k - 1 \in Good PROVE k \in Good
  <2>1. k - 1 \in 0 .. n /\ k - 1 \in Nat /\ (k - 1) + 1 = k /\ k \in 0 .. n
    BY <1>1
  <2>2. Leq(Times(k - 1, low), f[k - 1]) /\ Leq(f[k - 1], Times(k - 1, high))
    BY <1>4
  <2>3. f[k - 1] \in Signed /\ x[k] \in Signed /\ f[k] \in Signed
    BY <1>1, <2>1, FractionsSigned
  <2>4. /\ Times(k - 1, low) \in Signed /\ Times(k - 1, high) \in Signed
        /\ Times(k, low) \in Signed /\ Times(k, high) \in Signed
        /\ Same(Plus(Times(k - 1, low), low), Times(k, low))
        /\ Same(Plus(Times(k - 1, high), high), Times(k, high))
    <3>1. k \in Nat /\ k - 1 \in Nat
      BY <2>1
    <3>2. Times(k - 1, low) \in Signed /\ Same(Plus(Times(k - 1, low), low), Times((k - 1) + 1, low))
      BY <3>1, TimesPlus
    <3>3. Times(k - 1, high) \in Signed /\ Same(Plus(Times(k - 1, high), high), Times((k - 1) + 1, high))
      BY <3>1, TimesPlus
    <3>4. Times(k, low) \in Signed /\ Times(k, high) \in Signed
      BY <3>1, TimesPlus
    <3> QED
      BY <2>1, <3>2, <3>3, <3>4
  <2>5. Leq(low, x[k]) /\ Leq(x[k], high)
    OBVIOUS
  <2>6. /\ Leq(Plus(Times(k - 1, low), low), Plus(f[k - 1], x[k]))
        /\ Leq(Plus(f[k - 1], x[k]), Plus(Times(k - 1, high), high))
    BY <2>2, <2>3, <2>4, <2>5, PlusMono
  <2>7. Plus(Times(k - 1, low), low) \in Signed /\ Plus(Times(k - 1, high), high) \in Signed
    BY <2>4, PlusIsRaw
  <2>8. Leq(Times(k, low), f[k]) /\ Leq(f[k], Times(k, high))
    BY <1>2, <2>3, <2>4, <2>6, <2>7, LeqOfSame
  <2> QED
    BY <2>1, <2>8
<1>5. n \in Good
  <2>1. Good \in SUBSET Int /\ n \in 0 .. n
    BY <1>1
  <2> HIDE DEF Good
  <2> QED
    BY <1>1, <1>3, <1>4, <2>1, AlongInterval
<1>6. f[n] \in Fractions
  BY <1>1
<1> QED
  BY <1>2, <1>5, <1>6

\* The same of two sums of numbers, the fractions of which are all at least low, or at
\* most high.
LEMMA TotalBounds ==
  ASSUME NEW x \in Seq(Nat), NEW y \in Seq(Nat), Len(x) = Len(y),
         NEW low \in Signed, NEW high \in Signed,
         \A i \in 1 .. Len(x) : y[i] > 0 /\ Leq(low, <<x[i], y[i]>>) /\ Leq(<<x[i], y[i]>>, high)
  PROVE  /\ Total(x) \in Nat /\ Total(y) \in Nat /\ (Len(x) > 0 => Total(y) > 0)
         /\ Leq(low, <<Total(x), Total(y)>>) /\ Leq(<<Total(x), Total(y)>>, high)
<1> DEFINE n == Len(x)
           a == low[1]
           b == low[2]
           c == high[1]
           d == high[2]
<1>1. n \in Nat /\ \A i \in 1 .. n : x[i] \in Nat /\ y[i] \in Nat
  OBVIOUS
<1>2. a \in Int /\ b \in Nat /\ c \in Int /\ d \in Nat
  BY DEF Signed
<1>3. PICK f \in [0 .. n -> Nat] :
        f[0] = 0 /\ f[n] = Total(x) /\ \A k \in 1 .. n : f[k] = f[k - 1] + x[k]
  BY TotalSteps
<1>4. PICK g \in [0 .. n -> Nat] :
        g[0] = 0 /\ g[n] = Total(y) /\ \A k \in 1 .. n : g[k] = g[k - 1] + y[k]
  BY TotalSteps
<1>5. \A i \in 1 .. n : y[i] > 0 /\ a * y[i] <= x[i] * b /\ x[i] * d <= c * y[i]
  BY DEF Leq
<1> HIDE DEF a, b, c, d, n
<1> DEFINE Good == {k \in 0 .. n : /\ a * g[k] <= f[k] * b /\ f[k] * d <= c * g[k]
                                   /\ g[k] >= k}
<1>6. 0 \in Good
  BY <1>1, <1>2, <1>3, <1>4
<1>7. ASSUME NEW k \in 1 .. n, k - 1 \in Good PROVE k \in Good
  <2> DEFINE u == f[k - 1]
             v == g[k - 1]
             p == x[k]
             q == y[k]
  <2>1. k \in 0 .. n /\ u \in Nat /\ v \in Nat /\ p \in Nat /\ q \in Nat /\ k \in Nat
    <3>1. k - 1 \in 0 .. n
      BY <1>1
    <3> QED
      BY <1>1, <3>1
  <2>2. f[k] = u + p /\ g[k] = v + q
    BY <1>3, <1>4
  <2>3. a * v <= u * b /\ u * d <= c * v /\ v >= k - 1
    BY <1>7
  <2>4. q > 0 /\ a * q <= p * b /\ p * d <= c * q
    BY <1>5
  <2> HIDE DEF u, v, p, q
  <2>5. a * (v + q) = a * v + a * q /\ (u + p) * b = u * b + p * b
    BY <1>2, <2>1
  <2>6. (u + p) * d = u * d + p * d /\ c * (v + q) = c * v + c * q
    BY <1>2, <2>1
  <2>7. a * (v + q) <= (u + p) * b /\ (u + p) * d <= c * (v + q) /\ v + q >= k
    <3>1. /\ a * v \in Int /\ u * b \in Int /\ a * q \in Int /\ p * b \in Int
          /\ u * d \in Int /\ c * v \in Int /\ p * d \in Int /\ c * q \in Int
      BY <1>2, <2>1
    <3>2. \A i, j, k1, l \in Int : i <= j /\ k1 <= l => i + k1 <= j + l
      OBVIOUS
    <3>3. v + q >= k
      BY <2>1, <2>3, <2>4
    <3> QED
      BY <2>3, <2>4, <2>5, <2>6, <3>1, <3>2, <3>3
  <2> QED
    BY <2>1, <2>2, <2>7
<1>8. n \in Good
  <2>1. Good \in SUBSET Int /\ n \in 0 .. n
    BY <1>1
  <2> HIDE DEF Good
  <2> QED
    BY <1>1, <1>6, <1>7, <2>1, AlongInterval
<1>9. f[n] \in Nat /\ g[n] \in Nat
  BY <1>1
<1>10. Leq(low, <<f[n], g[n]>>) /\ Leq(<<f[n], g[n]>>, high)
  BY <1>8 DEF Leq, a, b, c, d
<1>11. n > 0 => g[n] > 0
  BY <1>1, <1>8, <1>9
<1> QED
  BY <1>3, <1>4, <1>9, <1>10, <1>11 DEF n

\* One of some fractions is the least, one the greatest.
LEMMA Extremes ==
  ASSUME NEW x \in Seq(Fractions), x # <<>>
  PROVE  /\ \E i \in 1 .. Len(x) : \A j \in 1 .. Len(x) : Leq(x[i], x[j])
         /\ \E i \in 1 .. Len(x) : \A j \in 1 .. Len(x) : Leq(x[j], x[i])
<1> DEFINE n == Len(x)
           Low(k) == \E i \in 1 .. k : \A j \in 1 .. k : Leq(x[i], x[j])
           High(k) == \E i \in 1 .. k : \A j \in 1 .. k : Leq(x[j], x[i])
           Good == {k \in 0 .. n : k > 0 => Low(k) /\ High(k)}
<1>1. n \in Nat /\ n > 0 /\ \A i \in 1 .. n : x[i] \in Signed
  BY FractionsSigned
<1> HIDE DEF n
<1>2. 0 \in Good
  BY <1>1
<1>3. ASSUME NEW k \in 1 .. n, k - 1 \in Good PROVE k \in Good
  <2>1. k \in 0 .. n /\ \A i \in 1 .. k : x[i] \in Signed
    BY <1>1
  <2>2. \A i \in 1 .. k : i \in 1 .. k - 1 \/ i = k
    OBVIOUS
  <2>3. Leq(x[k], x[k])
    BY <2>1, SameLeq DEF Same
  <2>4. CASE k = 1
    <3>1. \A i \in 1 .. k : i = k
      BY <2>4
    <3>2. k \in 1 .. k
      OBVIOUS
    <3> QED
      BY <2>1, <2>3, <3>1, <3>2
  <2>5. CASE k # 1
    <3>1. Low(k - 1) /\ High(k - 1) /\ 1 .. k - 1 \subseteq 1 .. k /\ k \in 1 .. k
      BY <1>3, <2>5
    <3>2. Low(k)
      <4>1. PICK i \in 1 .. k - 1 : \A j \in 1 .. k - 1 : Leq(x[i], x[j])
        BY <3>1
      <4>2. CASE Leq(x[i], x[k])
        BY <2>2, <3>1, <4>1, <4>2
      <4>3. CASE Leq(x[k], x[i])
        <5>1. \A j \in 1 .. k - 1 : Leq(x[k], x[j])
          BY <2>1, <3>1, <4>1, <4>3, LeqTrans
        <5> QED
          BY <2>2, <2>3, <3>1, <5>1
      <4>4. Leq(x[i], x[k]) \/ Leq(x[k], x[i])
        <5>1. x[i] \in Signed /\ x[k] \in Signed
          BY <2>1, <3>1
        <5> QED
          BY <5>1, SameLeq
      <4> QED
        BY <4>2, <4>3, <4>4
    <3>3. High(k)
      <4>1. PICK i \in 1 .. k - 1 : \A j \in 1 .. k - 1 : Leq(x[j], x[i])
        BY <3>1
      <4>2. CASE Leq(x[k], x[i])
        BY <2>2, <3>1, <4>1, <4>2
      <4>3. CASE Leq(x[i], x[k])
        <5>1. \A j \in 1 .. k - 1 : Leq(x[j], x[k])
          BY <2>1, <3>1, <4>1, <4>3, LeqTrans
        <5> QED
          BY <2>2, <2>3, <3>1, <5>1
      <4>4. Leq(x[i], x[k]) \/ Leq(x[k], x[i])
        <5>1. x[i] \in Signed /\ x[k] \in Signed
          BY <2>1, <3>1
        <5> QED
          BY <5>1, SameLeq
      <4> QED
        BY <4>2, <4>3, <4>4
    <3> QED
      BY <2>1, <3>2, <3>3
  <2> QED
    BY <2>4, <2>5
<1>4. n \in Good
  <2>1. Good \in SUBSET Int /\ n \in 0 .. n
    BY <1>1
  <2> HIDE DEF Good
  <2> QED
    BY <1>1, <1>2, <1>3, <2>1, AlongInterval
<1> QED
  BY <1>1, <1>4 DEF n

\* The sum goes on with what is appended.
LEMMA SumAppend ==
  ASSUME NEW x \in Seq(Fractions), NEW r \in Fractions
  PROVE  SumOf(Append(x, r)) = Plus(SumOf(x), r)
<1> DEFINE n == Len(x)
           y == Append(x, r)
<1>1. /\ n \in Nat /\ y \in Seq(Fractions) /\ Len(y) = n + 1 /\ y[n + 1] = r
      /\ \A i \in 1 .. n : y[i] = x[i]
  OBVIOUS
<1> HIDE DEF y, n
<1>2. PICK f \in [0 .. n -> Fractions] :
        /\ f[0] = Zero /\ f[n] = SumOf(x)
        /\ \A k \in 1 .. n : f[k] = Plus(f[k - 1], x[k])
  BY SumSteps DEF n
<1>3. PICK g \in [0 .. n + 1 -> Fractions] :
        /\ g[0] = Zero /\ g[n + 1] = SumOf(y)
        /\ \A k \in 1 .. n + 1 : g[k] = Plus(g[k - 1], y[k])
  BY <1>1, SumSteps
<1> DEFINE Good == {k \in 0 .. n : f[k] = g[k]}
<1>4. 0 \in Good
  BY <1>1, <1>2, <1>3
<1>5. ASSUME NEW k \in 1 .. n, k - 1 \in Good PROVE k \in Good
  <2>1. k \in 0 .. n /\ k \in 1 .. n + 1
    BY <1>1
  <2>2. f[k - 1] = g[k - 1] /\ x[k] = y[k]
    BY <1>1, <1>5
  <2> QED
    BY <1>2, <1>3, <2>1, <2>2
<1>6. n \in Good
  <2>1. Good \in SUBSET Int /\ n \in 0 .. n
    BY <1>1
  <2> HIDE DEF Good
  <2> QED
    BY <1>1, <1>4, <1>5, <2>1, AlongInterval
<1>7. n + 1 \in 1 .. n + 1 /\ (n + 1) - 1 = n
  BY <1>1
<1> QED
  BY <1>1, <1>2, <1>3, <1>6, <1>7 DEF y

-----------------------------------------------------------------------------
(* Searches in the history.                                                *)

\* What is known of a segment received.
Segment == [start : Nat, end : Nat, size : Sizes]

\* indexStart is the first segment that ends at t_1 or later, if there is one.
LEMMA FirstLate ==
  ASSUME NEW segs \in Seq(Segment), NEW t_1 \in Nat,
         NEW i \in 1 .. Len(segs), segs[i].end >= t_1
  PROVE  IndexStart(segs, t_1) \in 1 .. Len(segs) /\ IndexStart(segs, t_1) <= i
<1> DEFINE late == {k \in 1 .. Len(segs) : segs[k].end >= t_1}
<1>1. late \in SUBSET Nat /\ late # {}
  OBVIOUS
<1>2. \E x \in late : \A y \in late : x <= y
  BY <1>1, Least
<1>3. IndexStart(segs, t_1) = CHOOSE x \in late : \A y \in late : x <= y
  BY <1>1 DEF IndexStart
<1>4. i \in late
  OBVIOUS
<1> QED
  BY <1>2, <1>3, <1>4

\* indexEnd is the last segment that begins at t_2 or earlier, if there is one, and
\* else the last of all: in both cases those after it begin after t_2.
LEMMA LastEarly ==
  ASSUME NEW segs \in Seq(Segment), segs # <<>>, NEW t_2 \in Int
  PROVE  /\ IndexEnd(segs, t_2) \in 1 .. Len(segs)
         /\ \A i \in 1 .. Len(segs) : i > IndexEnd(segs, t_2) => segs[i].start > t_2
<1> DEFINE early == {k \in 1 .. Len(segs) : segs[k].start <= t_2}
<1>0. Len(segs) \in Nat \ {0} /\ \A i \in 1 .. Len(segs) : segs[i] \in Segment
  OBVIOUS
<1>1. CASE early = {}
  BY <1>0, <1>1 DEF IndexEnd
<1>2. CASE early # {}
  <2>1. early \in SUBSET (1 .. Len(segs))
    OBVIOUS
  <2>2. \E x \in early : \A y \in early : x >= y
    <3> HIDE DEF early
    <3> QED
      BY <1>0, <1>2, <2>1, LastIndex
  <2>3. IndexEnd(segs, t_2) = CHOOSE x \in early : \A y \in early : x >= y
    BY <1>2 DEF IndexEnd
  <2>4. IndexEnd(segs, t_2) \in early /\ \A y \in early : IndexEnd(segs, t_2) >= y
    BY <2>2, <2>3
  <2> QED
    BY <1>0, <2>4 DEF Segment
<1> QED
  BY <1>1, <1>2

-----------------------------------------------------------------------------
(* Means of the rates of a history.                                        *)

\* Every segment takes some time; its rate and its pause are positive.
Received == {s \in Segment : s.start < s.end}
Positive == (Nat \ {0}) \X (Nat \ {0})

\* Rate and Pause turn one upside down.
LEMMA RatePositive ==
  ASSUME NEW s \in Received
  PROVE  /\ Rate(s) \in Positive /\ Pause(s) \in Positive
         /\ Rate(s) = <<s.size, s.end - s.start>>
         /\ Pause(s) = <<s.end - s.start, s.size>>
<1>1. s.start \in Nat /\ s.end \in Nat /\ s.start < s.end /\ s.size \in Sizes
  BY DEF Received, Segment
<1>2. Sizes \subseteq Nat \ {0}
  BY EstimatorAssumption, Zenon
<1>3. s.size \in Nat \ {0}
  BY <1>1, <1>2, Zenon
<1> DEFINE from == s.start
           to == s.end
           bits == s.size
<1>4. from \in Nat /\ to \in Nat /\ from < to /\ bits \in Nat \ {0}
  BY <1>1, <1>3
<1>5. Rate(s) = <<bits, to - from>> /\ Pause(s) = <<to - from, bits>>
  BY DEF Rate, Pause
<1>6. /\ <<bits, to - from>> \in Positive /\ <<to - from, bits>> \in Positive
  <2> HIDE DEF from, to, bits
  <2>1. to - from \in Nat \ {0}
    BY <1>4
  <2> QED
    BY <1>4, <2>1 DEF Positive
<1> QED
  BY <1>5, <1>6

\* What is positive is a fraction.
LEMMA PositiveSigned == Positive \subseteq Fractions /\ Positive \subseteq Signed
BY DEF Positive, Fractions, Signed

\* The rates and pauses of a history, one for each segment.
LEMMA RatesAre ==
  ASSUME NEW segs \in Seq(Received)
  PROVE  /\ Rates(segs) \in Seq(Positive) /\ Len(Rates(segs)) = Len(segs)
         /\ Pauses(segs) \in Seq(Positive) /\ Len(Pauses(segs)) = Len(segs)
         /\ \A i \in 1 .. Len(segs) :
              /\ segs[i] \in Received
              /\ Rates(segs)[i] = Rate(segs[i]) /\ Pauses(segs)[i] = Pause(segs[i])
<1>1. Len(segs) \in Nat /\ \A i \in 1 .. Len(segs) : segs[i] \in Received
  OBVIOUS
<1>2. \A i \in 1 .. Len(segs) : Rate(segs[i]) \in Positive /\ Pause(segs[i]) \in Positive
  BY <1>1, RatePositive
<1>3. Rates(segs) \in [1 .. Len(segs) -> Positive] /\ Pauses(segs) \in [1 .. Len(segs) -> Positive]
  BY <1>2 DEF Rates, Pauses
<1> QED
  BY <1>1, <1>3 DEF Rates, Pauses

\* p is bounded by what bounds all of x.
IsMean(p, x) ==
  \A low, high \in Positive :
    (\A i \in 1 .. Len(x) : Leq(low, x[i]) /\ Leq(x[i], high)) => Leq(low, p) /\ Leq(p, high)

\* What is bounded by the bounds of all rates is between two of them.
LEMMA MeanBetween ==
  ASSUME NEW segs \in Seq(Received), segs # <<>>, NEW p \in Signed, IsMean(p, Rates(segs))
  PROVE  /\ \E i \in 1 .. Len(segs) : Leq(Rate(segs[i]), p)
         /\ \E i \in 1 .. Len(segs) : Leq(p, Rate(segs[i]))
         /\ Between(p, Zero, segs)
<1> DEFINE x == Rates(segs)
           n == Len(segs)
<1>1. /\ x \in Seq(Positive) /\ x \in Seq(Fractions) /\ Len(x) = n /\ n \in Nat /\ n > 0
      /\ \A i \in 1 .. n : x[i] = Rate(segs[i]) /\ x[i] \in Positive
  BY RatesAre, PositiveSigned
<1> HIDE DEF x, n
<1>2. x # <<>>
  BY <1>1
<1>3. PICK i \in 1 .. n : \A j \in 1 .. n : Leq(x[i], x[j])
  BY <1>1, <1>2, Extremes
<1>4. PICK k \in 1 .. n : \A j \in 1 .. n : Leq(x[j], x[k])
  BY <1>1, <1>2, Extremes
<1>5. Leq(x[i], p) /\ Leq(p, x[k])
  BY <1>1, <1>3, <1>4 DEF IsMean, x
<1>6. Leq(x[i], Plus(p, Zero))
  <2>1. Plus(p, Zero) \in Signed /\ Same(Plus(p, Zero), p) /\ x[i] \in Signed
    BY <1>1, PlusZero, PlusIsRaw, PositiveSigned
  <2> QED
    BY <1>5, <2>1, LeqOfSame
<1> QED
  BY <1>1, <1>5, <1>6 DEF Between, n

\* What, taken as often as there are numbers, is their sum is a mean.
LEMMA SharedOut ==
  ASSUME NEW x \in Seq(Positive), x # <<>>, NEW p \in Signed, Same(Times(Len(x), p), SumOf(x))
  PROVE  IsMean(p, x)
<1> DEFINE n == Len(x)
<1>1. n \in Nat \ {0} /\ x \in Seq(Fractions)
  BY PositiveSigned
<1> SUFFICES ASSUME NEW low \in Positive, NEW high \in Positive,
                    \A i \in 1 .. n : Leq(low, x[i]) /\ Leq(x[i], high)
             PROVE  Leq(low, p) /\ Leq(p, high)
  BY DEF IsMean
<1>2. low \in Signed /\ high \in Signed
  BY PositiveSigned
<1>3. /\ SumOf(x) \in Fractions
      /\ Leq(Times(n, low), SumOf(x)) /\ Leq(SumOf(x), Times(n, high))
  BY <1>1, <1>2, SumBounds
<1>4. Times(n, low) \in Signed /\ Times(n, high) \in Signed /\ Times(n, p) \in Signed
  BY <1>1, <1>2, TimesPlus
<1>5. Leq(Times(n, low), Times(n, p)) /\ Leq(Times(n, p), Times(n, high))
  BY <1>3, <1>4, FractionsSigned, LeqOfSame
<1> QED
  BY <1>1, <1>2, <1>5, TimesMono

\* The mean of the sum.
LEMMA OverIsMean ==
  ASSUME NEW x \in Seq(Positive), x # <<>>
  PROVE  Over(SumOf(x), Len(x)) \in Fractions /\ IsMean(Over(SumOf(x), Len(x)), x)
<1>1. x \in Seq(Fractions) /\ Len(x) \in Nat \ {0}
  BY PositiveSigned
<1>2. SumOf(x) \in Fractions
  <2>1. PICK f \in [0 .. Len(x) -> Fractions] : f[Len(x)] = SumOf(x)
    BY <1>1, SumSteps
  <2> QED
    BY <1>1, <2>1
<1>3. /\ Over(SumOf(x), Len(x)) \in Fractions
      /\ Same(Times(Len(x), Over(SumOf(x), Len(x))), SumOf(x))
  BY <1>1, <1>2, FractionsSigned, OverIs
<1> QED
  BY <1>3, FractionsSigned, SharedOut

\* The harmonic mean: bounds of the rates are bounds of their reciprocals.
LEMMA HarmonicMean ==
  ASSUME NEW segs \in Seq(Received), segs # <<>>
  PROVE  /\ SumOf(Pauses(segs)) \in Positive
         /\ IsMean(<<Len(segs) * SumOf(Pauses(segs))[2], SumOf(Pauses(segs))[1]>>, Rates(segs))
<1> DEFINE n == Len(segs)
           y == Pauses(segs)
           sum == SumOf(y)
           a == sum[1]
           b == sum[2]
<1>1. /\ n \in Nat \ {0} /\ y \in Seq(Fractions) /\ Len(y) = n /\ Len(Rates(segs)) = n
      /\ \A i \in 1 .. n : /\ Rates(segs)[i] = Rate(segs[i]) /\ y[i] = Pause(segs[i])
                           /\ segs[i] \in Received
  BY RatesAre, PositiveSigned
<1>2. ASSUME NEW low \in Positive, NEW high \in Positive,
             \A i \in 1 .. n : Leq(low, Rates(segs)[i]) /\ Leq(Rates(segs)[i], high)
      PROVE  /\ sum \in Fractions
             /\ (n * high[2]) * b <= a * high[1]
             /\ a * low[1] <= (n * low[2]) * b
  <2> DEFINE lo == <<high[2], high[1]>>
             hi == <<low[2], low[1]>>
  <2>1. lo \in Signed /\ hi \in Signed
    BY DEF Positive, Signed
  <2>2. \A i \in 1 .. n : Leq(lo, y[i]) /\ Leq(y[i], hi)
    <3> TAKE i \in 1 .. n
    <3> DEFINE time == segs[i].end - segs[i].start
               size == segs[i].size
    <3>1. Rates(segs)[i] = <<size, time>> /\ y[i] = <<time, size>>
      BY <1>1, RatePositive
    <3>2. size \in Int /\ time \in Int
      <4>1. <<size, time>> \in Positive
        BY <1>1, <3>1, RatePositive
      <4> QED
        BY <4>1 DEF Positive
    <3>3. low[1] * time <= size * low[2] /\ size * high[2] <= high[1] * time
      BY <1>2, <3>1 DEF Leq
    <3> HIDE DEF time, size
    <3>4. low[1] \in Int /\ low[2] \in Int /\ high[1] \in Int /\ high[2] \in Int
      BY DEF Positive
    <3>5. time * low[1] <= low[2] * size /\ high[2] * size <= time * high[1]
      <4>1. /\ time * low[1] = low[1] * time /\ low[2] * size = size * low[2]
            /\ high[2] * size = size * high[2] /\ time * high[1] = high[1] * time
        BY <3>2, <3>4
      <4> QED
        BY <3>3, <4>1
    <3> QED
      BY <3>1, <3>5 DEF Leq
  <2> HIDE DEF y
  <2>3. sum \in Fractions /\ Leq(Times(n, lo), sum) /\ Leq(sum, Times(n, hi))
    BY <1>1, <2>1, <2>2, SumBounds
  <2> QED
    BY <2>3 DEF Leq, Times
<1>3. sum \in Positive
  <2> DEFINE x == Rates(segs)
  <2>0. x \in Seq(Positive) /\ x \in Seq(Fractions) /\ Len(x) = n /\ x # <<>>
    BY <1>1, RatesAre, PositiveSigned
  <2>1. PICK i \in 1 .. n : \A j \in 1 .. n : Leq(x[i], x[j])
    BY <2>0, Extremes
  <2>2. PICK k \in 1 .. n : \A j \in 1 .. n : Leq(x[j], x[k])
    BY <2>0, Extremes
  <2>3. x[i] \in Positive /\ x[k] \in Positive
    BY <2>0
  <2>4. sum \in Fractions /\ (n * x[k][2]) * b <= a * x[k][1]
    BY <1>2, <2>1, <2>2, <2>3
  <2> DEFINE u == x[k][1]
             v == x[k][2]
  <2>5. u \in Nat \ {0} /\ v \in Nat \ {0} /\ a \in Nat /\ b \in Nat \ {0}
    BY <2>3, <2>4 DEF Positive, Fractions
  <2>6. sum = <<a, b>>
    BY <2>4 DEF Fractions
  <2>7. (n * v) * b <= a * u
    BY <2>4
  <2> HIDE DEF u, v, a, b, n
  <2>8. (n * v) * b \in Nat \ {0}
    BY <1>1, <2>5
  <2>9. a # 0
    <3>1. a = 0 => a * u = 0
      BY <2>5
    <3> QED
      BY <2>5, <2>7, <2>8, <3>1
  <2> QED
    BY <2>5, <2>6, <2>9 DEF Positive
<1>4. ASSUME NEW low \in Positive, NEW high \in Positive,
             \A i \in 1 .. n : Leq(low, Rates(segs)[i]) /\ Leq(Rates(segs)[i], high)
      PROVE  Leq(low, <<n * b, a>>) /\ Leq(<<n * b, a>>, high)
  <2>1. (n * high[2]) * b <= a * high[1] /\ a * low[1] <= (n * low[2]) * b
    BY <1>2, <1>4
  <2>2. /\ low[1] \in Int /\ low[2] \in Int /\ high[1] \in Int /\ high[2] \in Int
        /\ a \in Int /\ b \in Int /\ n \in Int
    BY <1>1, <1>3 DEF Positive
  <2> HIDE DEF a, b, n
  <2>3. /\ low[1] * a = a * low[1] /\ (n * b) * low[2] = (n * low[2]) * b
        /\ (n * b) * high[2] = (n * high[2]) * b /\ high[1] * a = a * high[1]
    BY <2>2
  <2> QED
    BY <2>1, <2>3 DEF Leq
<1> QED
  BY <1>1, <1>3, <1>4 DEF IsMean

\* All bits over all time.
LEMMA PooledMean ==
  ASSUME NEW segs \in Seq(Received), segs # <<>>
  PROVE  Pooled(segs) \in Fractions /\ IsMean(Pooled(segs), Rates(segs))
<1> DEFINE n == Len(segs)
           x == [i \in 1 .. n |-> segs[i].size]
           y == [i \in 1 .. n |-> segs[i].end - segs[i].start]
<1>1. /\ n \in Nat \ {0} /\ Len(Rates(segs)) = n
      /\ \A i \in 1 .. n : Rates(segs)[i] = Rate(segs[i]) /\ segs[i] \in Received
  BY RatesAre
<1>2. \A i \in 1 .. n : x[i] \in Nat /\ y[i] \in Nat /\ y[i] > 0 /\ Rate(segs[i]) = <<x[i], y[i]>>
  BY <1>1, RatePositive DEF Positive
<1>3. Pooled(segs) = <<Total(x), Total(y)>>
  BY DEF Pooled
<1>4. DOMAIN x = 1 .. n /\ DOMAIN y = 1 .. n /\ x = [i \in 1 .. n |-> x[i]] /\ y = [i \in 1 .. n |-> y[i]]
  OBVIOUS
<1> HIDE DEF x, y, n
<1>5. x \in Seq(Nat) /\ y \in Seq(Nat) /\ Len(x) = n /\ Len(y) = n
  <2>1. x \in [1 .. n -> Nat] /\ y \in [1 .. n -> Nat]
    BY <1>2, <1>4
  <2>2. n \in Nat
    BY <1>1
  <2>3. x \in Seq(Nat) /\ Len(x) = n
    BY <2>1, <2>2
  <2>4. y \in Seq(Nat) /\ Len(y) = n
    BY <2>1, <2>2
  <2> QED
    BY <2>3, <2>4
<1>6. ASSUME NEW low \in Positive, NEW high \in Positive,
             \A i \in 1 .. n : Leq(low, Rates(segs)[i]) /\ Leq(Rates(segs)[i], high)
      PROVE  /\ Total(x) \in Nat /\ Total(y) \in Nat \ {0}
             /\ Leq(low, <<Total(x), Total(y)>>) /\ Leq(<<Total(x), Total(y)>>, high)
  <2>1. \A i \in 1 .. n :
          y[i] > 0 /\ Leq(low, <<x[i], y[i]>>) /\ Leq(<<x[i], y[i]>>, high)
    BY <1>1, <1>2, <1>6
  <2>2. low \in Signed /\ high \in Signed
    BY PositiveSigned
  <2>3. Len(x) = Len(y) /\ Len(x) = n
    BY <1>5
  <2>4. \A i \in 1 .. Len(x) :
          y[i] > 0 /\ Leq(low, <<x[i], y[i]>>) /\ Leq(<<x[i], y[i]>>, high)
    BY <2>1, <2>3
  <2>5. /\ Total(x) \in Nat /\ Total(y) \in Nat /\ (Len(x) > 0 => Total(y) > 0)
        /\ Leq(low, <<Total(x), Total(y)>>) /\ Leq(<<Total(x), Total(y)>>, high)
    BY <1>5, <2>2, <2>3, <2>4, TotalBounds
  <2>6. Len(x) > 0
    BY <1>1, <2>3
  <2> QED
    BY <2>5, <2>6
<1>7. IsMean(Pooled(segs), Rates(segs))
  BY <1>1, <1>3, <1>6 DEF IsMean
<1>8. Pooled(segs) \in Fractions
  <2> DEFINE r == Rates(segs)
  <2>0. r \in Seq(Positive) /\ r \in Seq(Fractions) /\ Len(r) = n /\ r # <<>>
    BY <1>1, RatesAre, PositiveSigned
  <2>1. PICK i \in 1 .. n : \A j \in 1 .. n : Leq(r[i], r[j])
    BY <2>0, Extremes
  <2>2. PICK k \in 1 .. n : \A j \in 1 .. n : Leq(r[j], r[k])
    BY <2>0, Extremes
  <2>3. r[i] \in Positive /\ r[k] \in Positive
    BY <2>0
  <2> QED
    BY <1>3, <1>6, <2>1, <2>2, <2>3 DEF Fractions
<1> QED
  BY <1>7, <1>8

\* What a sample of the history holds, and that its rates are rates of the history.
LEMMA PartOf ==
  ASSUME NEW segs \in Seq(Received), NEW k \in 1 .. Len(segs), NEW m \in k .. Len(segs)
  PROVE  /\ SubSeq(segs, k, m) \in Seq(Received) /\ SubSeq(segs, k, m) # <<>>
         /\ Len(SubSeq(segs, k, m)) = m - k + 1
         /\ \A i \in 1 .. m - k + 1 : /\ SubSeq(segs, k, m)[i] = segs[i + k - 1]
                                      /\ i + k - 1 \in 1 .. Len(segs)
<1> DEFINE part == SubSeq(segs, k, m)
<1>1. /\ k \in Int /\ m \in Int /\ Len(segs) \in Nat /\ 1 <= k /\ k <= m /\ m <= Len(segs)
      /\ \A i \in 1 .. Len(segs) : segs[i] \in Received
  OBVIOUS
<1>2. \A i \in 1 .. m - k + 1 : i + k - 1 \in 1 .. Len(segs)
  BY <1>1
<1>3. part = [i \in 1 .. m - k + 1 |-> segs[i + k - 1]]
  BY <1>1
<1>4. m - k + 1 \in Nat \ {0}
  BY <1>1
<1>5. \A i \in 1 .. m - k + 1 : segs[i + k - 1] \in Received
  BY <1>1, <1>2
<1>6. part \in [1 .. m - k + 1 -> Received]
  BY <1>3, <1>5
<1> DEFINE n == m - k + 1
<1> HIDE DEF part, n
<1>7. part \in Seq(Received) /\ Len(part) = n /\ part # <<>>
  <2>1. n \in Nat \ {0} /\ part \in [1 .. n -> Received]
    BY <1>4, <1>6 DEF n
  <2> QED
    BY <2>1
<1>8. \A i \in 1 .. n : part[i] = segs[i + k - 1]
  BY <1>3 DEF n
<1> QED
  BY <1>2, <1>7, <1>8 DEF part, n

\* What bounds all rates bounds those of a sample.
LEMMA MeanOfPart ==
  ASSUME NEW segs \in Seq(Received), NEW k \in 1 .. Len(segs), NEW m \in k .. Len(segs),
         NEW p, IsMean(p, Rates(SubSeq(segs, k, m)))
  PROVE  IsMean(p, Rates(segs))
<1> DEFINE part == SubSeq(segs, k, m)
<1>1. /\ part \in Seq(Received) /\ Len(part) = m - k + 1
      /\ \A i \in 1 .. Len(part) : part[i] = segs[i + k - 1] /\ i + k - 1 \in 1 .. Len(segs)
  BY PartOf
<1>2. \A i \in 1 .. Len(part) : Rates(part)[i] = Rate(part[i])
  BY <1>1, RatesAre
<1>3. Len(Rates(part)) = Len(part) /\ Len(Rates(segs)) = Len(segs)
  BY <1>1, RatesAre
<1>4. \A i \in 1 .. Len(segs) : Rates(segs)[i] = Rate(segs[i])
  BY RatesAre
<1> HIDE DEF part
<1>5. \A i \in 1 .. Len(part) : \E j \in 1 .. Len(segs) : Rates(part)[i] = Rates(segs)[j]
  BY <1>1, <1>2, <1>4
<1> SUFFICES ASSUME NEW low \in Positive, NEW high \in Positive,
                    \A i \in 1 .. Len(segs) : Leq(low, Rates(segs)[i]) /\ Leq(Rates(segs)[i], high)
             PROVE  Leq(low, p) /\ Leq(p, high)
  BY <1>3 DEF IsMean
<1>6. \A i \in 1 .. Len(part) : Leq(low, Rates(part)[i]) /\ Leq(Rates(part)[i], high)
  BY <1>5
<1> QED
  BY <1>3, <1>6 DEF IsMean, part

\* The window is the end of the history and has a segment.
LEMMA WindowIs ==
  ASSUME NEW segs \in Seq(Received), segs # <<>>
  PROVE  /\ Window(segs) \in Seq(Received) /\ Window(segs) # <<>>
         /\ \E k \in 1 .. Len(segs) : Window(segs) = SubSeq(segs, k, Len(segs))
<1> DEFINE n == Len(segs)
           a == n - m_windowSize + 1
           k == Max({1, a})
<1>1. n \in Nat \ {0} /\ m_windowSize \in Nat \ {0}
  BY EstimatorAssumption
<1>2. a \in Int /\ a <= n
  BY <1>1
<1> HIDE DEF n, a
<1>3. k \in {1, a} /\ k >= 1
  <2>1. \E x \in {1, a} : \A y \in {1, a} : x >= y
    BY <1>2
  <2>2. k = CHOOSE x \in {1, a} : \A y \in {1, a} : x >= y
    BY DEF Max
  <2> HIDE DEF k
  <2>3. k \in {1, a} /\ \A y \in {1, a} : k >= y
    BY <2>1, <2>2
  <2> QED
    BY <2>3
<1>4. k \in 1 .. n /\ n \in k .. n
  <2> HIDE DEF k
  <2> QED
    BY <1>1, <1>2, <1>3
<1>5. Window(segs) = SubSeq(segs, k, n)
  BY DEF Window, n, a
<1> QED
  <2> HIDE DEF k
  <2> QED
    BY <1>4, <1>5, PartOf DEF n

-----------------------------------------------------------------------------
(* The harmonic mean is not above the arithmetic one.                      *)

\* The sum of k numbers times the sum of their reciprocals is at least k squared.
Big(k, f, g) == (k * k) * (f[2] * g[2]) <= f[1] * g[1]

\* A sum may be replaced by one that is the same.
LEMMA BigOfSame ==
  ASSUME NEW k \in Nat, NEW f \in Fractions, NEW g \in Fractions, NEW h \in Fractions,
         Big(k, f, g), Same(f, h)
  PROVE  Big(k, h, g)
<1> DEFINE a == f[1]
           b == f[2]
           c == g[1]
           d == g[2]
           x == h[1]
           y == h[2]
           w == k * k
<1>1. /\ a \in Nat /\ c \in Nat /\ x \in Nat /\ w \in Nat
      /\ b \in Nat \ {0} /\ d \in Nat \ {0} /\ y \in Nat \ {0}
  BY DEF Fractions
<1>2. w * (b * d) <= a * c /\ a * y = x * b
  BY DEF Big, Same
<1>3. Big(k, h, g) <=> w * (y * d) <= x * c
  BY DEF Big
<1> HIDE DEF a, b, c, d, x, y, w
<1>4. (w * (b * d)) * y <= (a * c) * y
  <2>1. w * (b * d) \in Int /\ a * c \in Int
    BY <1>1
  <2> QED
    BY <1>1, <1>2, <2>1, MulMono
<1>5. (w * (b * d)) * y = (w * (y * d)) * b
  BY <1>1
<1>6. (a * c) * y = (x * c) * b
  <2>1. (a * c) * y = (a * y) * c
    BY <1>1
  <2>2. (x * c) * b = (x * b) * c
    BY <1>1
  <2> QED
    BY <1>2, <2>1, <2>2
<1>7. w * (y * d) <= x * c
  <2>1. w * (y * d) \in Int /\ x * c \in Int
    BY <1>1
  <2>2. (w * (y * d)) * b <= (x * c) * b
    BY <1>4, <1>5, <1>6
  <2> QED
    BY <1>1, <2>1, <2>2, MulCancel
<1> QED
  BY <1>3, <1>7

\* Neither of the two sums comes first.
LEMMA BigTurned ==
  ASSUME NEW k \in Nat, NEW f \in Fractions, NEW g \in Fractions
  PROVE  Big(k, f, g) <=> Big(k, g, f)
<1> DEFINE a == f[1]
           b == f[2]
           c == g[1]
           d == g[2]
<1>1. a \in Nat /\ c \in Nat /\ b \in Nat \ {0} /\ d \in Nat \ {0}
  BY DEF Fractions
<1>2. a * c = c * a /\ b * d = d * b
  BY <1>1
<1> QED
  BY <1>2 DEF Big

\* Twice the geometric mean is at most the sum.
LEMMA Geometric ==
  ASSUME NEW x \in Nat, NEW y \in Nat, NEW m \in Nat, m * m <= x * y
  PROVE  2 * m <= x + y
<1> SUFFICES ASSUME x + y < 2 * m
             PROVE  FALSE
  OBVIOUS
<1>1. x + y + 1 <= 2 * m
  OBVIOUS
<1> DEFINE z == x + y
<1>2. z \in Nat /\ z + 1 <= 2 * m
  BY <1>1
<1>3. z * z < (2 * m) * (2 * m)
  <2> DEFINE u == 2 * m
  <2>1. u \in Nat /\ z < u /\ u > 0
    BY <1>2
  <2> HIDE DEF z, u
  <2>2. z * z <= z * u /\ z * u < u * u
    BY <1>2, <2>1
  <2>3. z * z < u * u
    BY <1>2, <2>1, <2>2
  <2> QED
    BY <2>3 DEF u
<1>4. z * z = (x - y) * (x - y) + 4 * (x * y)
  BY DEF z
<1>5. (x - y) * (x - y) >= 0
  <2>1. \A d \in Int : d * d >= 0
    OBVIOUS
  <2> QED
    BY <2>1
<1>6. (2 * m) * (2 * m) = 4 * (m * m)
  OBVIOUS
<1> HIDE DEF z
<1> DEFINE e == (x - y) * (x - y)
           xy == x * y
           mm == m * m
           zz == z * z
<1>7. e \in Int /\ xy \in Int /\ mm \in Int /\ zz \in Int
  BY <1>2
<1>8. zz < 4 * mm /\ zz = e + 4 * xy /\ e >= 0 /\ mm <= xy
  BY <1>3, <1>4, <1>5, <1>6
<1> HIDE DEF e, xy, mm, zz
<1> QED
  BY <1>7, <1>8

\* A number and its reciprocal are added.
LEMMA BigStep ==
  ASSUME NEW k \in Nat, NEW f \in Fractions, NEW g \in Fractions, Big(k, f, g),
         NEW p \in Nat \ {0}, NEW q \in Nat \ {0}
  PROVE  Big(k + 1, RawPlus(f, <<p, q>>), RawPlus(g, <<q, p>>))
<1> DEFINE a == f[1]
           b == f[2]
           c == g[1]
           d == g[2]
<1>1. a \in Nat /\ c \in Nat /\ b \in Nat \ {0} /\ d \in Nat \ {0}
  BY DEF Fractions
<1>2. (k * k) * (b * d) <= a * c
  BY DEF Big
<1>3. RawPlus(f, <<p, q>>) = <<a * q + p * b, b * q>> /\ RawPlus(g, <<q, p>>) = <<c * p + q * d, d * p>>
  BY DEF RawPlus
<1> HIDE DEF a, b, c, d
<1> DEFINE u == a * d
           v == b * c
           bd == b * d
           ac == a * c
           pq == p * q
           x == u * (q * q)
           y == v * (p * p)
           s == bd * pq
           m == k * s
<1>4. /\ u \in Nat /\ v \in Nat /\ bd \in Nat /\ ac \in Nat /\ pq \in Nat
      /\ u * v = ac * bd
  <2>1. (a * d) * (b * c) = (a * c) * (b * d)
    BY <1>1
  <2> QED
    BY <1>1, <2>1
<1>5. (k * k) * bd <= ac
  BY <1>2
<1>6. x * y = (u * v) * (pq * pq)
  <2> HIDE DEF u, v
  <2>1. (u * (q * q)) * (v * (p * p)) = (u * v) * ((p * q) * (p * q))
    BY <1>4
  <2> QED
    BY <2>1
<1>7. m * m <= x * y
  <2> HIDE DEF u, v, bd, ac, pq, x, y
  <2>1. m * m = ((k * k) * bd) * (bd * (pq * pq))
    BY <1>4
  <2>2. x * y = ac * (bd * (pq * pq))
    <3>1. (ac * bd) * (pq * pq) = ac * (bd * (pq * pq))
      BY <1>4
    <3> QED
      BY <1>4, <1>6, <3>1
  <2>3. bd * (pq * pq) \in Nat /\ (k * k) * bd \in Int /\ ac \in Int
    BY <1>4
  <2> DEFINE w == bd * (pq * pq)
             l == (k * k) * bd
  <2>4. l * w <= ac * w
    <3>1. w \in Nat /\ l \in Int /\ ac \in Int /\ l <= ac
      BY <1>5, <2>3
    <3> HIDE DEF w, l
    <3> QED
      BY <3>1, MulMono
  <2> QED
    BY <2>1, <2>2, <2>4
<1>8. x \in Nat /\ y \in Nat /\ m \in Nat /\ s \in Nat
  <2> HIDE DEF u, v, bd, pq
  <2>1. s \in Nat
    BY <1>4
  <2>2. x \in Nat /\ y \in Nat
    BY <1>4
  <2>3. m \in Nat
    <3> HIDE DEF s
    <3> QED
      BY <2>1
  <2> QED
    BY <2>1, <2>2, <2>3
<1>9. 2 * m <= x + y
  <2> HIDE DEF x, y, m
  <2> QED
    BY <1>7, <1>8, Geometric
<1>10. (a * q + p * b) * (c * p + q * d) = ac * pq + x + y + s
  BY <1>1
<1>11. ((k + 1) * (k + 1)) * ((b * q) * (d * p)) = (k * k) * s + 2 * m + s
  <2>1. (b * q) * (d * p) = s
    BY <1>1
  <2> HIDE DEF s
  <2>2. ((k + 1) * (k + 1)) * s = (k * k) * s + 2 * (k * s) + s
    BY <1>8
  <2> QED
    BY <2>1, <2>2
<1>12. (k * k) * s <= ac * pq
  <2>1. (k * k) * s = ((k * k) * bd) * pq
    <3> HIDE DEF bd, pq
    <3> QED
      BY <1>4
  <2> DEFINE l == (k * k) * bd
  <2>2. l \in Int
    BY <1>4
  <2>3. l * pq <= ac * pq
    <3> HIDE DEF l, ac, pq
    <3> QED
      BY <1>4, <1>5, <2>2, MulMono DEF l
  <2> QED
    BY <2>1, <2>3
<1>13. (k * k) * s + 2 * m + s <= ac * pq + x + y + s
  <2> DEFINE kks == (k * k) * s
             acpq == ac * pq
  <2>1. kks \in Int /\ acpq \in Int /\ kks <= acpq
    BY <1>4, <1>8, <1>12
  <2> HIDE DEF kks, acpq, x, y, s, m
  <2>2. kks + 2 * m + s <= acpq + x + y + s
    BY <1>8, <1>9, <2>1
  <2> QED
    BY <2>2 DEF kks, acpq
<1>14. ((k + 1) * (k + 1)) * ((b * q) * (d * p)) <= (a * q + p * b) * (c * p + q * d)
  BY <1>10, <1>11, <1>13
<1> QED
  BY <1>3, <1>14 DEF Big

\* By induction along the sums of the rates and of the pauses.
LEMMA HarmonicBelow ==
  ASSUME NEW segs \in Seq(Received), segs # <<>>
  PROVE  Big(Len(segs), SumOf(Rates(segs)), SumOf(Pauses(segs)))
<1> DEFINE n == Len(segs)
           x == Rates(segs)
           y == Pauses(segs)
<1>1. /\ n \in Nat /\ x \in Seq(Fractions) /\ Len(x) = n /\ y \in Seq(Fractions) /\ Len(y) = n
      /\ \A i \in 1 .. n : x[i] = Rate(segs[i]) /\ y[i] = Pause(segs[i]) /\ segs[i] \in Received
  BY RatesAre, PositiveSigned
<1>2. PICK f \in [0 .. n -> Fractions] :
        /\ f[0] = Zero /\ f[n] = SumOf(x)
        /\ \A k \in 1 .. n : f[k] = Plus(f[k - 1], x[k])
  <2> HIDE DEF x, n
  <2> QED
    BY <1>1, SumSteps
<1>3. PICK g \in [0 .. n -> Fractions] :
        /\ g[0] = Zero /\ g[n] = SumOf(y)
        /\ \A k \in 1 .. n : g[k] = Plus(g[k - 1], y[k])
  <2> HIDE DEF y, n
  <2> QED
    BY <1>1, SumSteps
<1> DEFINE Good == {k \in 0 .. n : Big(k, f[k], g[k])}
<1>4. 0 \in Good
  <2>1. Big(0, Zero, Zero)
    BY DEF Big, Zero
  <2> QED
    BY <1>1, <1>2, <1>3, <2>1
<1>5. ASSUME NEW k \in 1 .. n, k - 1 \in Good
      PROVE  k \in Good
  <2> DEFINE p == segs[k].size
             q == segs[k].end - segs[k].start
  <2>1. x[k] = <<p, q>> /\ y[k] = <<q, p>> /\ <<p, q>> \in Positive /\ <<q, p>> \in Positive
    BY <1>1, RatePositive
  <2>2. p \in Nat \ {0} /\ q \in Nat \ {0}
    BY <2>1 DEF Positive
  <2>3. /\ k - 1 \in Nat /\ k - 1 \in 0 .. n /\ k \in 0 .. n /\ k \in Nat /\ (k - 1) + 1 = k
        /\ f[k - 1] \in Fractions /\ g[k - 1] \in Fractions
        /\ f[k] \in Fractions /\ g[k] \in Fractions
    BY <1>1
  <2>4. Big(k - 1, f[k - 1], g[k - 1])
    BY <1>5
  <2>5. f[k] = Plus(f[k - 1], <<p, q>>) /\ g[k] = Plus(g[k - 1], <<q, p>>)
    BY <1>2, <1>3, <2>1
  <2> HIDE DEF p, q, x, y, n
  <2> DEFINE rf == RawPlus(f[k - 1], <<p, q>>)
             rg == RawPlus(g[k - 1], <<q, p>>)
  <2>6. Big((k - 1) + 1, rf, rg)
    BY <2>2, <2>3, <2>4, BigStep
  <2>7. Big(k, rf, rg)
    BY <2>3, <2>6
  <2>8. <<p, q>> \in Fractions /\ <<q, p>> \in Fractions
    BY <2>1, PositiveSigned
  <2>9. /\ rf \in Fractions /\ rg \in Fractions /\ Same(f[k], rf) /\ Same(g[k], rg)
    BY <2>3, <2>5, <2>8, FractionsSigned, PlusIsRaw, RawPlusSigned
  <2>10. Same(rf, f[k]) /\ Same(rg, g[k])
    BY <2>3, <2>9, FractionsSigned, SameLeq
  <2> HIDE DEF rf, rg
  <2>11. Big(k, f[k], rg)
    BY <2>3, <2>7, <2>9, <2>10, BigOfSame
  <2>12. Big(k, rg, f[k])
    BY <2>3, <2>9, <2>11, BigTurned
  <2>13. Big(k, g[k], f[k])
    BY <2>3, <2>9, <2>10, <2>12, BigOfSame
  <2>14. Big(k, f[k], g[k])
    BY <2>3, <2>13, BigTurned
  <2> QED
    BY <2>3, <2>14
<1>6. n \in Good
  <2>1. Good \in SUBSET Int
    BY <1>1
  <2> HIDE DEF Good, n
  <2>2. 0 .. n \subseteq Good
    BY <1>1, <1>4, <1>5, <2>1, AlongInterval
  <2> QED
    BY <1>1, <2>2
<1> QED
  BY <1>2, <1>3, <1>6

\* The harmonic mean of the window is not above its arithmetic mean.
LEMMA MeansOfWindow ==
  ASSUME NEW segs \in Seq(Received), segs # <<>>
  PROVE  /\ Harmonic(segs) \in Fractions /\ AvgInChunk(segs) \in Fractions
         /\ IsMean(Harmonic(segs), Rates(Window(segs)))
         /\ IsMean(AvgInChunk(segs), Rates(Window(segs)))
         /\ WHarmonic(segs) \in Fractions /\ IsMean(WHarmonic(segs), Rates(Window(segs)))
         /\ Leq(Harmonic(segs), AvgInChunk(segs))
<1> DEFINE w == Window(segs)
           n == Len(w)
           f == SumOf(Rates(w))
           g == SumOf(Pauses(w))
<1>1. w \in Seq(Received) /\ w # <<>> /\ n \in Nat \ {0}
  <2>1. w \in Seq(Received) /\ w # <<>>
    BY WindowIs
  <2> HIDE DEF w
  <2> QED
    BY <2>1
<1>2. /\ Harmonic(segs) = <<n * g[2], g[1]>> /\ AvgInChunk(segs) = Over(f, n)
      /\ WHarmonic(segs) = Pooled(w)
  BY DEF Harmonic, AvgInChunk, WHarmonic
<1>3. g \in Positive /\ IsMean(<<n * g[2], g[1]>>, Rates(w))
  BY <1>1, HarmonicMean
<1>4. Rates(w) \in Seq(Positive) /\ Rates(w) # <<>> /\ Len(Rates(w)) = n
  <2>1. Rates(w) \in Seq(Positive) /\ Len(Rates(w)) = n
    BY <1>1, RatesAre
  <2> HIDE DEF w
  <2> QED
    BY <1>1, <2>1
<1>5. Over(f, n) \in Fractions /\ IsMean(Over(f, n), Rates(w))
  BY <1>4, OverIsMean
<1>6. Pooled(w) \in Fractions /\ IsMean(Pooled(w), Rates(w))
  BY <1>1, PooledMean
<1>7. Big(n, f, g)
  BY <1>1, HarmonicBelow
<1>8. f \in Fractions
  <2> DEFINE r == Rates(w)
  <2>1. r \in Seq(Fractions) /\ Len(r) \in Nat
    BY <1>1, <1>4, PositiveSigned
  <2> HIDE DEF r
  <2>2. PICK e \in [0 .. Len(r) -> Fractions] : e[Len(r)] = SumOf(r)
    BY <2>1, SumSteps
  <2> QED
    BY <2>1, <2>2 DEF r
<1> HIDE DEF f, g, n
<1>9. <<n * g[2], g[1]>> \in Fractions
  <2>1. g[1] \in Nat \ {0} /\ g[2] \in Nat \ {0}
    BY <1>3 DEF Positive
  <2>2. n * g[2] \in Nat
    BY <1>1, <2>1
  <2> QED
    BY <2>1, <2>2 DEF Fractions
<1>10. Leq(<<n * g[2], g[1]>>, Over(f, n))
  <2>1. /\ Over(f, n) \in Signed /\ <<f[1], f[2] * n>> \in Signed
        /\ Same(Over(f, n), <<f[1], f[2] * n>>)
    BY <1>1, <1>8, FractionsSigned, OverIs
  <2> DEFINE a == f[1]
             b == f[2]
             c == g[1]
             d == g[2]
  <2>2. a \in Nat /\ b \in Nat /\ c \in Nat /\ d \in Nat
    BY <1>3, <1>8 DEF Fractions, Positive
  <2>3. (n * n) * (b * d) <= a * c
    BY <1>7 DEF Big
  <2> HIDE DEF a, b, c, d
  <2>4. (n * d) * (b * n) <= a * c
    <3>1. (n * d) * (b * n) = (n * n) * (b * d)
      BY <1>1, <2>2
    <3> QED
      BY <2>3, <3>1
  <2>5. Leq(<<n * d, c>>, <<a, b * n>>)
    BY <2>4 DEF Leq
  <2> QED
    BY <1>9, <2>1, <2>5, FractionsSigned, LeqOfSame DEF a, b, c, d
<1> QED
  BY <1>2, <1>3, <1>5, <1>6, <1>9, <1>10

-----------------------------------------------------------------------------
(* The average in time.                                                    *)

\* indexStart is in the history.
LEMMA IndexStartIn ==
  ASSUME NEW segs \in Seq(Received), segs # <<>>, NEW t_1 \in Int
  PROVE  IndexStart(segs, t_1) \in 1 .. Len(segs)
<1> DEFINE late == {k \in 1 .. Len(segs) : segs[k].end >= t_1}
<1>1. Len(segs) \in Nat \ {0}
  OBVIOUS
<1>2. CASE late = {}
  BY <1>1, <1>2 DEF IndexStart
<1>3. CASE late # {}
  <2>1. late \in SUBSET Nat
    OBVIOUS
  <2>2. \E x \in late : \A y \in late : x <= y
    <3> HIDE DEF late
    <3> QED
      BY <1>3, <2>1, Least
  <2>3. IndexStart(segs, t_1) = CHOOSE x \in late : \A y \in late : x <= y
    BY <1>3 DEF IndexStart
  <2>4. IndexStart(segs, t_1) \in late
    BY <2>2, <2>3
  <2> QED
    BY <2>4
<1> QED
  BY <1>2, <1>3

\* indexEnd is in the history.
LEMMA IndexEndIn ==
  ASSUME NEW segs \in Seq(Received), segs # <<>>, NEW t_2 \in Int
  PROVE  IndexEnd(segs, t_2) \in 1 .. Len(segs)
<1>1. segs \in Seq(Segment)
  BY DEF Received
<1> QED
  BY <1>1, LastEarly

\* The cast of a mean is not above any upper bound, and less than one below any lower one.
LEMMA CastOfMean ==
  ASSUME NEW p \in Fractions, NEW low \in Positive, NEW high \in Positive,
         Leq(low, p), Leq(p, high)
  PROVE  /\ Truncated(p) \in Nat
         /\ Truncated(p) * high[2] <= high[1]
         /\ low[1] <= (Truncated(p) + 1) * low[2]
<1> DEFINE a == p[1]
           b == p[2]
           t == a \div b
           l1 == low[1]
           l2 == low[2]
           h1 == high[1]
           h2 == high[2]
<1>1. /\ a \in Nat /\ b \in Nat \ {0}
      /\ l1 \in Nat \ {0} /\ l2 \in Nat \ {0} /\ h1 \in Nat \ {0} /\ h2 \in Nat \ {0}
  BY DEF Fractions, Positive
<1>2. l1 * b <= a * l2 /\ a * h2 <= h1 * b
  BY DEF Leq
<1>3. Truncated(p) = t
  BY <1>1 DEF Truncated
<1> HIDE DEF a, b, l1, l2, h1, h2
<1>4. t \in Nat /\ t * b <= a /\ a <= (t + 1) * b
  BY <1>1
<1> HIDE DEF t
<1>5. (t * h2) * b <= h1 * b
  <2>1. (t * b) * h2 <= a * h2
    <3> DEFINE z == t * b
    <3>1. z \in Int /\ z <= a
      BY <1>1, <1>4
    <3> HIDE DEF z
    <3> QED
      BY <1>1, <3>1, MulMono DEF z
  <2>2. (t * b) * h2 = (t * h2) * b
    BY <1>1, <1>4
  <2> DEFINE r == (t * h2) * b
             o == a * h2
             v == h1 * b
  <2>3. r \in Int /\ o \in Int /\ v \in Int /\ r <= o /\ o <= v
    BY <1>1, <1>2, <1>4, <2>1, <2>2
  <2> HIDE DEF r, o, v
  <2>4. r <= v
    BY <2>3
  <2> QED
    BY <2>4 DEF r, v
<1>6. l1 * b <= ((t + 1) * l2) * b
  <2>1. a * l2 <= ((t + 1) * b) * l2
    <3> DEFINE z == (t + 1) * b
    <3>1. z \in Int /\ a <= z
      BY <1>1, <1>4
    <3> HIDE DEF z
    <3> QED
      BY <1>1, <3>1, MulMono DEF z
  <2>2. ((t + 1) * b) * l2 = ((t + 1) * l2) * b
    BY <1>1, <1>4
  <2> DEFINE r == l1 * b
             o == a * l2
             v == ((t + 1) * l2) * b
  <2>3. r \in Int /\ o \in Int /\ v \in Int /\ r <= o /\ o <= v
    BY <1>1, <1>2, <1>4, <2>1, <2>2
  <2> HIDE DEF r, o, v
  <2>4. r <= v
    BY <2>3
  <2> QED
    BY <2>4 DEF r, v
<1>7. t * h2 <= h1 /\ l1 <= (t + 1) * l2
  <2> DEFINE r == t * h2
             v == (t + 1) * l2
  <2>1. r \in Int /\ v \in Int
    BY <1>1, <1>4
  <2> HIDE DEF r, v
  <2>2. r * b <= h1 * b /\ l1 * b <= v * b
    BY <1>5, <1>6 DEF r, v
  <2>3. r <= h1 /\ l1 <= v
    BY <1>1, <2>1, <2>2, MulCancel
  <2> QED
    BY <2>3 DEF r, v
<1> QED
  BY <1>3, <1>4, <1>7 DEF h1, h2, l1, l2

\* The average between two times is a mean of all rates.
LEMMA AverageIsMean ==
  ASSUME NEW segs \in Seq(Received), segs # <<>>, NEW t_1 \in Int, NEW t_2 \in Int,
         IndexStart(segs, FromStart(t_1)) <= IndexEnd(segs, t_2)
  PROVE  /\ AverageBandwidth(segs, t_1, t_2) \in Fractions
         /\ IsMean(AverageBandwidth(segs, t_1, t_2), Rates(segs))
<1> DEFINE k == IndexStart(segs, FromStart(t_1))
           m == IndexEnd(segs, t_2)
           part == SubSeq(segs, k, m)
<1>1. FromStart(t_1) \in Int
  BY DEF FromStart
<1>2. k \in 1 .. Len(segs) /\ m \in 1 .. Len(segs) /\ k <= m
  BY <1>1, IndexStartIn, IndexEndIn
<1>3. AverageBandwidth(segs, t_1, t_2) = Pooled(part)
  BY DEF AverageBandwidth
<1> HIDE DEF k, m
<1>4. m \in k .. Len(segs)
  BY <1>2
<1>5. part \in Seq(Received) /\ part # <<>>
  BY <1>2, <1>4, PartOf
<1>6. Pooled(part) \in Fractions /\ IsMean(Pooled(part), Rates(part))
  <2> HIDE DEF part
  <2> QED
    BY <1>5, PooledMean
<1>7. IsMean(Pooled(part), Rates(segs))
  BY <1>2, <1>4, <1>6, MeanOfPart
<1> QED
  BY <1>3, <1>6, <1>7

\* There are one or two windows in time.
LEMMA WindowsAre ==
  ASSUME NEW t \in Nat
  PROVE  /\ Len(Windows(t)) \in {1, 2}
         /\ \A i \in 1 .. Len(Windows(t)) :
              /\ Windows(t)[i][1] \in Int /\ Windows(t)[i][2] \in Int
              /\ \/ Windows(t)[i][2] = t /\ Windows(t)[i][1] <= t
                 \/ Windows(t)[i][2] = t - m_deltaTime_1 /\ Windows(t)[i][1] = t - m_deltaTime_2
<1>1. m_deltaTime_1 \in Nat /\ m_deltaTime_2 \in Nat
  BY EstimatorAssumption
<1> DEFINE u == <<t - m_deltaTime_1, t>>
           v == <<t - m_deltaTime_2, t - m_deltaTime_1>>
<1>2. /\ u[1] \in Int /\ u[2] = t /\ u[1] <= t
      /\ v[1] = t - m_deltaTime_2 /\ v[2] = t - m_deltaTime_1 /\ v[1] \in Int /\ v[2] \in Int
  BY <1>1
<1>3. Windows(t) = IF t <= m_deltaTime_1 THEN <<u>> ELSE <<u, v>>
  BY DEF Windows
<1> HIDE DEF u, v
<1>5. CASE t <= m_deltaTime_1
  <2>1. Windows(t) = <<u>>
    BY <1>3, <1>5
  <2>2. Len(Windows(t)) = 1 /\ Windows(t)[1] = u
    BY <2>1
  <2>3. \A i \in 1 .. Len(Windows(t)) : i = 1
    BY <2>2
  <2> QED
    BY <1>2, <2>2, <2>3
<1>6. CASE ~ (t <= m_deltaTime_1)
  <2>1. Windows(t) = <<u, v>>
    BY <1>3, <1>6
  <2>2. Len(Windows(t)) = 2 /\ Windows(t)[1] = u /\ Windows(t)[2] = v
    BY <2>1
  <2>3. \A i \in 1 .. Len(Windows(t)) : i = 1 \/ i = 2
    BY <2>2
  <2> QED
    BY <1>2, <2>2, <2>3
<1> QED
  BY <1>5, <1>6

\* The sum of one or two numbers.
LEMMA TotalOfFew ==
  ASSUME NEW x \in Seq(Nat), Len(x) \in {1, 2}
  PROVE  /\ Total(x) \in Nat
         /\ Len(x) = 1 => Total(x) = x[1]
         /\ Len(x) = 2 => Total(x) = x[1] + x[2]
<1>1. PICK f \in [0 .. Len(x) -> Nat] :
        /\ f[0] = 0 /\ f[Len(x)] = Total(x)
        /\ \A k \in 1 .. Len(x) : f[k] = f[k - 1] + x[k]
  BY TotalSteps
<1>2. \A k \in 1 .. Len(x) : x[k] \in Nat
  OBVIOUS
<1>3. CASE Len(x) = 1
  <2>1. f[1] = f[0] + x[1] /\ x[1] \in Nat
    <3>1. 1 \in 1 .. Len(x) /\ 1 - 1 = 0
      BY <1>3
    <3> QED
      BY <1>1, <1>2, <3>1
  <2> QED
    BY <1>1, <1>3, <2>1
<1>4. CASE Len(x) = 2
  <2>1. f[1] = f[0] + x[1] /\ x[1] \in Nat
    <3>1. 1 \in 1 .. Len(x) /\ 1 - 1 = 0
      BY <1>4
    <3> QED
      BY <1>1, <1>2, <3>1
  <2>2. f[2] = f[1] + x[2] /\ x[2] \in Nat
    <3>1. 2 \in 1 .. Len(x) /\ 2 - 1 = 1
      BY <1>4
    <3> QED
      BY <1>1, <1>2, <3>1
  <2> QED
    BY <1>1, <1>4, <2>1, <2>2
<1> QED
  BY <1>3, <1>4

\* The average in time, with the bit that the cast takes off, is between two rates.
LEMMA AvgInTimeBetween ==
  ASSUME NEW segs \in Seq(Received), segs # <<>>, NEW t \in Nat,
         \A i \in 1 .. Len(Windows(t)) :
           IndexStart(segs, FromStart(Windows(t)[i][1])) <= IndexEnd(segs, Windows(t)[i][2])
  PROVE  AvgInTime(segs, t) \in Fractions /\ Between(AvgInTime(segs, t), <<1, 1>>, segs)
<1> DEFINE n == Len(Windows(t))
           x == Rates(segs)
           avg(i) == AverageBandwidth(segs, Windows(t)[i][1], Windows(t)[i][2])
           cast == [i \in 1 .. n |-> Truncated(avg(i))]
           T == Total(cast)
<1>1. n \in {1, 2} /\ \A i \in 1 .. n : Windows(t)[i][1] \in Int /\ Windows(t)[i][2] \in Int
  BY WindowsAre
<1>2. \A i \in 1 .. n : avg(i) \in Fractions /\ IsMean(avg(i), x)
  BY <1>1, AverageIsMean
<1>3. /\ x \in Seq(Positive) /\ x \in Seq(Fractions) /\ Len(x) = Len(segs) /\ Len(x) > 0
      /\ \A i \in 1 .. Len(segs) : x[i] = Rate(segs[i]) /\ x[i] \in Positive
  BY RatesAre, PositiveSigned
<1>4. AvgInTime(segs, t) = <<T, n>>
  BY DEF AvgInTime
<1>5. \A i \in 1 .. n : cast[i] = Truncated(avg(i))
  OBVIOUS
<1>6. DOMAIN cast = 1 .. n /\ cast = [i \in 1 .. n |-> cast[i]]
  OBVIOUS
<1> HIDE DEF n, x, avg, cast
<1>7. x # <<>>
  BY <1>3
<1>8. PICK k \in 1 .. Len(x) : \A j \in 1 .. Len(x) : Leq(x[k], x[j])
  BY <1>3, <1>7, Extremes
<1>9. PICK m \in 1 .. Len(x) : \A j \in 1 .. Len(x) : Leq(x[j], x[m])
  BY <1>3, <1>7, Extremes
<1> DEFINE low == x[k]
           high == x[m]
           l1 == low[1]
           l2 == low[2]
           h1 == high[1]
           h2 == high[2]
<1>10. low \in Positive /\ high \in Positive
  BY <1>3, <1>8, <1>9
<1>11. ASSUME NEW i \in 1 .. n
       PROVE  cast[i] \in Nat /\ cast[i] * h2 <= h1 /\ l1 <= (cast[i] + 1) * l2
  <2>1. Leq(low, avg(i)) /\ Leq(avg(i), high)
    BY <1>2, <1>8, <1>9, <1>10 DEF IsMean
  <2>2. avg(i) \in Fractions /\ cast[i] = Truncated(avg(i))
    BY <1>2, <1>5
  <2> HIDE DEF low, high
  <2> QED
    BY <1>10, <2>1, <2>2, CastOfMean
<1>12. cast \in Seq(Nat) /\ Len(cast) = n
  <2>1. cast \in [1 .. n -> Nat]
    BY <1>6, <1>11
  <2>2. n \in Nat
    BY <1>1
  <2> QED
    BY <2>1, <2>2
<1>13. l1 \in Nat /\ l2 \in Nat \ {0} /\ h1 \in Nat /\ h2 \in Nat \ {0}
  BY <1>10 DEF Positive
<1>14. T \in Nat /\ (n = 1 => T = cast[1]) /\ (n = 2 => T = cast[1] + cast[2])
  BY <1>1, <1>12, TotalOfFew
<1> HIDE DEF low, high, l1, l2, h1, h2, T
<1>15. T * h2 <= h1 * n /\ l1 * n <= (T + n) * l2
  <2>1. CASE n = 1
    <3>1. T = cast[1] /\ T * h2 <= h1 /\ l1 <= (T + 1) * l2
      BY <1>11, <1>14, <2>1
    <3> QED
      BY <1>13, <1>14, <2>1, <3>1
  <2>2. CASE n = 2
    <3> DEFINE a == cast[1]
               b == cast[2]
    <3>1. /\ T = a + b /\ a \in Nat /\ b \in Nat /\ a * h2 <= h1 /\ b * h2 <= h1
          /\ l1 <= (a + 1) * l2 /\ l1 <= (b + 1) * l2
      <4>1. 1 \in 1 .. n /\ 2 \in 1 .. n
        BY <2>2
      <4> QED
        BY <1>11, <1>14, <2>2, <4>1
    <3> HIDE DEF a, b
    <3>2. T * h2 = a * h2 + b * h2 /\ (T + 2) * l2 = (a + 1) * l2 + (b + 1) * l2
      BY <1>13, <3>1
    <3> DEFINE ah == a * h2
               bh == b * h2
               al == (a + 1) * l2
               bl == (b + 1) * l2
    <3>3. ah \in Int /\ bh \in Int /\ al \in Int /\ bl \in Int
      BY <1>13, <3>1
    <3>4. ah <= h1 /\ bh <= h1 /\ l1 <= al /\ l1 <= bl
      BY <3>1
    <3>5. T * h2 = ah + bh /\ (T + 2) * l2 = al + bl
      BY <3>2
    <3> HIDE DEF ah, bh, al, bl
    <3>6. ah + bh <= h1 * 2 /\ l1 * 2 <= al + bl
      BY <1>13, <3>3, <3>4
    <3> QED
      BY <2>2, <3>5, <3>6
  <2> QED
    BY <1>1, <2>1, <2>2
<1>16. <<T, n>> \in Fractions /\ <<T, n>> \in Signed /\ <<1, 1>> \in Signed
  <2>1. n \in Nat \ {0}
    BY <1>1
  <2> QED
    BY <1>14, <2>1 DEF Fractions, Signed
<1>17. Leq(<<T, n>>, high)
  BY <1>15 DEF Leq, h1, h2
<1>18. Leq(low, Plus(<<T, n>>, <<1, 1>>))
  <2>1. RawPlus(<<T, n>>, <<1, 1>>) = <<T * 1 + 1 * n, n * 1>>
    BY DEF RawPlus
  <2>2. T * 1 + 1 * n = T + n /\ n * 1 = n
    <3>1. n \in Nat
      BY <1>1
    <3> QED
      BY <1>14, <3>1
  <2>3. Leq(low, RawPlus(<<T, n>>, <<1, 1>>))
    BY <1>15, <2>1, <2>2 DEF Leq, l1, l2
  <2>4. /\ Plus(<<T, n>>, <<1, 1>>) \in Signed /\ RawPlus(<<T, n>>, <<1, 1>>) \in Signed
        /\ Same(Plus(<<T, n>>, <<1, 1>>), RawPlus(<<T, n>>, <<1, 1>>))
    BY <1>16, PlusIsRaw, RawPlusSigned
  <2> QED
    BY <1>10, <2>3, <2>4, LeqOfSame, PositiveSigned
<1>19. k \in 1 .. Len(segs) /\ m \in 1 .. Len(segs) /\ low = Rate(segs[k]) /\ high = Rate(segs[m])
  BY <1>3, <1>8, <1>9 DEF low, high
<1> QED
  BY <1>4, <1>16, <1>17, <1>18, <1>19 DEF Between

-----------------------------------------------------------------------------
(* The long-term average.                                                  *)

\* The long-term average is the mean of all rates, although it keeps only its
\* last value.
LEMMA SameKeepsSign ==
  ASSUME NEW p \in Signed, NEW q \in Fractions, Same(p, q)
  PROVE  p \in Fractions
<1> DEFINE a == p[1]
           b == p[2]
           c == q[1]
           d == q[2]
<1>1. a \in Int /\ b \in Nat \ {0} /\ c \in Nat /\ d \in Nat \ {0} /\ p = <<a, b>>
  BY DEF Signed, Fractions
<1>2. a * d = c * b
  BY DEF Same
<1> HIDE DEF a, b, c, d
<1>3. a >= 0
  <2>1. c * b >= 0
    BY <1>1
  <2>2. a < 0 => a * d < 0
    BY <1>1
  <2> QED
    BY <1>1, <1>2, <2>1, <2>2
<1> QED
  BY <1>1, <1>3 DEF Fractions

\* A multiple of a sum is the sum of the multiples.
LEMMA TimesOfSum ==
  ASSUME NEW p \in Signed, NEW q \in Signed, NEW k \in Nat
  PROVE  Same(Times(k, Plus(p, q)), Plus(Times(k, p), Times(k, q)))
<1> DEFINE a == p[1]
           b == p[2]
           c == q[1]
           d == q[2]
           u == Plus(p, q)[1]
           v == Plus(p, q)[2]
<1>1. a \in Int /\ c \in Int /\ b \in Nat \ {0} /\ d \in Nat \ {0}
  BY DEF Signed
<1>2. Plus(p, q) \in Signed /\ Same(Plus(p, q), RawPlus(p, q))
  BY PlusIsRaw
<1>3. u \in Int /\ v \in Nat \ {0} /\ Times(k, Plus(p, q)) = <<k * u, v>>
  BY <1>2 DEF Signed, Times
<1>4. u * (b * d) = (a * d + c * b) * v
  BY <1>2 DEF Same, RawPlus
<1>5. RawPlus(Times(k, p), Times(k, q)) = <<(k * a) * d + (k * c) * b, b * d>>
  BY DEF RawPlus, Times
<1>6. Times(k, p) \in Signed /\ Times(k, q) \in Signed /\ Times(k, Plus(p, q)) \in Signed
  BY <1>2, TimesPlus
<1>7. /\ Plus(Times(k, p), Times(k, q)) \in Signed /\ RawPlus(Times(k, p), Times(k, q)) \in Signed
      /\ Same(Plus(Times(k, p), Times(k, q)), RawPlus(Times(k, p), Times(k, q)))
  BY <1>6, PlusIsRaw, RawPlusSigned
<1> HIDE DEF a, b, c, d, u, v
<1>8. (k * u) * (b * d) = ((k * a) * d + (k * c) * b) * v
  <2>1. (k * u) * (b * d) = k * (u * (b * d))
    BY <1>1, <1>3
  <2>2. ((k * a) * d + (k * c) * b) * v = k * ((a * d + c * b) * v)
    BY <1>1, <1>3
  <2> QED
    BY <1>4, <2>1, <2>2
<1>9. Same(Times(k, Plus(p, q)), RawPlus(Times(k, p), Times(k, q)))
  BY <1>3, <1>5, <1>8 DEF Same
<1>10. Same(RawPlus(Times(k, p), Times(k, q)), Plus(Times(k, p), Times(k, q)))
  BY <1>7, SameLeq
<1> QED
  BY <1>6, <1>7, <1>9, <1>10, SameTrans

\* Minus reduces the difference.
LEMMA MinusIs ==
  ASSUME NEW p \in Signed, NEW q \in Signed
  PROVE  /\ Minus(p, q) \in Signed /\ <<p[1] * q[2] - q[1] * p[2], p[2] * q[2]>> \in Signed
         /\ Same(Minus(p, q), <<p[1] * q[2] - q[1] * p[2], p[2] * q[2]>>)
<1> DEFINE a == p[1]
           b == p[2]
           c == q[1]
           d == q[2]
<1>1. a \in Int /\ c \in Int /\ b \in Nat \ {0} /\ d \in Nat \ {0}
  BY DEF Signed
<1>2. Minus(p, q) = Reduced(a * d - c * b, b * d)
  BY DEF Minus
<1> HIDE DEF a, b, c, d
<1>3. a * d - c * b \in Int /\ b * d \in Nat \ {0}
  BY <1>1
<1>4. Minus(p, q) \in Signed /\ Same(Minus(p, q), <<a * d - c * b, b * d>>)
  BY <1>2, <1>3, ReducedSame
<1>5. <<a * d - c * b, b * d>> \in Signed
  BY <1>3 DEF Signed
<1> QED
  BY <1>4, <1>5 DEF a, b, c, d

\* What the division by k adds to the mean of k - 1 numbers.
LEMMA MeanMoves ==
  ASSUME NEW p \in Signed, NEW r \in Signed, NEW k \in Nat \ {0}
  PROVE  /\ Plus(p, Over(Minus(r, p), k)) \in Signed
         /\ Same(Times(k, Plus(p, Over(Minus(r, p), k))), Plus(Times(k - 1, p), r))
<1> DEFINE q == Over(Minus(r, p), k)
<1>1. Minus(r, p) \in Signed
  BY MinusIs
<1>2. q \in Signed /\ Same(Times(k, q), Minus(r, p))
  BY <1>1, OverIs
<1> HIDE DEF q
<1>3. Plus(p, q) \in Signed
  BY <1>2, PlusIsRaw
<1>4. Same(Times(k, Plus(p, q)), Plus(Times(k, p), Times(k, q)))
  BY <1>2, TimesOfSum
<1>5. Times(k, p) \in Signed /\ Times(k, q) \in Signed /\ Times(k - 1, p) \in Signed
  <2>1. k \in Nat /\ k - 1 \in Nat
    OBVIOUS
  <2> QED
    BY <1>2, <2>1, TimesPlus
<1> DEFINE a == p[1]
           b == p[2]
           c == r[1]
           d == r[2]
           minus == <<c * b - a * d, d * b>>
<1>6. a \in Int /\ c \in Int /\ b \in Nat \ {0} /\ d \in Nat \ {0}
  BY DEF Signed
<1>7. minus \in Signed /\ Same(Minus(r, p), minus)
  BY MinusIs
<1>8. Same(Times(k, q), minus)
  BY <1>1, <1>2, <1>5, <1>7, SameTrans
<1>9. Same(Times(k, p), Times(k, p))
  BY DEF Same
<1>10. Same(Plus(Times(k, p), Times(k, q)), Plus(Times(k, p), minus))
  BY <1>5, <1>7, <1>8, <1>9, PlusSame
<1>11. Same(RawPlus(Times(k, p), minus), RawPlus(Times(k - 1, p), r))
  <2>1. /\ RawPlus(Times(k, p), minus) = <<(k * a) * (d * b) + (c * b - a * d) * b, b * (d * b)>>
        /\ RawPlus(Times(k - 1, p), r) = <<((k - 1) * a) * d + c * b, b * d>>
    BY DEF RawPlus, Times
  <2> HIDE DEF a, b, c, d
  <2>2. ((k * a) * (d * b) + (c * b - a * d) * b) * (b * d)
          = (((k - 1) * a) * d + c * b) * (b * (d * b))
    <3> DEFINE x == (k - 1) * (a * d) + c * b
    <3>1. (k * a) * (d * b) + (c * b - a * d) * b = x * b
      BY <1>6
    <3>2. ((k - 1) * a) * d + c * b = x
      BY <1>6
    <3>3. x \in Int
      BY <1>6
    <3> HIDE DEF x
    <3>4. (x * b) * (b * d) = x * (b * (d * b))
      BY <1>6, <3>3
    <3> QED
      BY <3>1, <3>2, <3>4
  <2> QED
    BY <2>1, <2>2 DEF Same
<1> HIDE DEF a, b, c, d, minus
<1>12. /\ Plus(Times(k, p), minus) \in Signed /\ RawPlus(Times(k, p), minus) \in Signed
       /\ Same(Plus(Times(k, p), minus), RawPlus(Times(k, p), minus))
  BY <1>5, <1>7, PlusIsRaw, RawPlusSigned
<1>13. /\ Plus(Times(k - 1, p), r) \in Signed /\ RawPlus(Times(k - 1, p), r) \in Signed
       /\ Same(RawPlus(Times(k - 1, p), r), Plus(Times(k - 1, p), r))
  BY <1>5, PlusIsRaw, RawPlusSigned, SameLeq
<1>14. Same(Plus(Times(k, p), minus), Plus(Times(k - 1, p), r))
  BY <1>11, <1>12, <1>13, SameTrans
<1>15. Plus(Times(k, p), Times(k, q)) \in Signed /\ Times(k, Plus(p, q)) \in Signed
  <2>1. k \in Nat
    OBVIOUS
  <2> QED
    BY <1>3, <1>5, <2>1, PlusIsRaw, TimesPlus
<1>16. Same(Times(k, Plus(p, q)), Plus(Times(k, p), minus))
  BY <1>4, <1>10, <1>12, <1>15, SameTrans
<1>17. Same(Times(k, Plus(p, q)), Plus(Times(k - 1, p), r))
  BY <1>12, <1>13, <1>14, <1>15, <1>16, SameTrans
<1> QED
  BY <1>3, <1>17 DEF q

\* The rates of a history with one more segment.
LEMMA RatesOfAppend ==
  ASSUME NEW segs \in Seq(Received), NEW s \in Received
  PROVE  /\ Append(segs, s) \in Seq(Received) /\ Append(segs, s) # <<>>
         /\ Len(Append(segs, s)) = Len(segs) + 1 /\ Append(segs, s)[Len(segs) + 1] = s
         /\ Rates(Append(segs, s)) = Append(Rates(segs), Rate(s))
<1> DEFINE n == Len(segs)
           new == Append(segs, s)
           x == Rates(segs)
<1>1. /\ n \in Nat /\ new \in Seq(Received) /\ Len(new) = n + 1 /\ new[n + 1] = s
      /\ \A i \in 1 .. n : new[i] = segs[i]
  OBVIOUS
<1>2. /\ x \in Seq(Positive) /\ Len(x) = n /\ \A i \in 1 .. n : x[i] = Rate(segs[i])
  BY RatesAre
<1>3. Rates(new) = [i \in 1 .. n + 1 |-> Rate(new[i])]
  BY <1>1 DEF Rates
<1>4. Rate(s) \in Positive
  BY RatePositive
<1> DEFINE r == Rate(s)
<1> HIDE DEF n, new, x, r
<1>5. Append(x, r) = [i \in 1 .. n + 1 |-> IF i = n + 1 THEN r ELSE x[i]]
  <2>1. /\ Append(x, r) \in Seq(Positive) /\ Len(Append(x, r)) = n + 1
        /\ Append(x, r)[n + 1] = r /\ \A i \in 1 .. n : Append(x, r)[i] = x[i]
    BY <1>1, <1>2, <1>4 DEF r
  <2> DEFINE y == Append(x, r)
  <2>0. y \in Seq(Positive) /\ Len(y) = n + 1
    BY <2>1
  <2> HIDE DEF y
  <2>2. DOMAIN y = 1 .. n + 1 /\ y = [i \in DOMAIN y |-> y[i]]
    BY <2>0
  <2>3. \A i \in 1 .. n + 1 : y[i] = IF i = n + 1 THEN r ELSE x[i]
    <3>1. \A i \in 1 .. n + 1 : i = n + 1 \/ i \in 1 .. n
      BY <1>1
    <3> QED
      BY <2>1, <3>1 DEF y
  <2> QED
    BY <2>2, <2>3 DEF y
<1>6. \A i \in 1 .. n + 1 : Rate(new[i]) = IF i = n + 1 THEN r ELSE x[i]
  <2>1. \A i \in 1 .. n + 1 : i = n + 1 \/ i \in 1 .. n
    BY <1>1
  <2>2. \A i \in 1 .. n : Rate(new[i]) = x[i]
    BY <1>1, <1>2
  <2> QED
    BY <1>1, <2>1, <2>2 DEF r
<1>7. Rates(new) = Append(x, r)
  BY <1>3, <1>5, <1>6
<1>8. new # <<>>
  BY <1>1
<1> QED
  BY <1>1, <1>7, <1>8 DEF n, new, x, r

\* A sum of fractions is a fraction.
LEMMA SumIn ==
  ASSUME NEW x \in Seq(Fractions)
  PROVE  SumOf(x) \in Fractions /\ (x = <<>> => SumOf(x) = Zero)
<1>1. PICK f \in [0 .. Len(x) -> Fractions] : f[0] = Zero /\ f[Len(x)] = SumOf(x)
  BY SumSteps
<1>2. Len(x) \in Nat /\ (x = <<>> => Len(x) = 0)
  OBVIOUS
<1> QED
  BY <1>1, <1>2

\* The last value of the long-term average, shared out over all segments, is the
\* sum of all rates.
LEMMA LongAvgIs ==
  ASSUME NEW segs \in Seq(Received), NEW s \in Received, NEW last \in Fractions,
         segs # <<>> => Same(Times(Len(segs), last), SumOf(Rates(segs)))
  PROVE  LET new == Append(segs, s)
         IN /\ LongAvg(new, last) \in Fractions
            /\ Same(Times(Len(new), LongAvg(new, last)), SumOf(Rates(new)))
<1> DEFINE n == Len(segs)
           new == Append(segs, s)
           x == Rates(segs)
           r == Rate(s)
           sum == SumOf(x)
<1>1. /\ new \in Seq(Received) /\ new # <<>> /\ Len(new) = n + 1 /\ new[n + 1] = s
      /\ Rates(new) = Append(x, r) /\ n \in Nat
  BY RatesOfAppend
<1>2. x \in Seq(Fractions) /\ r \in Fractions /\ Len(x) = n
  BY RatesAre, RatePositive, PositiveSigned
<1>3. SumOf(Rates(new)) = Plus(sum, r)
  BY <1>1, <1>2, SumAppend
<1>4. sum \in Fractions /\ (x = <<>> => sum = Zero)
  BY <1>2, SumIn
<1>5. Plus(sum, r) \in Fractions
  BY <1>2, <1>4, FractionsSigned, PlusIsRaw
<1> DEFINE l == LongAvg(new, last)
<1>6. l \in Signed /\ Same(Times(n + 1, l), Plus(sum, r))
  <2>1. CASE n = 0
    <3>1. l = r
      <4>1. new[1] = s /\ Len(new) = 1
        BY <1>1, <2>1
      <4> QED
        BY <1>1, <4>1 DEF LongAvg
    <3>2. x = <<>>
      <4> HIDE DEF x, n
      <4> QED
        BY <1>2, <2>1
    <3>3. Same(Plus(sum, r), r)
      <4>1. Plus(sum, r) = Plus(Zero, r)
        BY <1>4, <3>2
      <4>2. Zero \in Signed /\ r \in Signed
        BY <1>2, PlusZero, FractionsSigned
      <4>3. Plus(Zero, r) \in Signed /\ Same(Plus(Zero, r), RawPlus(Zero, r)) /\ RawPlus(Zero, r) \in Signed
            /\ RawPlus(Zero, r) = RawPlus(r, Zero)
        BY <4>2, PlusIsRaw, RawPlusSigned
      <4>4. Same(RawPlus(r, Zero), r)
        <5>1. Plus(r, Zero) \in Signed /\ Same(Plus(r, Zero), RawPlus(r, Zero)) /\ Same(Plus(r, Zero), r)
          BY <4>2, PlusIsRaw, PlusZero
        <5>2. Same(RawPlus(r, Zero), Plus(r, Zero))
          BY <4>2, <4>3, <5>1, SameLeq
        <5> QED
          BY <4>2, <4>3, <5>1, <5>2, SameTrans
      <4> QED
        BY <4>1, <4>2, <4>3, <4>4, SameTrans
    <3>4. Same(Times(n + 1, l), r)
      <4>1. n + 1 = 1 /\ r[1] \in Int /\ r[2] \in Int
        BY <1>2, <2>1 DEF Fractions
      <4>2. Times(1, r) = <<1 * r[1], r[2]>>
        BY DEF Times
      <4> HIDE DEF r
      <4>3. (1 * r[1]) * r[2] = r[1] * r[2]
        BY <4>1
      <4> QED
        BY <3>1, <4>1, <4>2, <4>3 DEF Same
    <3>5. Times(n + 1, l) \in Signed /\ r \in Signed
      BY <1>1, <1>2, <3>1, FractionsSigned, TimesPlus
    <3>6. Same(r, Plus(sum, r))
      BY <1>5, <3>3, <3>5, FractionsSigned, SameLeq
    <3> QED
      BY <1>5, <3>1, <3>4, <3>5, <3>6, FractionsSigned, SameTrans
  <2>2. CASE n # 0
    <3>1. segs # <<>> /\ n + 1 # 1 /\ n + 1 \in Nat \ {0} /\ (n + 1) - 1 = n
      BY <1>1, <2>2
    <3>2. l = Plus(last, Over(Minus(r, last), n + 1))
      BY <1>1, <3>1 DEF LongAvg
    <3>3. last \in Signed /\ r \in Signed /\ sum \in Signed
      BY <1>2, <1>4, FractionsSigned
    <3> HIDE DEF l, r, sum, n
    <3>4. l \in Signed /\ Same(Times(n + 1, l), Plus(Times((n + 1) - 1, last), r))
      BY <3>1, <3>2, <3>3, MeanMoves
    <3>5. Same(Times(n, last), sum)
      BY <3>1 DEF n, sum
    <3>6. Same(r, r)
      BY DEF Same
    <3>7. Times(n, last) \in Signed /\ Times(n + 1, l) \in Signed
      BY <1>1, <3>1, <3>3, <3>4, TimesPlus
    <3>8. Same(Plus(Times(n, last), r), Plus(sum, r))
      BY <3>3, <3>5, <3>6, <3>7, PlusSame
    <3>9. Plus(Times(n, last), r) \in Signed /\ Plus(sum, r) \in Signed
      BY <3>3, <3>7, PlusIsRaw
    <3> QED
      BY <3>1, <3>4, <3>7, <3>8, <3>9, SameTrans
  <2> QED
    BY <2>1, <2>2
<1>7. l \in Fractions
  <2> HIDE DEF l, n
  <2>1. Times(n + 1, l) \in Signed
    BY <1>1, <1>6, TimesPlus
  <2>2. Times(n + 1, l) \in Fractions
    BY <1>5, <1>6, <2>1, SameKeepsSign
  <2> DEFINE a == l[1]
             b == l[2]
  <2>3. a \in Int /\ b \in Nat \ {0} /\ l = <<a, b>> /\ (n + 1) * a \in Nat
    BY <1>6, <2>2 DEF Signed, Fractions, Times
  <2> HIDE DEF a, b
  <2>4. a >= 0
    <3>1. a < 0 => (n + 1) * a < 0
      BY <1>1, <2>3
    <3> QED
      BY <2>3, <3>1
  <2> QED
    BY <2>3, <2>4 DEF Fractions
<1> QED
  BY <1>1, <1>3, <1>6, <1>7

\* Without segments nothing has been received in no time, and the cast gives NoRate.
LEMMA CastOfCrossed ==
  ASSUME NEW segs \in Seq(Received), NEW k \in Int, NEW m \in Int, m < k
  PROVE  Truncated(Pooled(SubSeq(segs, k, m))) = NoRate
<1> DEFINE times == [i \in 1 .. 0 |-> SubSeq(segs, k, m)[i].end - SubSeq(segs, k, m)[i].start]
<1>1. SubSeq(segs, k, m) = <<>> /\ Len(SubSeq(segs, k, m)) = 0
  OBVIOUS
<1>2. Pooled(SubSeq(segs, k, m))[2] = Total(times)
  BY <1>1 DEF Pooled
<1>3. times \in Seq(Nat) /\ Len(times) = 0
  OBVIOUS
<1> HIDE DEF times
<1>4. PICK f \in [0 .. Len(times) -> Nat] : f[0] = 0 /\ f[Len(times)] = Total(times)
  BY <1>3, TotalSteps
<1>5. Total(times) = 0
  BY <1>3, <1>4
<1> QED
  BY <1>2, <1>5 DEF Truncated

\* The average in time always has a denominator, and a number for its sum.
LEMMA AvgInTimeIs ==
  ASSUME NEW segs \in Seq(Received), NEW t \in Nat
  PROVE  AvgInTime(segs, t)[1] \in Int /\ AvgInTime(segs, t)[2] \in Nat \ {0}
<1> DEFINE n == Len(Windows(t))
           avg(i) == AverageBandwidth(segs, Windows(t)[i][1], Windows(t)[i][2])
           cast == [i \in 1 .. n |-> Truncated(avg(i))]
<1>1. n \in {1, 2} /\ \A i \in 1 .. n : Windows(t)[i][1] \in Int /\ Windows(t)[i][2] \in Int
  BY WindowsAre
<1>2. AvgInTime(segs, t) = <<Total(cast), n>>
  BY DEF AvgInTime
<1>3. \A p \in Fractions : Truncated(p) \in Int
  <2> SUFFICES ASSUME NEW p \in Fractions PROVE Truncated(p) \in Int
    OBVIOUS
  <2>1. p[1] \in Nat /\ p[2] \in Nat \ {0}
    BY DEF Fractions
  <2>2. p[1] \div p[2] \in Int
    BY <2>1
  <2> QED
    BY <2>1, <2>2 DEF Truncated
<1>4. ASSUME NEW i \in 1 .. n
      PROVE  Truncated(avg(i)) \in Int
  <2> DEFINE t_1 == Windows(t)[i][1]
             t_2 == Windows(t)[i][2]
             k == IndexStart(segs, FromStart(t_1))
             m == IndexEnd(segs, t_2)
  <2>1. t_1 \in Int /\ t_2 \in Int /\ FromStart(t_1) \in Int
    BY <1>1 DEF FromStart
  <2>2. CASE segs = <<>>
    <3>1. avg(i) = Zero /\ Zero \in Fractions
      BY <2>2 DEF AverageBandwidth, Zero, Fractions
    <3> QED
      BY <1>3, <3>1
  <2>3. CASE segs # <<>>
    <3>1. k \in Int /\ m \in Int
      <4>1. k \in 1 .. Len(segs) /\ m \in 1 .. Len(segs)
        BY <2>1, <2>3, IndexStartIn, IndexEndIn
      <4> HIDE DEF k, m
      <4> QED
        BY <4>1
    <3>2. CASE k <= m
      <4>1. avg(i) \in Fractions
        BY <2>1, <2>3, <3>2, AverageIsMean
      <4> QED
        BY <1>3, <4>1
    <3>3. CASE m < k
      <4>1. avg(i) = Pooled(SubSeq(segs, k, m))
        BY <2>3 DEF AverageBandwidth
      <4> HIDE DEF k, m, avg
      <4>2. Truncated(avg(i)) = NoRate
        BY <3>1, <3>3, <4>1, CastOfCrossed
      <4> QED
        BY <4>2, EstimatorAssumption
    <3> HIDE DEF k, m
    <3> QED
      BY <3>1, <3>2, <3>3
  <2> QED
    BY <2>2, <2>3
<1>5. cast \in Seq(Int)
  <2>1. n \in Nat
    BY <1>1
  <2> HIDE DEF n
  <2> QED
    BY <1>4, <2>1
<1>6. Total(cast) \in Int
  <2> HIDE DEF cast
  <2> QED
    BY <1>5, TotalInt
<1> HIDE DEF n, cast
<1> QED
  BY <1>1, <1>2, <1>6

-----------------------------------------------------------------------------
(* The answers.                                                            *)

\* The estimates last given are those of the history, and the long-term average,
\* shared out over all segments, is the sum of all rates.
Estimates ==
  /\ segments \in Seq(Received)
  /\ longAvg \in Fractions
  /\ segments # <<>> => Same(Times(Len(segments), longAvg), SumOf(Rates(segments)))
  /\ bandwidthanswer # <<>> =>
       bandwidthanswer =
         [wharmonic |-> WHarmonic(segments), avginchunk |-> AvgInChunk(segments),
          harmonic |-> Harmonic(segments), avgintime |-> AvgInTime(segments, timeNow),
          longavg |-> longAvg]

\* There is no estimate at first.
LEMMA EstimatesBegin == BwInit => Estimates
<1>1. Zero \in Fractions
  BY DEF Zero, Fractions
<1> QED
  BY <1>1 DEF BwInit, Estimates

\* The first request is answered without a history.
LEMMA FirstEstimates ==
  ASSUME Estimates, segments = <<>>, NEW t \in IdleTimes, FirstRequest(t)
  PROVE  Estimates'
<1>1. /\ segments' = segments /\ timeNow' = t /\ longAvg' = LongAvg(segments, longAvg)
      /\ bandwidthanswer' =
           [wharmonic |-> WHarmonic(segments), avginchunk |-> AvgInChunk(segments),
            harmonic |-> Harmonic(segments), avgintime |-> AvgInTime(segments, t),
            longavg |-> LongAvg(segments, longAvg)]
  BY DEF FirstRequest, BandwidthAlgo
<1>2. longAvg' = longAvg
  BY <1>1 DEF LongAvg
<1> QED
  BY <1>1, <1>2 DEF Estimates

\* A segment is received, and all algorithms are asked.
LEMMA NextEstimates ==
  ASSUME Estimates, timeNow \in Nat,
         NEW idle \in IdleTimes, NEW duration \in Durations, NEW size \in Sizes,
         SegmentReceived(idle, duration, size)
  PROVE  Estimates'
<1> DEFINE s == [start |-> timeNow + idle, end |-> timeNow', size |-> size]
           new == Append(segments, s)
<1>1. /\ segments' = new /\ timeNow' = timeNow + idle + duration
      /\ longAvg' = LongAvg(segments', longAvg)
      /\ bandwidthanswer' =
           [wharmonic |-> WHarmonic(segments'), avginchunk |-> AvgInChunk(segments'),
            harmonic |-> Harmonic(segments'), avgintime |-> AvgInTime(segments', timeNow'),
            longavg |-> LongAvg(segments', longAvg)]
  BY DEF SegmentReceived, BandwidthAlgo
<1>2. s \in Received
  <2>1. Durations \subseteq Nat \ {0} /\ IdleTimes \subseteq Nat
    BY EstimatorAssumption, Zenon
  <2>2. idle \in Nat /\ duration \in Nat \ {0}
    BY <2>1
  <2>3. timeNow + idle \in Nat /\ timeNow' \in Nat /\ timeNow + idle < timeNow'
    BY <1>1, <2>2
  <2> QED
    BY <2>3 DEF Received, Segment
<1> HIDE DEF s
<1>3. LongAvg(new, longAvg) \in Fractions /\ Same(Times(Len(new), LongAvg(new, longAvg)), SumOf(Rates(new)))
  BY <1>2, LongAvgIs DEF Estimates
<1>4. new \in Seq(Received)
  BY <1>2 DEF Estimates
<1> HIDE DEF new
<1> QED
  BY <1>1, <1>3, <1>4 DEF Estimates

-----------------------------------------------------------------------------
(* The history that the client builds.                                     *)

\* The last segment has just been received, and none began later than now.
History ==
  /\ timeNow \in Nat
  /\ segments \in Seq(Segment)
  /\ bandwidthanswer = <<>> => segments = <<>>
  /\ \A i \in 1 .. Len(segments) : segments[i].start <= timeNow
  /\ segments # <<>> => segments[Len(segments)].end = timeNow

\* The history is empty at first.
LEMMA HistoryBegins == BwInit => History
  BY DEF BwInit, History

\* The first request leaves it empty.
LEMMA FirstRequestKeeps ==
  ASSUME History, NEW t \in IdleTimes, FirstRequest(t)
  PROVE  History'
<1>1. segments = <<>> /\ segments' = <<>> /\ timeNow' \in Nat
  BY EstimatorAssumption DEF History, FirstRequest
<1> QED
  BY <1>1 DEF History

\* A segment received is the last of the history.
LEMMA SegmentKeeps ==
  ASSUME History, NEW idle \in IdleTimes, NEW duration \in Durations, NEW size \in Sizes,
         SegmentReceived(idle, duration, size)
  PROVE  History'
<1> DEFINE new == [start |-> timeNow + idle, end |-> timeNow', size |-> size]
           n == Len(segments)
<1>1. timeNow' = timeNow + idle + duration /\ segments' = Append(segments, new)
  BY DEF SegmentReceived
<1>2. idle \in Nat /\ duration \in Nat
  BY EstimatorAssumption
<1>3. timeNow' \in Nat /\ timeNow' >= timeNow /\ new \in Segment /\ new.start <= timeNow'
  BY <1>1, <1>2 DEF History, Segment
<1>4. segments' \in Seq(Segment) /\ Len(segments') = n + 1 /\ n \in Nat
  BY <1>1, <1>3 DEF History
<1>5. segments'[n + 1] = new /\ \A i \in 1 .. n : segments'[i] = segments[i]
  BY <1>1, <1>3 DEF History
<1>6. \A i \in 1 .. n + 1 : segments'[i].start <= timeNow'
  <2> SUFFICES ASSUME NEW i \in 1 .. n + 1
               PROVE  segments'[i].start <= timeNow'
    OBVIOUS
  <2>1. CASE i = n + 1
    BY <1>3, <1>5, <2>1
  <2>2. CASE i \in 1 .. n
    <3>1. segments[i] \in Segment /\ segments[i].start <= timeNow
      BY <2>2 DEF History
    <3> QED
      BY <1>3, <1>5, <2>2, <3>1 DEF History, Segment
  <2> QED
    BY <1>4, <2>1, <2>2
<1>7. bandwidthanswer' # <<>>
  <2>1. DOMAIN bandwidthanswer' # {}
    BY DEF SegmentReceived, BandwidthAlgo
  <2> QED
    BY <2>1
<1> QED
  <2>1. segments'[Len(segments')].end = timeNow'
    BY <1>4, <1>5
  <2> QED
    BY <1>3, <1>4, <1>6, <1>7, <2>1 DEF History

-----------------------------------------------------------------------------
(* The windows.                                                            *)

\* In the latest window there is always the segment just received; in the one before,
\* the last that began before its end has ended after its beginning, or the client was
\* idle for longer than the window.
LEMMA HistoryFillsWindows == History => OrderedUnlessIdle
<1> SUFFICES ASSUME History, ~LongPause, segments # <<>>, NEW i \in 1 .. Len(Windows(timeNow))
             PROVE  IndexStart(segments, FromStart(Windows(timeNow)[i][1]))
                      <= IndexEnd(segments, Windows(timeNow)[i][2])
  BY DEF OrderedUnlessIdle, WindowOrdered
<1> DEFINE w == Windows(timeNow)[i]
           n == Len(segments)
           last == IndexEnd(segments, w[2])
<1>1. m_deltaTime_1 \in Nat /\ m_deltaTime_2 \in Nat
  BY EstimatorAssumption
<1>2. n \in Nat \ {0} /\ timeNow \in Nat /\ \A j \in 1 .. n : segments[j] \in Segment
  BY DEF History
<1>3. /\ w[1] \in Int /\ w[2] \in Int
      /\ \/ w[2] = timeNow /\ w[1] <= timeNow
         \/ w[2] = timeNow - m_deltaTime_1 /\ w[1] = timeNow - m_deltaTime_2
  BY <1>2, WindowsAre
<1> HIDE DEF w
<1>4. FromStart(w[1]) \in Nat /\ (FromStart(w[1]) = w[1] \/ FromStart(w[1]) = 0)
  BY <1>3 DEF FromStart
<1>5. last \in 1 .. n /\ \A j \in 1 .. n : j > last => segments[j].start > w[2]
  BY <1>3, LastEarly DEF History
<1>6. segments[last].end >= FromStart(w[1])
  <2>1. CASE last = n
    <3>1. segments[last].end = timeNow
      BY <2>1 DEF History
    <3> QED
      BY <1>1, <1>2, <1>3, <1>4, <3>1
  <2>2. CASE last < n
    <3>1. segments[last + 1].start > w[2]
      BY <1>2, <1>5, <2>2
    <3>2. ~ (segments[last + 1].start - segments[last].end > m_deltaTime_2 - m_deltaTime_1)
      <4>1. last \in 1 .. Len(segments) - 1
        BY <1>2, <1>5, <2>2
      <4> HIDE DEF last
      <4> QED
        BY <4>1 DEF LongPause
    <3>3. segments[last + 1].start <= timeNow
      BY <1>2, <1>5, <2>2 DEF History
    <3>4. segments[last].end \in Nat /\ segments[last + 1].start \in Nat
      BY <1>2, <1>5, <2>2 DEF Segment
    <3> DEFINE end == segments[last].end
               next == segments[last + 1].start
               t_1 == w[1]
               t_2 == w[2]
               from == FromStart(w[1])
    <3>5. /\ end \in Nat /\ next \in Nat /\ next > t_2 /\ ~ (next - end > m_deltaTime_2 - m_deltaTime_1)
          /\ t_1 \in Int /\ from \in Nat /\ (from = t_1 \/ from = 0) /\ next <= timeNow
          /\ \/ t_2 = timeNow
             \/ t_2 = timeNow - m_deltaTime_1 /\ t_1 = timeNow - m_deltaTime_2
      BY <1>3, <1>4, <3>1, <3>2, <3>3, <3>4
    <3> HIDE DEF end, next, t_1, t_2, from
    <3>6. end >= from
      BY <1>1, <1>2, <3>5
    <3> QED
      BY <3>6 DEF end, from
  <2> QED
    BY <1>2, <1>5, <2>1, <2>2
<1>7. IndexStart(segments, FromStart(w[1])) <= last
  BY <1>4, <1>5, <1>6, FirstLate DEF History
<1> QED
  BY <1>7 DEF w

-----------------------------------------------------------------------------
(* The estimates.                                                          *)

\* The four means that do not look at the time are between two rates.
LEMMA TimelessMeans ==
  ASSUME Estimates, segments # <<>>, bandwidthanswer # <<>>
  PROVE  /\ \A a \in {"wharmonic", "avginchunk", "harmonic"} :
              bandwidthanswer[a] \in Fractions /\ Between(bandwidthanswer[a], Zero, Window(segments))
         /\ Leq(bandwidthanswer.harmonic, bandwidthanswer.avginchunk)
         /\ bandwidthanswer.longavg \in Fractions
         /\ Between(bandwidthanswer.longavg, Zero, segments)
         /\ Same(bandwidthanswer.longavg, Over(SumOf(Rates(segments)), Len(segments)))
<1> DEFINE w == Window(segments)
           x == Rates(segments)
           n == Len(segments)
<1>1. /\ bandwidthanswer.wharmonic = WHarmonic(segments)
      /\ bandwidthanswer.avginchunk = AvgInChunk(segments)
      /\ bandwidthanswer.harmonic = Harmonic(segments)
      /\ bandwidthanswer.longavg = longAvg
  BY DEF Estimates
<1>2. segments \in Seq(Received) /\ longAvg \in Fractions /\ Same(Times(n, longAvg), SumOf(x))
  BY DEF Estimates
<1>3. w \in Seq(Received) /\ w # <<>>
  BY <1>2, WindowIs
<1>4. /\ Harmonic(segments) \in Fractions /\ IsMean(Harmonic(segments), Rates(w))
      /\ AvgInChunk(segments) \in Fractions /\ IsMean(AvgInChunk(segments), Rates(w))
      /\ WHarmonic(segments) \in Fractions /\ IsMean(WHarmonic(segments), Rates(w))
      /\ Leq(Harmonic(segments), AvgInChunk(segments))
  BY <1>2, MeansOfWindow
<1> HIDE DEF w
<1>5. ASSUME NEW p \in Fractions, IsMean(p, Rates(w))
      PROVE  Between(p, Zero, w)
  BY <1>3, <1>5, FractionsSigned, MeanBetween
<1>6. \A a \in {"wharmonic", "avginchunk", "harmonic"} :
        bandwidthanswer[a] \in Fractions /\ Between(bandwidthanswer[a], Zero, w)
  BY <1>1, <1>4, <1>5
<1>7. x \in Seq(Positive) /\ x \in Seq(Fractions) /\ Len(x) = n /\ x # <<>> /\ n \in Nat \ {0}
  <2>1. x \in Seq(Positive) /\ Len(x) = n /\ n \in Nat \ {0}
    BY <1>2, RatesAre
  <2> HIDE DEF x, n
  <2> QED
    BY <2>1, PositiveSigned
<1> HIDE DEF x, n
<1>8. IsMean(longAvg, x)
  BY <1>2, <1>7, FractionsSigned, SharedOut
<1>9. Between(longAvg, Zero, segments)
  BY <1>2, <1>8, FractionsSigned, MeanBetween DEF x
<1>10. Same(longAvg, Over(SumOf(x), n))
  <2> DEFINE s == SumOf(x)
             o == Over(s, n)
  <2>1. s \in Fractions
    BY <1>7, SumIn
  <2>2. s \in Signed /\ longAvg \in Signed
    BY <1>2, <2>1, FractionsSigned
  <2> HIDE DEF s
  <2>3. o \in Signed /\ Same(Times(n, o), s)
    BY <1>7, <2>2, OverIs
  <2>4. Same(Times(n, longAvg), s)
    BY <1>2 DEF s
  <2> HIDE DEF o
  <2>5. Times(n, o) \in Signed /\ Times(n, longAvg) \in Signed
    <3>1. n \in Nat
      BY <1>7
    <3> QED
      BY <2>2, <2>3, <3>1, TimesPlus
  <2>6. Same(s, Times(n, o))
    BY <2>2, <2>3, <2>5, SameLeq
  <2>7. Same(Times(n, longAvg), Times(n, o))
    BY <2>2, <2>4, <2>5, <2>6, SameTrans
  <2>8. Leq(Times(n, longAvg), Times(n, o)) /\ Leq(Times(n, o), Times(n, longAvg))
    BY <2>5, <2>7, SameLeq
  <2>9. Leq(longAvg, o) /\ Leq(o, longAvg)
    BY <1>7, <2>2, <2>3, <2>8, TimesMono
  <2> QED
    BY <2>2, <2>3, <2>9, SameLeq DEF o, s
<1> QED
  BY <1>1, <1>2, <1>4, <1>6, <1>9, <1>10 DEF w, x, n

\* The properties follow from the history and the answers.
LEMMA EstimatesHold == History /\ Estimates => EstimatesAreMeans /\ BwTypeOK
<1> SUFFICES ASSUME History, Estimates
             PROVE  EstimatesAreMeans /\ BwTypeOK
  OBVIOUS
<1>1. timeNow \in Nat /\ segments \in Seq(Received)
  BY DEF History, Estimates
<1>2. bandwidthanswer # <<>> => bandwidthanswer.avgintime = AvgInTime(segments, timeNow)
  BY DEF Estimates
<1>3. segments # <<>> /\ WindowOrdered =>
        Between(AvgInTime(segments, timeNow), <<1, 1>>, segments)
  BY <1>1, AvgInTimeBetween DEF WindowOrdered
<1>4. segments # <<>> => bandwidthanswer # <<>>
  BY DEF History
<1>5. EstimatesAreMeans
  <2> SUFFICES ASSUME segments # <<>>
               PROVE  WithinRates /\ MeansAgree
    BY DEF EstimatesAreMeans
  <2> QED
    BY <1>2, <1>3, <1>4, TimelessMeans DEF WithinRates, MeansAgree
<1>6. ASSUME NEW a \in {"wharmonic", "avginchunk", "harmonic", "longavg"}, bandwidthanswer # <<>>
      PROVE  bandwidthanswer[a] \in Fractions
  <2>1. CASE segments # <<>>
    BY <1>6, <2>1, TimelessMeans
  <2>2. CASE segments = <<>>
    <3>1. Zero \in Fractions
      BY DEF Zero, Fractions
    <3>2. WHarmonic(segments) = Zero /\ AvgInChunk(segments) = Zero /\ Harmonic(segments) = Zero
      BY <2>2 DEF WHarmonic, AvgInChunk, Harmonic
    <3> QED
      BY <1>6, <3>1, <3>2 DEF Estimates
  <2> QED
    BY <2>1, <2>2
<1>7. ASSUME NEW a \in DOMAIN bandwidthanswer
      PROVE  /\ bandwidthanswer[a][1] \in IF a = "avgintime" THEN Int ELSE Nat
             /\ bandwidthanswer[a][2] \in Nat \ {0}
  <2>1. CASE bandwidthanswer = <<>>
    BY <1>7, <2>1
  <2>2. CASE bandwidthanswer # <<>>
    <3>1. a \in {"wharmonic", "avginchunk", "harmonic", "avgintime", "longavg"}
      BY <1>7, <2>2 DEF Estimates
    <3>2. CASE a = "avgintime"
      BY <1>1, <1>2, <2>2, <3>2, AvgInTimeIs
    <3>3. CASE a # "avgintime"
      BY <1>6, <2>2, <3>1, <3>3 DEF Fractions
    <3> QED
      BY <3>2, <3>3
  <2> QED
    BY <2>1, <2>2
<1>8. segments \in Seq([start : Nat, end : Nat, size : Sizes])
  BY DEF History, Segment
<1>9. Fraction(longAvg)
  BY DEF Estimates, Fractions, Fraction
<1> QED
  BY <1>1, <1>5, <1>7, <1>8, <1>9 DEF BwTypeOK

\* The answers follow the history.
THEOREM EstimatesInvariance == BwSpec => [](History /\ Estimates)
<1>1. BwInit => History /\ Estimates
  BY HistoryBegins, EstimatesBegin
<1>2. History /\ Estimates /\ [BwNext]_bwVars => History' /\ Estimates'
  <2> SUFFICES ASSUME History, Estimates, [BwNext]_bwVars
               PROVE  History' /\ Estimates'
    OBVIOUS
  <2>1. ASSUME NEW t \in IdleTimes, FirstRequest(t)
        PROVE  History' /\ Estimates'
    <3>1. segments = <<>>
      BY <2>1 DEF FirstRequest, History
    <3> QED
      BY <2>1, <3>1, FirstRequestKeeps, FirstEstimates
  <2>2. ASSUME NEW idle \in IdleTimes, NEW duration \in Durations, NEW size \in Sizes,
               SegmentReceived(idle, duration, size)
        PROVE  History' /\ Estimates'
    <3>1. timeNow \in Nat
      BY DEF History
    <3> QED
      BY <2>2, <3>1, SegmentKeeps, NextEstimates
  <2>3. CASE UNCHANGED bwVars
    BY <2>3 DEF bwVars, History, Estimates
  <2> QED
    BY <2>1, <2>2, <2>3 DEF BwNext
<1> QED
  BY <1>1, <1>2, PTL DEF BwSpec

\* OrderedUnlessIdle: the windows that the average in time reads have a segment, unless
\* the client has waited for longer than the earlier of them lasts.
THEOREM WindowsCrossOnlyWhenIdle == BwSpec => []OrderedUnlessIdle
<1>1. BwSpec => [](History /\ Estimates)
  BY EstimatesInvariance
<1>2. History /\ Estimates => OrderedUnlessIdle
  BY HistoryFillsWindows
<1> QED
  BY <1>1, <1>2, PTL

\* EstimatesAreMeans: every estimator answers with a mean of what it looks at, for
\* every history, window size and pair of windows in time that have not crossed.
THEOREM EstimatorsAreMeans == BwSpec => []EstimatesAreMeans
<1>1. BwSpec => [](History /\ Estimates)
  BY EstimatesInvariance
<1>2. History /\ Estimates => EstimatesAreMeans
  BY EstimatesHold
<1> QED
  BY <1>1, <1>2, PTL

\* The types of the estimators: no estimate has the denominator zero.
THEOREM EstimatorTypesHold == BwSpec => []BwTypeOK
<1>1. BwSpec => [](History /\ Estimates)
  BY EstimatesInvariance
<1>2. History /\ Estimates => BwTypeOK
  BY EstimatesHold
<1> QED
  BY <1>1, <1>2, PTL

=============================================================================
