--------------------------- MODULE PrefixSumProofs ---------------------------
(***************************************************************************)
(* Facts about running totals that hold for a roster of any length.        *)
(* Induction over the natural numbers is obtained from the library's       *)
(* first-order theorem that strict inclusion is well-founded on finite     *)
(* sets, applied to the intervals 1..n.                                    *)
(***************************************************************************)
EXTENDS PrefixSums, TLAPS, WellFoundedInduction, FiniteSetTheorems

\* Every non-empty set of naturals has a least element.
LEMMA LeastElement ==
  ASSUME NEW T \in SUBSET Nat, T # {}
  PROVE  \E n \in T : \A k \in T : n <= k
<1> DEFINE W == {1 .. n : n \in T}
<1>1. IsWellFoundedOn(StrictSubsetOrdering(Nat), FiniteSubsetsOf(Nat))
  BY FS_StrictSubsetOrderingWellFounded
<1>2. W \subseteq FiniteSubsetsOf(Nat)
  BY FS_Interval DEF FiniteSubsetsOf
<1>3. W # {}
  OBVIOUS
<1>4. PICK w \in W : \A y \in W : ~(<<y, w>> \in StrictSubsetOrdering(Nat))
  <2> HIDE DEF W
  <2> QED BY <1>1, <1>2, <1>3, WFMin
<1>5. PICK n \in T : w = 1 .. n
  OBVIOUS
<1>6. ASSUME NEW k \in T, k < n
      PROVE  FALSE
  <2>1. 1 .. k \in W
    OBVIOUS
  <2>2. (1 .. k) \subseteq (1 .. n) /\ (1 .. k) # (1 .. n)
    <3>1. n \in 1 .. n /\ ~(n \in 1 .. k)
      BY <1>6
    <3> QED BY <3>1, <1>6
  <2>3. <<1 .. k, 1 .. n>> \in StrictSubsetOrdering(Nat)
    BY <2>2 DEF StrictSubsetOrdering
  <2> QED BY <2>1, <2>3, <1>4, <1>5
<1> QED BY <1>6

\* Induction, with the induction hypothesis given as a set of naturals.
LEMMA InductionOnSets ==
  ASSUME NEW G \in SUBSET Nat, 0 \in G, \A n \in G : n + 1 \in G
  PROVE  G = Nat
<1> SUFFICES ASSUME G # Nat PROVE FALSE
  OBVIOUS
<1>1. PICK n \in Nat \ G : \A k \in Nat \ G : n <= k
  BY LeastElement
<1>2. n - 1 \in Nat /\ n - 1 \in G
  BY <1>1
<1> QED BY <1>1, <1>2

\* The running total exists and unfolds as its definition says.
LEMMA PrefixSumUnfold ==
  ASSUME NEW n \in Nat, NEW f \in [1..n -> Int]
  PROVE  /\ PrefixSum(f, n) \in [0..n -> Int]
         /\ PrefixSum(f, n)[0] = 0
         /\ \A i \in 1..n : PrefixSum(f, n)[i] = PrefixSum(f, n)[i - 1] + f[i]
<1> DEFINE IsCum(p, k) == p \in [0..k -> Int] /\ p = [i \in 0..k |-> IF i = 0 THEN 0 ELSE p[i - 1] + f[i]]
           G == {k \in Nat : k <= n => \E p \in [0..k -> Int] : IsCum(p, k)}
<1>1. 0 \in G
  <2> DEFINE p == [i \in 0..0 |-> 0]
  <2>1. IsCum(p, 0)
    OBVIOUS
  <2> QED BY <2>1
<1>2. ASSUME NEW k \in G PROVE k + 1 \in G
  <2> SUFFICES ASSUME k + 1 <= n PROVE \E p \in [0..(k+1) -> Int] : IsCum(p, k + 1)
    <3> HIDE DEF IsCum
    <3> QED OBVIOUS
  <2>1. PICK p \in [0..k -> Int] : IsCum(p, k)
    OBVIOUS
  <2> DEFINE q == [i \in 0..(k+1) |-> IF i = k + 1 THEN p[k] + f[k+1] ELSE p[i]]
  <2>2. f[k+1] \in Int
    OBVIOUS
  <2>3. q \in [0..(k+1) -> Int]
    BY <2>1, <2>2
  <2>4. \A i \in 0..(k+1) : q[i] = IF i = 0 THEN 0 ELSE q[i - 1] + f[i]
    <3> TAKE i \in 0..(k+1)
    <3>1. CASE i = k + 1
      BY <3>1
    <3>2. CASE i # k + 1
      <4>1. i \in 0..k /\ q[i] = p[i] /\ (i # 0 => q[i-1] = p[i-1])
        BY <3>2
      <4>2. p[i] = IF i = 0 THEN 0 ELSE p[i - 1] + f[i]
        BY <4>1, <2>1
      <4> QED BY <4>1, <4>2
    <3> QED BY <3>1, <3>2
  <2>5. IsCum(q, k + 1)
    <3> HIDE DEF q
    <3> QED BY <2>3, <2>4
  <2> HIDE DEF q, IsCum
  <2> QED BY <2>3, <2>5
<1>3. n \in G
  <2> HIDE DEF G
  <2> G \in SUBSET Nat
    BY DEF G
  <2> QED BY <1>1, <1>2, InductionOnSets
<1> DEFINE S == PrefixSum(f, n)
<1>4. \E p : p = [i \in 0..n |-> IF i = 0 THEN 0 ELSE p[i - 1] + f[i]]
  BY <1>3
<1>5. S = [i \in 0..n |-> IF i = 0 THEN 0 ELSE S[i - 1] + f[i]]
  BY <1>4 DEF PrefixSum
<1> HIDE DEF S
<1>6. S[0] = 0 /\ \A i \in 1..n : S[i] = S[i - 1] + f[i]
  BY <1>5
<1> DEFINE H == {k \in Nat : k <= n => S[k] \in Int}
<1>7. H = Nat
  <2>1. 0 \in H
    BY <1>6
  <2>2. \A k \in H : k + 1 \in H
    BY <1>6
  <2> HIDE DEF H
  <2> H \in SUBSET Nat
    BY DEF H
  <2> QED BY <2>1, <2>2, InductionOnSets
<1>8. S \in [0..n -> Int]
  <2>1. \A k \in 0..n : S[k] \in Int
    BY <1>7
  <2> QED BY <1>5, <2>1
<1> QED BY <1>6, <1>8 DEF S

LEMMA InductionUpTo ==
  ASSUME NEW n \in Nat, NEW G \in SUBSET Nat, 0 \in G,
         \A k \in G : k < n => k + 1 \in G
  PROVE  0 .. n \subseteq G
<1> DEFINE H == {k \in Nat : k <= n => k \in G}
<1>1. 0 \in H /\ \A k \in H : k + 1 \in H
  OBVIOUS
<1>2. H = Nat
  <2> H \in SUBSET Nat
    OBVIOUS
  <2> HIDE DEF H
  <2> QED BY <1>1, InductionOnSets
<1> QED BY <1>2

\* Totals of naturals are naturals, they never decrease, and each bounds its last term.
LEMMA PrefixSumNat ==
  ASSUME NEW n \in Nat, NEW f \in [1..n -> Nat]
  PROVE  /\ PrefixSum(f, n) \in [0..n -> Nat]
         /\ \A i \in 1..n : /\ PrefixSum(f, n)[i - 1] <= PrefixSum(f, n)[i]
                            /\ f[i] <= PrefixSum(f, n)[i]
<1> DEFINE S == PrefixSum(f, n)
           G == {k \in Nat : k <= n => S[k] \in Nat}
<1>1. f \in [1..n -> Int]
  OBVIOUS
<1>2. /\ S \in [0..n -> Int] /\ S[0] = 0
      /\ \A i \in 1..n : S[i] = S[i - 1] + f[i]
  BY <1>1, PrefixSumUnfold
<1> HIDE DEF S
<1>3. 0 .. n \subseteq G
  <2>1. 0 \in G /\ \A k \in G : k < n => k + 1 \in G
    <3> SUFFICES ASSUME NEW k \in G, k < n PROVE k + 1 \in G
      BY <1>2
    <3>1. S[k + 1] = S[k] + f[k + 1] /\ f[k + 1] \in Nat /\ S[k] \in Nat
      BY <1>2
    <3> QED BY <3>1
  <2> G \in SUBSET Nat
    OBVIOUS
  <2> HIDE DEF G
  <2> QED BY <2>1, InductionUpTo
<1>4. S \in [0..n -> Nat]
  BY <1>2, <1>3
<1>5. ASSUME NEW i \in 1..n
      PROVE  S[i - 1] <= S[i] /\ f[i] <= S[i]
  <2>1. S[i] = S[i - 1] + f[i] /\ f[i] \in Nat /\ S[i - 1] \in Nat
    BY <1>2, <1>4
  <2> QED BY <2>1
<1> QED BY <1>4, <1>5 DEF S

LEMMA SumNat ==
  ASSUME NEW n \in Nat, NEW f \in [1..n -> Nat]
  PROVE  Sum(f, n) \in Nat
<1> n \in 0..n
  OBVIOUS
<1> QED BY PrefixSumNat DEF Sum

\* Totals add up term by term.
LEMMA SumOfSums ==
  ASSUME NEW n \in Nat, NEW f \in [1..n -> Int], NEW g \in [1..n -> Int], NEW h \in [1..n -> Int],
         \A i \in 1..n : h[i] = f[i] + g[i]
  PROVE  Sum(h, n) = Sum(f, n) + Sum(g, n)
<1> DEFINE F == PrefixSum(f, n)
           T == PrefixSum(g, n)
           S == PrefixSum(h, n)
           G == {k \in Nat : k <= n => S[k] = F[k] + T[k]}
<1>1. /\ F \in [0..n -> Int] /\ F[0] = 0 /\ \A i \in 1..n : F[i] = F[i - 1] + f[i]
      /\ T \in [0..n -> Int] /\ T[0] = 0 /\ \A i \in 1..n : T[i] = T[i - 1] + g[i]
      /\ S \in [0..n -> Int] /\ S[0] = 0 /\ \A i \in 1..n : S[i] = S[i - 1] + h[i]
  BY PrefixSumUnfold
<1> HIDE DEF F, T, S
<1>2. 0 \in G
  BY <1>1
<1>3. ASSUME NEW k \in G, k < n PROVE k + 1 \in G
  <2>1. k + 1 \in 1..n /\ (k + 1) - 1 = k /\ k \in 0..n
    BY <1>3
  <2>2. S[k + 1] = S[k] + h[k + 1] /\ F[k + 1] = F[k] + f[k + 1] /\ T[k + 1] = T[k] + g[k + 1]
    BY <1>1, <2>1
  <2>3. S[k] = F[k] + T[k] /\ h[k + 1] = f[k + 1] + g[k + 1]
    BY <2>1
  <2>4. F[k] \in Int /\ T[k] \in Int /\ f[k + 1] \in Int /\ g[k + 1] \in Int
    BY <1>1, <2>1
  <2> QED BY <2>2, <2>3, <2>4
<1>4. 0 .. n \subseteq G
  <2> G \in SUBSET Nat
    OBVIOUS
  <2> HIDE DEF G
  <2> QED BY <1>2, <1>3, InductionUpTo
<1>5. S[n] = F[n] + T[n]
  BY <1>4
<1> QED BY <1>5 DEF Sum, S, F, T

\* A term-by-term bound is a bound on the totals.
LEMMA SumBounds ==
  ASSUME NEW n \in Nat, NEW f \in [1..n -> Nat], NEW g \in [1..n -> Nat],
         \A i \in 1..n : f[i] <= g[i]
  PROVE  Sum(f, n) <= Sum(g, n) /\ Sum(f, n) \in Nat /\ Sum(g, n) \in Nat
<1> DEFINE d == [i \in 1..n |-> g[i] - f[i]]
<1>1. d \in [1..n -> Nat] /\ \A i \in 1..n : g[i] = f[i] + d[i]
  OBVIOUS
<1> HIDE DEF d
<1>2. Sum(f, n) \in Nat /\ Sum(g, n) \in Nat /\ Sum(d, n) \in Nat
  BY <1>1, SumNat
<1>3. Sum(g, n) = Sum(f, n) + Sum(d, n)
  <2> f \in [1..n -> Int] /\ d \in [1..n -> Int] /\ g \in [1..n -> Int]
    BY <1>1
  <2> QED BY <1>1, SumOfSums
<1> QED BY <1>2, <1>3

\* The differences of a sequence that starts at 0 add up to its last element.
LEMMA SumTelescopes ==
  ASSUME NEW n \in Nat, NEW p \in [0..n -> Int], p[0] = 0, NEW f \in [1..n -> Int],
         \A i \in 1..n : f[i] = p[i] - p[i - 1]
  PROVE  Sum(f, n) = p[n]
<1> DEFINE S == PrefixSum(f, n)
           G == {k \in Nat : k <= n => S[k] = p[k]}
<1>1. S \in [0..n -> Int] /\ S[0] = 0 /\ \A i \in 1..n : S[i] = S[i - 1] + f[i]
  BY PrefixSumUnfold
<1> HIDE DEF S
<1>2. 0 \in G
  BY <1>1
<1>3. ASSUME NEW k \in G, k < n PROVE k + 1 \in G
  <2>1. k + 1 \in 1..n /\ (k + 1) - 1 = k /\ k \in 0..n /\ k + 1 \in 0..n
    BY <1>3
  <2>2. S[k + 1] = S[k] + f[k + 1] /\ f[k + 1] = p[k + 1] - p[k]
    BY <1>1, <2>1
  <2>3. S[k] = p[k] /\ p[k] \in Int /\ p[k + 1] \in Int
    BY <2>1
  <2> QED BY <2>2, <2>3
<1>4. 0 .. n \subseteq G
  <2> G \in SUBSET Nat
    OBVIOUS
  <2> HIDE DEF G
  <2> QED BY <1>2, <1>3, InductionUpTo
<1> QED BY <1>4 DEF Sum, S

\* A total of zeros is 0.
LEMMA SumOfZeros ==
  ASSUME NEW n \in Nat, NEW f \in [1..n -> Int], \A i \in 1..n : f[i] = 0
  PROVE  Sum(f, n) = 0
<1> DEFINE p == [i \in 0..n |-> 0]
<1>1. p \in [0..n -> Int] /\ p[0] = 0 /\ p[n] = 0 /\ \A i \in 1..n : f[i] = p[i] - p[i - 1]
  OBVIOUS
<1> HIDE DEF p
<1> QED BY <1>1, SumTelescopes

LEMMA EmptySum ==
  ASSUME NEW f \in [1 .. 0 -> Int]
  PROVE  Sum(f, 0) = 0
<1>1. 0 \in Nat /\ \A i \in 1 .. 0 : f[i] = 0
  OBVIOUS
<1> QED BY <1>1, SumOfZeros

\* One more term.
LEMMA SumExtends ==
  ASSUME NEW n \in Nat, NEW f \in [1..(n + 1) -> Int], NEW g \in [1..n -> Int],
         \A i \in 1..n : f[i] = g[i]
  PROVE  Sum(f, n + 1) = Sum(g, n) + f[n + 1]
<1> DEFINE F == PrefixSum(f, n + 1)
           T == PrefixSum(g, n)
           G == {k \in Nat : k <= n => F[k] = T[k]}
<1>1. /\ F[0] = 0 /\ \A i \in 1..(n + 1) : F[i] = F[i - 1] + f[i]
      /\ T[0] = 0 /\ \A i \in 1..n : T[i] = T[i - 1] + g[i]
  <2> n + 1 \in Nat
    OBVIOUS
  <2> QED BY PrefixSumUnfold
<1> HIDE DEF F, T
<1>2. 0 \in G
  BY <1>1
<1>3. ASSUME NEW k \in G, k < n PROVE k + 1 \in G
  <2>1. k + 1 \in 1..n /\ k + 1 \in 1..(n + 1) /\ (k + 1) - 1 = k
    BY <1>3
  <2> QED BY <1>1, <2>1
<1>4. 0 .. n \subseteq G
  <2> G \in SUBSET Nat
    OBVIOUS
  <2> HIDE DEF G
  <2> QED BY <1>2, <1>3, InductionUpTo
<1>5. F[n] = T[n] /\ F[n + 1] = F[n] + f[n + 1]
  BY <1>1, <1>4
<1> QED BY <1>5 DEF Sum, F, T

\* A total follows the one term that changed.
LEMMA SumChanges ==
  ASSUME NEW n \in Nat, NEW f \in [1..n -> Int], NEW g \in [1..n -> Int], NEW i \in 1..n,
         \A j \in 1..n : j # i => g[j] = f[j]
  PROVE  Sum(g, n) = Sum(f, n) + (g[i] - f[i])
<1> DEFINE x == g[i] - f[i]
           d == [j \in 1..n |-> IF j = i THEN x ELSE 0]
           p == [k \in 0..n |-> IF k < i THEN 0 ELSE x]
<1>1. x \in Int /\ d \in [1..n -> Int] /\ \A j \in 1..n : g[j] = f[j] + d[j]
  OBVIOUS
<1>2. /\ p \in [0..n -> Int] /\ p[0] = 0 /\ p[n] = x
      /\ \A j \in 1..n : d[j] = p[j] - p[j - 1]
  <2>1. p \in [0..n -> Int] /\ p[0] = 0 /\ p[n] = x
    BY <1>1
  <2>2. ASSUME NEW j \in 1..n PROVE d[j] = p[j] - p[j - 1]
    <3>1. j \in 0..n /\ j - 1 \in 0..n
      OBVIOUS
    <3> HIDE DEF x
    <3>2. CASE j < i
      BY <1>1, <3>1, <3>2
    <3>3. CASE j = i
      BY <1>1, <3>1, <3>3
    <3>4. CASE j > i
      BY <1>1, <3>1, <3>4
    <3> QED BY <3>2, <3>3, <3>4
  <2> QED BY <2>1, <2>2
<1> HIDE DEF d, p
<1>3. Sum(d, n) = x
  BY <1>1, <1>2, SumTelescopes
<1>4. Sum(g, n) = Sum(f, n) + Sum(d, n)
  BY <1>1, SumOfSums
<1> QED BY <1>3, <1>4


\* The integer quotient, by the two inequalities that fix it.
LEMMA Quotient ==
  ASSUME NEW x \in Nat, NEW t \in Nat, t > 0
  PROVE  /\ x \div t \in Nat
         /\ (x \div t) * t <= x
         /\ x < ((x \div t) + 1) * t
OBVIOUS

LEMMA ProductMonotone ==
  ASSUME NEW p \in Nat, NEW a \in Nat, NEW b \in Nat, a <= b
  PROVE  p * a <= p * b
<1>1. PICK d \in Nat : b = a + d
  <2>1. b - a \in Nat /\ b = a + (b - a)
    OBVIOUS
  <2> QED BY <2>1
<1>2. p * (a + d) = p * a + p * d
  OBVIOUS
<1>3. p * d \in Nat /\ p * a \in Nat
  OBVIOUS
<1> QED BY <1>1, <1>2, <1>3

LEMMA ProductStep ==
  ASSUME NEW p \in Nat, NEW k \in Nat
  PROVE  p * (k + 1) = p * k + p /\ p * k \in Nat
OBVIOUS

LEMMA ProductOrder ==
  ASSUME NEW x \in Int, NEW y \in Int, NEW t \in Nat, t > 0, x * t < y * t
  PROVE  x < y
OBVIOUS

\* Cumulative rounding (PBEAR.sol:200): between two points of the running
\* total, the rounded shares of a cost not above the total differ by at least
\* 0 and at most the weight that lies between the points, and by less than
\* one unit from that weight's exact share.
LEMMA ShareStep ==
  ASSUME NEW a \in Nat, NEW w \in Nat, NEW c \in Nat, NEW t \in Nat, t > 0, c <= t
  PROVE  /\ (a * c) \div t \in Nat
         /\ ((a + w) * c) \div t \in Nat
         /\ (a * c) \div t <= ((a + w) * c) \div t
         /\ ((a + w) * c) \div t <= (a * c) \div t + w
         /\ w * c - t < (((a + w) * c) \div t - (a * c) \div t) * t
         /\ (((a + w) * c) \div t - (a * c) \div t) * t < w * c + t
<1> DEFINE x == a * c
           y == (a + w) * c
           p == x \div t
           q == y \div t
<1>1. x \in Nat /\ y \in Nat /\ y = x + w * c
  OBVIOUS
<1>2. w * c <= w * t /\ w * c \in Nat /\ w * t \in Nat
  OBVIOUS
<1> HIDE DEF x, y
<1>3. p \in Nat /\ p * t <= x /\ x < (p + 1) * t
  BY <1>1, Quotient
<1>4. q \in Nat /\ q * t <= y /\ y < (q + 1) * t
  BY <1>1, Quotient
<1> HIDE DEF p, q
<1>5. p < q + 1
  <2>1. p * t < (q + 1) * t
    BY <1>1, <1>2, <1>3, <1>4
  <2> QED BY <2>1, <1>3, <1>4, ProductOrder
<1>6. q < p + 1 + w
  <2>1. (p + 1 + w) * t = (p + 1) * t + w * t
    BY <1>3
  <2>2. q * t < (p + 1 + w) * t
    BY <2>1, <1>1, <1>2, <1>3, <1>4
  <2> QED BY <2>2, <1>3, <1>4, ProductOrder
<1>7. p <= q /\ q <= p + w
  BY <1>3, <1>4, <1>5, <1>6
<1>8. w * c - t < (q - p) * t /\ (q - p) * t < w * c + t
  <2>1. (q - p) * t = q * t - p * t /\ (q + 1) * t = q * t + t /\ (p + 1) * t = p * t + t
    BY <1>3, <1>4
  <2>2. q * t \in Int /\ p * t \in Int
    BY <1>3, <1>4
  <2> QED BY <2>1, <2>2, <1>1, <1>2, <1>3, <1>4
<1> QED BY <1>3, <1>4, <1>7, <1>8 DEF p, q, x, y
=============================================================================
