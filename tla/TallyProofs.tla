----------------------------- MODULE TallyProofs -----------------------------
(***************************************************************************)
(* The engine and its tally, for any number of voters, projects, any       *)
(* costs, weights and ballots: what the operations on the ledger that      *)
(* pools call keep, then the steps of the tally, its money invariants, the *)
(* proportionality of every charge, and Inclusion PSC, the axiom the       *)
(* algorithm is chosen for.  Then the other implementations of it: they    *)
(* fund what the contract funds, in the same order, however many ballots   *)
(* are sealed; and of the proofs of the two sealed backends, that one made *)
(* by an honest operator is accepted and one of a forged report is not.    *)
(*                                                                         *)
(* None of the safety properties is inductive.  EngineInv, the engine's    *)
(* own part, is why the tally never spends more than the budget: that      *)
(* needs the conservation of weight, which in turn needs that the roster   *)
(* lists each voter once and that no deduction exceeds the weight it is    *)
(* taken from.  TallyInv adds to it what every coalition of voters has at  *)
(* every level of approval: until the tally leaves level k, what the       *)
(* coalition paid is at most the cost of the funded projects that some     *)
(* member ranks within k; when it leaves level k or ends, no unfunded      *)
(* project that all of them rank within k would fit in what they have left.*)
(* PortInv adds that a port has done in as many iterations what the        *)
(* contract has done in its steps: the same weights are left, the same     *)
(* projects funded, at the same level.                                     *)
(*                                                                         *)
(* StakeInv bounds what a sealed round hands out by its budget, and the    *)
(* rest is simulation over the iterations of shared/pbear.ts, whose runs   *)
(* hold the whole roster in one row of weights: the audit of a report      *)
(* holds the front of that row (Audited), the state that is proved to Noir *)
(* its back (Proven), and the ZisK guest the same row without the ballots  *)
(* that do not decrypt (Thinned).                                          *)
(***************************************************************************)
EXTENDS TallyPorts, PrefixSumProofs, SequenceTheorems

EngineTypeOK ==
  /\ costs \in Seq(Nat \ {0})
  /\ ledger \in Ledgers
  /\ budget \in Nat /\ rankLevel \in Nat /\ spent \in Nat
  /\ funded \subseteq Projects
  /\ fundedOrder \in Seq(Projects)
  /\ tallyStarted \in BOOLEAN /\ tallyDone \in BOOLEAN

CostIfFunded == [c \in 1 .. Len(costs) |-> IF c \in funded THEN costs[c] ELSE 0]

EngineInv ==
  /\ EngineTypeOK
  /\ RosterOK(ledger)
  /\ \A v \in Voter : ~IsVoter(ledger, v) => ledger.weight[v] = 0
  /\ RosterWeight(ledger) + spent = ledger.granted
  /\ ledger.granted <= ledger.total
  /\ spent = Sum(CostIfFunded, Len(costs))
  /\ tallyStarted => budget = ledger.total
  /\ ~tallyStarted => spent = 0 /\ funded = {} /\ fundedOrder = << >> /\ ~tallyDone

-----------------------------------------------------------------------------
(* The ledger.                                                             *)

LEMMA RosterWeightNat ==
  ASSUME NEW L \in Ledgers
  PROVE  /\ Len(L.voters) \in Nat
         /\ RosterWeights(L) \in [1 .. Len(L.voters) -> Nat]
         /\ RosterWeight(L) \in Nat
<1>1. Len(L.voters) \in Nat /\ RosterWeights(L) \in [1 .. Len(L.voters) -> Nat]
  BY DEF Ledgers, RosterWeights
<1> QED BY <1>1, SumNat DEF RosterWeight

\* Registering adds a voter without weight to the roster, unless it is there.
LEMMA RegisterKeeps ==
  ASSUME NEW L, LedgerOK(L), NEW v \in Voter
  PROVE  /\ LedgerOK(RegisterVoter(L, v))
         /\ IsVoter(RegisterVoter(L, v), v)
         /\ \A u \in Voter : IsVoter(L, u) => IsVoter(RegisterVoter(L, v), u)
         /\ RegisterVoter(L, v).weight = L.weight
         /\ RegisterVoter(L, v).granted = L.granted
         /\ RegisterVoter(L, v).total = L.total
<1> DEFINE M == RegisterVoter(L, v)
           n == Len(L.voters)
<1>1. L \in Ledgers /\ L.voters \in Seq(Voter) /\ n \in Nat
  BY DEF LedgerOK, Ledgers
<1>2. CASE IsVoter(L, v)
  BY <1>2 DEF RegisterVoter
<1>3. CASE ~IsVoter(L, v)
  <2>1. /\ M \in Ledgers /\ M.voters = Append(L.voters, v) /\ M.weight = L.weight
        /\ M.granted = L.granted /\ M.total = L.total
    <3> DEFINE s == Append(L.voters, v)
    <3>1. s \in Seq(Voter)
      BY <1>1
    <3>2. M = [L EXCEPT !.voters = s]
      BY <1>3 DEF RegisterVoter
    <3> HIDE DEF s, M
    <3>3. /\ M \in Ledgers /\ M.voters = s /\ M.weight = L.weight
          /\ M.granted = L.granted /\ M.total = L.total
      BY <1>1, <3>1, <3>2 DEF Ledgers
    <3> QED BY <3>3 DEF s
  <2>2. /\ Len(M.voters) = n + 1 /\ M.voters[n + 1] = v
        /\ \A i \in 1 .. n : M.voters[i] = L.voters[i]
    BY <1>1, <2>1
  <2>3. \A u \in Voter : IsVoter(L, u) => IsVoter(M, u)
    BY <1>1, <2>1, <2>2 DEF IsVoter
  <2>4. IsVoter(M, v)
    BY <1>1, <2>1, <2>2 DEF IsVoter
  <2> HIDE DEF M
  <2>5. RosterOK(M)
    <3>1. \A i \in 1 .. n : L.voters[i] # v
      BY <1>1, <1>3 DEF IsVoter
    <3>2. \A i, j \in 1 .. n : L.voters[i] = L.voters[j] => i = j
      BY DEF LedgerOK, RosterOK
    <3> HIDE DEF n
    <3>3. \A i, j \in 1 .. n + 1 : M.voters[i] = M.voters[j] => i = j
      <4> TAKE i, j \in 1 .. n + 1
      <4>1. CASE i \in 1 .. n /\ j \in 1 .. n
        BY <2>2, <3>2, <4>1
      <4>2. CASE i = n + 1 \/ j = n + 1
        BY <1>1, <2>2, <3>1, <4>2
      <4> QED BY <1>1, <4>1, <4>2
    <3> QED BY <2>2, <3>3 DEF RosterOK
  <2>6. L.weight[v] = 0
    BY <1>3 DEF LedgerOK
  <2>7. RosterWeight(M) = RosterWeight(L)
    <3>1. /\ RosterWeights(M) \in [1 .. n + 1 -> Int] /\ RosterWeights(L) \in [1 .. n -> Int]
          /\ RosterWeight(L) \in Nat
      BY <2>1, <2>2, <1>1, RosterWeightNat
    <3>2. \A i \in 1 .. n : RosterWeights(M)[i] = RosterWeights(L)[i]
      BY <1>1, <2>1, <2>2 DEF RosterWeights
    <3>3. RosterWeights(M)[n + 1] = 0
      BY <1>1, <2>1, <2>2, <2>6 DEF RosterWeights
    <3>4. Sum(RosterWeights(M), n + 1) = Sum(RosterWeights(L), n) + 0
      BY <1>1, <3>1, <3>2, <3>3, SumExtends
    <3> QED BY <2>2, <3>1, <3>4 DEF RosterWeight
  <2>8. LedgerOK(M)
    BY <2>1, <2>3, <2>5, <2>7 DEF LedgerOK
  <2> QED BY <2>1, <2>3, <2>4, <2>8 DEF M
<1> QED BY <1>2, <1>3

\* Giving a voter of the roster another weight changes the roster's by as much.
LEMMA ReweighRoster ==
  ASSUME NEW L \in Ledgers, RosterOK(L), NEW v \in Voter, IsVoter(L, v),
         NEW M \in Ledgers, M.voters = L.voters,
         NEW x \in Nat, M.weight[v] = x, \A u \in Voter : u # v => M.weight[u] = L.weight[u]
  PROVE  RosterWeight(M) = RosterWeight(L) + (x - L.weight[v])
<1> DEFINE n == Len(L.voters)
<1>1. n \in Nat /\ L.weight \in [Voter -> Nat] /\ \A i \in 1 .. n : L.voters[i] \in Voter
  BY DEF Ledgers
<1>2. PICK i \in 1 .. n : L.voters[i] = v
  BY <1>1 DEF IsVoter, Ledgers
<1>3. \A j \in 1 .. n : j # i => L.voters[j] # v
  BY <1>2 DEF RosterOK
<1>4. RosterWeights(L) \in [1 .. n -> Int] /\ RosterWeights(M) \in [1 .. n -> Int]
  BY RosterWeightNat
<1>5. \A j \in 1 .. n : j # i => RosterWeights(M)[j] = RosterWeights(L)[j]
  BY <1>1, <1>3 DEF RosterWeights
<1>6. RosterWeights(M)[i] = x /\ RosterWeights(L)[i] = L.weight[v]
  BY <1>1, <1>2 DEF RosterWeights
<1>7. Sum(RosterWeights(M), n) = Sum(RosterWeights(L), n) + (x - L.weight[v])
  <2>1. Sum(RosterWeights(M), n)
          = Sum(RosterWeights(L), n) + (RosterWeights(M)[i] - RosterWeights(L)[i])
    BY <1>1, <1>2, <1>4, <1>5, SumChanges
  <2> QED BY <1>6, <2>1
<1> QED BY <1>7 DEF RosterWeight

\* Granting what the deposits cover.
LEMMA GrantKeeps ==
  ASSUME NEW L, LedgerOK(L), NEW v \in Voter, NEW amount \in Nat, CanGrant(L, amount)
  PROVE  /\ LedgerOK(GrantWeight(L, v, amount))
         /\ IsVoter(GrantWeight(L, v, amount), v)
         /\ \A u \in Voter : IsVoter(L, u) => IsVoter(GrantWeight(L, v, amount), u)
         /\ GrantWeight(L, v, amount).weight = [L.weight EXCEPT ![v] = @ + amount]
         /\ GrantWeight(L, v, amount).granted = L.granted + amount
         /\ GrantWeight(L, v, amount).total = L.total
<1> DEFINE R == RegisterVoter(L, v)
           M == GrantWeight(L, v, amount)
<1>1. /\ LedgerOK(R) /\ IsVoter(R, v) /\ \A u \in Voter : IsVoter(L, u) => IsVoter(R, u)
      /\ R.weight = L.weight /\ R.granted = L.granted /\ R.total = L.total
  BY RegisterKeeps
<1> HIDE DEF R
<1>2. R \in Ledgers /\ RosterOK(R) /\ R.granted = RosterWeight(R) /\ R.granted \in Nat
      /\ R.weight \in [Voter -> Nat] /\ R.total \in Nat
  BY <1>1 DEF LedgerOK, Ledgers
<1>3. M = [R EXCEPT !.weight[v] = @ + amount, !.granted = @ + amount]
  BY DEF GrantWeight, R
<1>4. /\ M \in Ledgers /\ M.voters = R.voters /\ M.weight = [R.weight EXCEPT ![v] = @ + amount]
      /\ M.granted = R.granted + amount /\ M.total = R.total
  <2> DEFINE w == [R.weight EXCEPT ![v] = @ + amount]
  <2>1. w \in [Voter -> Nat]
    BY <1>2
  <2>2. M = [voters |-> R.voters, weight |-> w, granted |-> R.granted + amount, total |-> R.total]
    BY <1>2, <1>3 DEF Ledgers
  <2> HIDE DEF w, M
  <2>3. /\ M \in Ledgers /\ M.voters = R.voters /\ M.weight = w
        /\ M.granted = R.granted + amount /\ M.total = R.total
    BY <1>2, <2>1, <2>2 DEF Ledgers
  <2> QED BY <2>3 DEF w
<1> HIDE DEF M
<1>5. M.weight = [R.weight EXCEPT ![v] = R.weight[v] + amount] /\ R.weight[v] \in Nat
  BY <1>2, <1>4
<1>6. RosterWeight(M) = RosterWeight(R) + amount
  BY <1>1, <1>2, <1>4, <1>5, ReweighRoster
<1>7. RosterOK(M) /\ \A u \in Voter : IsVoter(R, u) <=> IsVoter(M, u)
  BY <1>2, <1>4 DEF RosterOK, IsVoter
<1>8. \A u \in Voter : ~IsVoter(M, u) => M.weight[u] = 0
  BY <1>1, <1>2, <1>4, <1>7 DEF LedgerOK
<1>9. M.granted <= M.total
  BY <1>1, <1>4 DEF CanGrant
<1>10. LedgerOK(M)
  BY <1>2, <1>4, <1>6, <1>7, <1>8, <1>9 DEF LedgerOK
<1> QED BY <1>1, <1>4, <1>7, <1>10 DEF M

\* Taking back what a voter has.
LEMMA RevokeKeeps ==
  ASSUME NEW L, LedgerOK(L), NEW v \in Voter, NEW amount \in Nat, CanRevoke(L, v, amount)
  PROVE  /\ LedgerOK(RevokeWeight(L, v, amount))
         /\ \A u \in Voter : IsVoter(L, u) => IsVoter(RevokeWeight(L, v, amount), u)
         /\ RevokeWeight(L, v, amount).weight = [L.weight EXCEPT ![v] = @ - amount]
         /\ RevokeWeight(L, v, amount).granted = L.granted - amount
         /\ RevokeWeight(L, v, amount).total = L.total
<1> DEFINE M == RevokeWeight(L, v, amount)
<1>1. L \in Ledgers /\ RosterOK(L) /\ L.granted = RosterWeight(L) /\ L.granted \in Nat
      /\ L.weight \in [Voter -> Nat] /\ L.total \in Nat /\ L.granted <= L.total
  BY DEF LedgerOK, Ledgers
<1>2. L.weight[v] - amount \in Nat /\ L.granted - amount \in Nat
  BY <1>1 DEF CanRevoke
<1>3. /\ M \in Ledgers /\ M.voters = L.voters /\ M.weight = [L.weight EXCEPT ![v] = @ - amount]
      /\ M.granted = L.granted - amount /\ M.total = L.total
  BY <1>1, <1>2 DEF Ledgers, RevokeWeight
<1> HIDE DEF M
<1>4. M.weight = [L.weight EXCEPT ![v] = L.weight[v] - amount]
  BY <1>1, <1>3
<1>5. RosterOK(M) /\ \A u \in Voter : IsVoter(L, u) <=> IsVoter(M, u)
  BY <1>1, <1>3 DEF RosterOK, IsVoter
<1>6. RosterWeight(M) = RosterWeight(L) - amount
  <2>1. CASE IsVoter(L, v)
    <3>1. RosterWeight(M) = RosterWeight(L) + ((L.weight[v] - amount) - L.weight[v])
      BY <1>1, <1>2, <1>3, <1>4, <2>1, ReweighRoster
    <3> QED BY <1>1, <3>1
  <2>2. CASE ~IsVoter(L, v)
    <3>1. amount = 0
      BY <2>2, <1>1 DEF LedgerOK, CanRevoke
    <3>2. M.weight = L.weight
      BY <1>1, <1>3, <3>1
    <3>3. RosterWeight(M) = RosterWeight(L)
      BY <1>3, <3>2 DEF RosterWeight, RosterWeights
    <3>4. RosterWeight(L) \in Nat
      BY <1>1
    <3> QED BY <3>1, <3>3, <3>4
  <2> QED BY <2>1, <2>2
<1>7. \A u \in Voter : ~IsVoter(M, u) => M.weight[u] = 0
  BY <1>1, <1>2, <1>3, <1>5 DEF LedgerOK, CanRevoke
<1>8. LedgerOK(M)
  BY <1>1, <1>3, <1>5, <1>6, <1>7 DEF LedgerOK
<1> QED BY <1>3, <1>5, <1>8 DEF M

LEMMA IncreaseKeeps ==
  ASSUME NEW L, LedgerOK(L), NEW amount \in Nat
  PROVE  /\ LedgerOK(IncreaseTotalWeight(L, amount))
         /\ IncreaseTotalWeight(L, amount).voters = L.voters
         /\ IncreaseTotalWeight(L, amount).weight = L.weight
         /\ IncreaseTotalWeight(L, amount).granted = L.granted
         /\ IncreaseTotalWeight(L, amount).total = L.total + amount
<1> DEFINE M == IncreaseTotalWeight(L, amount)
<1>1. L \in Ledgers /\ L.granted \in Nat /\ L.total \in Nat
  BY DEF LedgerOK, Ledgers
<1>2. /\ M \in Ledgers /\ M.voters = L.voters /\ M.weight = L.weight
      /\ M.granted = L.granted /\ M.total = L.total + amount
  BY <1>1 DEF IncreaseTotalWeight, Ledgers
<1> HIDE DEF M
<1>3. LedgerOK(M)
  BY <1>1, <1>2 DEF LedgerOK, RosterOK, IsVoter, RosterWeight, RosterWeights
<1> QED BY <1>2, <1>3 DEF M

-----------------------------------------------------------------------------
(* The parts of FundBest.                                                  *)

\* Support is a total of naturals, each at most the voter's weight.
LEMMA BackingBounds ==
  ASSUME EngineTypeOK, NEW STATE b, NEW c
  PROVE  /\ Len(ledger.voters) \in Nat
         /\ Backing(b, c) \in [1 .. Len(ledger.voters) -> Nat]
         /\ RosterWeights(ledger) \in [1 .. Len(ledger.voters) -> Nat]
         /\ \A i \in 1 .. Len(ledger.voters) : Backing(b, c)[i] <= RosterWeights(ledger)[i]
         /\ Support(b, c) \in Nat
         /\ Support(b, c) <= RosterWeight(ledger)
<1> DEFINE n == Len(ledger.voters)
<1>1. n \in Nat /\ \A i \in 1..n : ledger.voters[i] \in Voter
  BY DEF EngineTypeOK, Ledgers
<1>2. \A v \in Voter : ledger.weight[v] \in Nat
  BY DEF EngineTypeOK, Ledgers
<1>3. RosterWeights(ledger) \in [1..n -> Nat]
  BY <1>1, <1>2 DEF RosterWeights
<1>4. Backing(b, c) \in [1..n -> Nat]
  BY <1>1, <1>2 DEF Backing
<1>5. \A i \in 1..n : Backing(b, c)[i] <= RosterWeights(ledger)[i]
  BY <1>1, <1>2 DEF Backing, RosterWeights
<1>6. Sum(Backing(b, c), n) \in Nat /\ Sum(Backing(b, c), n) <= Sum(RosterWeights(ledger), n)
  BY <1>1, <1>3, <1>4, <1>5, SumBounds
<1> QED BY <1>1, <1>3, <1>4, <1>5, <1>6 DEF Support, RosterWeight

\* The selection rule always has a winner.
LEMMA BestIsEligible ==
  ASSUME EngineTypeOK, NEW STATE b, Eligible(b) # {}
  PROVE  Best(b) \in Eligible(b)
<1> DEFINE s == [c \in Projects |-> Support(b, c)]
           E == Eligible(b)
           W == RosterWeight(ledger)
<1>1. E \subseteq Projects /\ Projects \subseteq Nat
  BY DEF Eligible, Projects
<1>2. \A c \in Projects : costs[c] \in Nat
  BY DEF EngineTypeOK, Projects
<1>3. \A c \in E : s[c] = Support(b, c) /\ s[c] \in Nat /\ s[c] <= W
  BY <1>1, BackingBounds
<1>4. W \in Nat
  BY BackingBounds, SumNat DEF RosterWeight
<1> HIDE DEF s, E, W
<1>5. PICK k \in {W - s[c] : c \in E} : \A j \in {W - s[c] : c \in E} : k <= j
  <2>1. {W - s[c] : c \in E} \in SUBSET Nat
    BY <1>3, <1>4
  <2>2. {W - s[c] : c \in E} # {}
    BY DEF E
  <2> QED BY <2>1, <2>2, LeastElement
<1>6. \A c \in E : s[c] <= W - k
  BY <1>3, <1>4, <1>5
<1> DEFINE E1 == {c \in E : s[c] = W - k}
<1>7. E1 # {}
  BY <1>3, <1>4, <1>5
<1>8. PICK q \in {costs[c] : c \in E1} : \A j \in {costs[c] : c \in E1} : q <= j
  <2>1. {costs[c] : c \in E1} \in SUBSET Nat
    BY <1>1, <1>2
  <2>2. {costs[c] : c \in E1} # {}
    BY <1>7
  <2> QED BY <2>1, <2>2, LeastElement
<1> DEFINE E2 == {c \in E1 : costs[c] = q}
<1>9. PICK c \in E2 : \A d \in E2 : c <= d
  <2>1. E2 \in SUBSET Nat /\ E2 # {}
    BY <1>1, <1>8
  <2> QED BY <2>1, LeastElement
<1>10. \A d \in E : Preferred(s, c, d)
  <2> SUFFICES ASSUME NEW d \in E PROVE Preferred(s, c, d)
    OBVIOUS
  <2>1. s[c] = W - k /\ s[d] <= s[c] /\ s[d] \in Nat /\ s[c] \in Nat
    BY <1>3, <1>6, <1>9
  <2>2. CASE s[d] < s[c]
    BY <2>1, <2>2 DEF Preferred
  <2>3. CASE s[d] = s[c]
    <3>1. d \in E1 /\ costs[c] = q /\ q <= costs[d] /\ costs[d] \in Nat /\ costs[c] \in Nat
      BY <1>1, <1>2, <1>8, <1>9, <2>1, <2>3
    <3>2. costs[d] = costs[c] => c <= d
      BY <1>9, <3>1
    <3> QED BY <2>3, <3>1, <3>2 DEF Preferred
  <2> QED BY <2>1, <2>2, <2>3
<1>11. \E x \in E : \A d \in E : Preferred(s, x, d)
  BY <1>9, <1>10
<1> QED BY <1>11 DEF Best, s, E

\* The rounded deductions for an eligible project are non-negative, none
\* exceeds what the voter backs it with, they add up to its cost, and each is
\* less than one unit away from the voter's exact share.
LEMMA DeductionsExact ==
  ASSUME EngineTypeOK, NEW STATE b, NEW c \in Eligible(b)
  PROVE  /\ Deductions(b, c) \in [1 .. Len(ledger.voters) -> Nat]
         /\ \A i \in 1 .. Len(ledger.voters) : Deductions(b, c)[i] <= RosterWeights(ledger)[i]
         /\ Sum(Deductions(b, c), Len(ledger.voters)) = costs[c]
         /\ \A i \in 1 .. Len(ledger.voters) :
              LET exact == Backing(b, c)[i] * costs[c]
                  total == Support(b, c)
              IN  /\ Deductions(b, c)[i] <= Backing(b, c)[i]
                  /\ exact - total < Deductions(b, c)[i] * total
                  /\ Deductions(b, c)[i] * total < exact + total
<1> DEFINE n == Len(ledger.voters)
           f == Backing(b, c)
           cum == PrefixSum(f, n)
           t == cum[n]
           k == costs[c]
           D == Deductions(b, c)
           P == [i \in 0..n |-> Share(cum[i], k, t)]
<1>1. /\ n \in Nat /\ f \in [1..n -> Nat]
      /\ \A i \in 1..n : f[i] <= RosterWeights(ledger)[i] /\ RosterWeights(ledger)[i] \in Nat
  BY BackingBounds
<1>2. k \in Nat /\ k > 0
  BY DEF EngineTypeOK, Eligible, Projects
<1>3. t = Support(b, c)
  BY DEF Support, Sum
<1>4. t \in Nat /\ k <= t
  BY <1>3, BackingBounds DEF Eligible
<1>5. D = [i \in 1..n |-> Share(cum[i], k, t) - Share(cum[i - 1], k, t)]
  BY DEF Deductions
<1> HIDE DEF f, k, D, cum, t, n
<1>6. f \in [1..n -> Int]
  BY <1>1
<1>7. /\ cum \in [0..n -> Nat] /\ cum[0] = 0
      /\ \A i \in 1..n : cum[i] = cum[i - 1] + f[i]
  BY <1>1, <1>6, PrefixSumUnfold, PrefixSumNat DEF cum
<1>8. ASSUME NEW i \in 1..n
      PROVE  /\ Share(cum[i], k, t) \in Nat /\ Share(cum[i - 1], k, t) \in Nat
             /\ Share(cum[i - 1], k, t) <= Share(cum[i], k, t)
             /\ Share(cum[i], k, t) <= Share(cum[i - 1], k, t) + f[i]
             /\ f[i] * k - t < (Share(cum[i], k, t) - Share(cum[i - 1], k, t)) * t
             /\ (Share(cum[i], k, t) - Share(cum[i - 1], k, t)) * t < f[i] * k + t
  <2>1. i - 1 \in 0..n
    BY <1>1
  <2>2. cum[i] = cum[i - 1] + f[i] /\ cum[i - 1] \in Nat /\ f[i] \in Nat
    BY <1>1, <1>7, <2>1
  <2>3. t > 0
    BY <1>2, <1>4
  <2> HIDE DEF P
  <2> QED BY <2>2, <2>3, <1>2, <1>4, ShareStep DEF Share
<1>9. ASSUME NEW i \in 1..n
      PROVE  D[i] \in Nat /\ D[i] <= f[i] /\ D[i] = Share(cum[i], k, t) - Share(cum[i - 1], k, t)
  <2>1. D[i] = Share(cum[i], k, t) - Share(cum[i - 1], k, t)
    BY <1>5
  <2>2. f[i] \in Nat
    BY <1>1
  <2> QED BY <2>1, <2>2, <1>8
<1>10. D \in [1..n -> Nat]
  BY <1>5, <1>9
<1>11. Share(cum[0], k, t) = 0
  <2>1. cum[0] * k = 0
    BY <1>2, <1>7
  <2>2. 0 \div t = 0
    BY <1>2, <1>4
  <2> QED BY <2>1, <2>2 DEF Share
<1>12. Share(cum[n], k, t) = k
  <2>1. cum[n] = t
    BY DEF t
  <2>2. (t * k) \div t = k
    <3> DEFINE x == t * k
               q == x \div t
    <3>1. x \in Nat
      BY <1>2, <1>4
    <3>2. q \in Nat /\ q * t <= x /\ x < (q + 1) * t
      <4> HIDE DEF x
      <4> QED BY <1>2, <1>4, <3>1, Quotient
    <3>3. x = k * t
      BY <1>2, <1>4
    <3> HIDE DEF x, q
    <3>4. k < q + 1
      BY <3>2, <3>3, <1>2, <1>4, ProductOrder
    <3>5. q < k + 1
      <4>1. (k + 1) * t = k * t + t
        BY <1>2, <1>4
      <4>2. q * t < (k + 1) * t
        BY <4>1, <3>2, <3>3, <1>2, <1>4
      <4> QED BY <4>2, <3>2, <1>2, <1>4, ProductOrder
    <3>6. q = k
      BY <3>2, <3>4, <3>5, <1>2
    <3> QED BY <3>6 DEF q, x
  <2> QED BY <2>1, <2>2 DEF Share
<1>13. P \in [0..n -> Int] /\ P[0] = 0 /\ P[n] = k
  <2>1. \A i \in 0..n : P[i] \in Int
    <3> TAKE i \in 0..n
    <3>1. CASE i = 0
      BY <3>1, <1>11
    <3>2. CASE i \in 1..n
      BY <3>2, <1>8
    <3> QED BY <3>1, <3>2
  <2>2. P[0] = 0 /\ P[n] = k
    BY <1>1, <1>11, <1>12
  <2> QED BY <2>1, <2>2
<1>14. \A i \in 1..n : D[i] = P[i] - P[i - 1]
  <2> TAKE i \in 1..n
  <2>1. i \in 0..n /\ i - 1 \in 0..n
    BY <1>1
  <2>2. P[i] = Share(cum[i], k, t) /\ P[i - 1] = Share(cum[i - 1], k, t)
    BY <2>1
  <2> QED BY <2>2, <1>9
<1>15. Sum(D, n) = k
  <2> HIDE DEF P
  <2> D \in [1..n -> Int]
    BY <1>10
  <2> QED BY <1>1, <1>13, <1>14, SumTelescopes
<1>16. \A i \in 1..n : D[i] <= RosterWeights(ledger)[i]
  <2> TAKE i \in 1..n
  <2>1. D[i] \in Nat /\ D[i] <= f[i] /\ f[i] \in Nat
    BY <1>1, <1>9
  <2>2. f[i] <= RosterWeights(ledger)[i] /\ RosterWeights(ledger)[i] \in Nat
    BY <1>1
  <2> QED BY <2>1, <2>2
<1>17. \A i \in 1..n : D[i] <= f[i] /\ f[i] * k - t < D[i] * t /\ D[i] * t < f[i] * k + t
  <2> TAKE i \in 1..n
  <2>1. D[i] = Share(cum[i], k, t) - Share(cum[i - 1], k, t) /\ D[i] <= f[i]
    BY <1>9
  <2> QED BY <2>1, <1>8
<1> QED BY <1>3, <1>10, <1>15, <1>16, <1>17 DEF D, k, n, f

\* Charging the roster takes exactly the deductions off it, and nothing else
\* from anybody.
LEMMA ChargeTakesDeductions ==
  ASSUME NEW L \in Ledgers, RosterOK(L),
         NEW d \in [1 .. Len(L.voters) -> Nat],
         \A i \in 1 .. Len(L.voters) : d[i] <= RosterWeights(L)[i]
  PROVE  /\ Charge(L, d) \in Ledgers
         /\ RosterOK(Charge(L, d))
         /\ Charge(L, d).voters = L.voters
         /\ Charge(L, d).granted = L.granted /\ Charge(L, d).total = L.total
         /\ \A i \in 1 .. Len(L.voters) :
              Charge(L, d).weight[L.voters[i]] = L.weight[L.voters[i]] - d[i]
         /\ \A v \in Voter : ~IsVoter(L, v) => Charge(L, d).weight[v] = L.weight[v]
         /\ RosterWeight(Charge(L, d)) = RosterWeight(L) - Sum(d, Len(L.voters))
<1> DEFINE n == Len(L.voters)
           M == Charge(L, d)
           at(v) == CHOOSE i \in DOMAIN L.voters : L.voters[i] = v
           w == [v \in Voter |-> IF IsVoter(L, v) THEN L.weight[v] - d[at(v)] ELSE L.weight[v]]
<1>1. /\ n \in Nat /\ DOMAIN L.voters = 1..n /\ L.weight \in [Voter -> Nat]
      /\ \A i \in 1..n : L.voters[i] \in Voter
  BY DEF Ledgers
<1>2. ASSUME NEW i \in 1..n PROVE at(L.voters[i]) = i
  <2>1. at(L.voters[i]) \in 1..n /\ L.voters[at(L.voters[i])] = L.voters[i]
    BY <1>1
  <2> QED BY <2>1 DEF RosterOK
<1>3. ASSUME NEW v \in Voter, IsVoter(L, v)
      PROVE  w[v] \in Nat
  <2>1. PICK i \in 1..n : L.voters[i] = v
    BY <1>1, <1>3 DEF IsVoter
  <2>2. at(v) = i
    BY <1>2, <2>1
  <2>3. d[i] <= L.weight[v] /\ d[i] \in Nat /\ L.weight[v] \in Nat
    BY <1>1, <2>1 DEF RosterWeights
  <2>4. w[v] = L.weight[v] - d[i]
    BY <1>3, <2>2
  <2> QED BY <2>3, <2>4
<1>4. w \in [Voter -> Nat]
  BY <1>1, <1>3
<1>5. M = [L EXCEPT !.weight = w]
  BY DEF Charge
<1>6. ASSUME NEW i \in 1..n PROVE w[L.voters[i]] = L.weight[L.voters[i]] - d[i]
  <2>1. IsVoter(L, L.voters[i]) /\ L.voters[i] \in Voter
    BY <1>1 DEF IsVoter
  <2> QED BY <2>1, <1>2
<1>14. \A v \in Voter : ~IsVoter(L, v) => w[v] = L.weight[v]
  OBVIOUS
<1> HIDE DEF w, M, at
<1>7. /\ M \in Ledgers /\ M.voters = L.voters /\ M.weight = w
      /\ M.granted = L.granted /\ M.total = L.total
  BY <1>4, <1>5 DEF Ledgers
<1>8. RosterWeights(M) \in [1..n -> Int] /\ RosterWeights(L) \in [1..n -> Int]
  BY <1>1, <1>4, <1>7 DEF RosterWeights
<1>9. \A i \in 1..n : RosterWeights(L)[i] = RosterWeights(M)[i] + d[i]
  <2> TAKE i \in 1..n
  <2>1. RosterWeights(M)[i] = w[L.voters[i]] /\ RosterWeights(L)[i] = L.weight[L.voters[i]]
    BY <1>7 DEF RosterWeights
  <2>2. L.weight[L.voters[i]] \in Nat /\ d[i] \in Nat
    BY <1>1
  <2> QED BY <1>6, <2>1, <2>2
<1>10. Sum(RosterWeights(L), n) = Sum(RosterWeights(M), n) + Sum(d, n)
  <2> d \in [1..n -> Int]
    OBVIOUS
  <2> QED BY <1>1, <1>8, <1>9, SumOfSums
<1>11. Sum(d, n) \in Int /\ Sum(RosterWeights(M), n) \in Int
  <2>1. RosterWeights(M) \in [1..n -> Nat]
    BY <1>1, <1>4, <1>7 DEF RosterWeights
  <2>2. Sum(RosterWeights(M), n) \in Nat
    BY <1>1, <2>1, SumNat
  <2>3. Sum(d, n) \in Nat
    BY <1>1, SumNat
  <2> QED BY <2>2, <2>3
<1>12. RosterWeight(M) = RosterWeight(L) - Sum(d, n)
  BY <1>7, <1>10, <1>11 DEF RosterWeight
<1>13. RosterOK(M)
  BY <1>7 DEF RosterOK
<1> QED BY <1>6, <1>7, <1>12, <1>13, <1>14 DEF M

-----------------------------------------------------------------------------
(* The steps of the tally, for any ballots.                                *)

LEMMA RosterOfPrimed ==
  /\ RosterOK(ledger)' <=> RosterOK(ledger')
  /\ RosterWeight(ledger)' = RosterWeight(ledger')
BY DEF RosterOK, RosterWeight, RosterWeights

\* Nothing but the control variables of the tally moves.
LEMMA ControlKeepsEngine ==
  ASSUME EngineInv, UNCHANGED <<costs, ledger, spent, funded, fundedOrder>>,
         budget' \in Nat, rankLevel' \in Nat, tallyStarted' \in BOOLEAN, tallyDone' \in BOOLEAN,
         tallyStarted' => budget' = ledger.total,
         ~tallyStarted' => ~tallyStarted /\ ~tallyDone'
  PROVE  EngineInv'
<1>1. EngineTypeOK'
  BY DEF EngineInv, EngineTypeOK, Projects
<1>2. CostIfFunded' = CostIfFunded
  BY DEF CostIfFunded
<1>3. (spent = Sum(CostIfFunded, Len(costs)))'
  BY <1>2 DEF EngineInv
<1> QED BY <1>1, <1>3, RosterOfPrimed DEF EngineInv, IsVoter

LEMMA StartKeepsEngine ==
  ASSUME EngineInv, StartTally
  PROVE  EngineInv'
<1>1. ledger.total \in Nat
  BY DEF EngineInv, EngineTypeOK, Ledgers
<1>2. tallyDone' \in BOOLEAN
  BY DEF StartTally, NothingFits
<1> QED BY <1>1, <1>2, ControlKeepsEngine DEF StartTally

\* What funding the best project does to the ledger.
LEMMA FundBestEffect ==
  ASSUME EngineInv, NEW STATE b, FundBest(b)
  PROVE  LET best == Best(b)
             D == Deductions(b, best)
             n == Len(ledger.voters)
         IN  /\ best \in Eligible(b) /\ best \in Projects \ funded /\ costs[best] \in Nat
             /\ D \in [1 .. n -> Nat] /\ Sum(D, n) = costs[best]
             /\ ledger' \in Ledgers /\ RosterOK(ledger') /\ ledger'.voters = ledger.voters
             /\ ledger'.granted = ledger.granted /\ ledger'.total = ledger.total
             /\ RosterWeight(ledger') = RosterWeight(ledger) - costs[best]
             /\ \A i \in 1 .. n :
                  ledger'.weight[ledger.voters[i]] = ledger.weight[ledger.voters[i]] - D[i]
             /\ \A v \in Voter : ~IsVoter(ledger, v) => ledger'.weight[v] = ledger.weight[v]
<1> DEFINE best == Best(b)
           D == Deductions(b, best)
           n == Len(ledger.voters)
<1>1. EngineTypeOK /\ RosterOK(ledger) /\ ledger \in Ledgers
  BY DEF EngineInv, EngineTypeOK
<1>2. best \in Eligible(b) /\ best \in Projects \ funded /\ costs[best] \in Nat
  <2>1. best \in Eligible(b)
    BY <1>1, BestIsEligible DEF FundBest
  <2> QED BY <1>1, <2>1 DEF Eligible, EngineTypeOK, Projects
<1>3. /\ D \in [1 .. n -> Nat]
      /\ \A i \in 1 .. n : D[i] <= RosterWeights(ledger)[i]
      /\ Sum(D, n) = costs[best]
  BY <1>1, <1>2, DeductionsExact
<1>4. ledger' = Charge(ledger, D)
  BY DEF FundBest
<1> HIDE DEF best, D
<1> QED BY <1>1, <1>2, <1>3, <1>4, ChargeTakesDeductions DEF best, D

LEMMA FundBestKeepsEngine ==
  ASSUME EngineInv, NEW STATE b, FundBest(b)
  PROVE  EngineInv'
<1> DEFINE best == Best(b)
<1>1. /\ EngineTypeOK /\ tallyStarted
      /\ RosterWeight(ledger) + spent = ledger.granted
  BY DEF EngineInv, FundBest
<1>2. best \in Projects \ funded /\ costs[best] \in Nat
  BY FundBestEffect
<1>3. /\ funded' = funded \cup {best} /\ fundedOrder' = Append(fundedOrder, best)
      /\ spent' = spent + costs[best]
      /\ UNCHANGED <<costs, budget, rankLevel, tallyStarted>>
      /\ tallyDone' \in BOOLEAN
  BY DEF FundBest, NothingFits
<1>4. /\ ledger' \in Ledgers /\ RosterOK(ledger') /\ ledger'.voters = ledger.voters
      /\ \A v \in Voter : ~IsVoter(ledger, v) => ledger'.weight[v] = ledger.weight[v]
      /\ ledger'.granted = ledger.granted /\ ledger'.total = ledger.total
      /\ RosterWeight(ledger') = RosterWeight(ledger) - costs[best]
  BY FundBestEffect
<1> HIDE DEF best
<1>5. EngineTypeOK'
  <2>1. spent' \in Nat /\ funded' \subseteq Projects /\ fundedOrder' \in Seq(Projects)
    BY <1>1, <1>2, <1>3 DEF EngineTypeOK
  <2>2. Projects' = Projects
    BY <1>3 DEF Projects
  <2> QED BY <1>1, <1>3, <1>4, <2>1, <2>2 DEF EngineTypeOK
<1>6. RosterWeight(ledger') + spent' = ledger'.granted
  <2>1. RosterWeight(ledger) \in Nat /\ spent \in Nat
    BY <1>1, RosterWeightNat DEF EngineTypeOK
  <2> QED BY <1>1, <1>2, <1>3, <1>4, <2>1
<1>7. spent' = Sum(CostIfFunded', Len(costs))
  <2> DEFINE m == Len(costs)
             F == CostIfFunded
             G == CostIfFunded'
  <2>1. m \in Nat /\ best \in 1 .. m /\ \A c \in 1 .. m : costs[c] \in Nat
    BY <1>1, <1>2 DEF EngineTypeOK, Projects
  <2>2. G = [c \in 1 .. m |-> IF c \in funded \cup {best} THEN costs[c] ELSE 0]
    BY <1>3 DEF CostIfFunded
  <2>3. F \in [1 .. m -> Int] /\ G \in [1 .. m -> Int] /\ F \in [1 .. m -> Nat]
    BY <2>1, <2>2 DEF CostIfFunded
  <2>4. F[best] = 0 /\ G[best] = costs[best] /\ \A c \in 1 .. m : c # best => G[c] = F[c]
    BY <1>2, <2>1, <2>2 DEF CostIfFunded
  <2> HIDE DEF F, G, m
  <2>5. Sum(G, m) = Sum(F, m) + (G[best] - F[best])
    BY <2>1, <2>3, <2>4, SumChanges
  <2>6. Sum(F, m) = spent /\ Sum(F, m) \in Nat
    BY <2>1, <2>3, SumNat DEF EngineInv, F, m
  <2>7. Sum(G, m) = spent'
    BY <1>2, <1>3, <2>4, <2>5, <2>6
  <2> QED BY <2>7 DEF G, m
<1>8. (spent = Sum(CostIfFunded, Len(costs)))'
  BY <1>3, <1>7
<1>9. (\A v \in Voter : ~IsVoter(ledger, v) => ledger.weight[v] = 0)'
  BY <1>4 DEF EngineInv, IsVoter
<1> QED BY <1>1, <1>3, <1>4, <1>5, <1>6, <1>8, <1>9, RosterOfPrimed DEF EngineInv

LEMMA StepKeepsEngine ==
  ASSUME EngineInv, NEW STATE b, Step(b)
  PROVE  EngineInv'
<1> USE DEF EngineInv, EngineTypeOK
<1>1. CASE FundBest(b)
  BY <1>1, FundBestKeepsEngine
<1>2. CASE RaiseLevel(b)
  BY <1>2, ControlKeepsEngine DEF RaiseLevel
<1>3. CASE FinishUnsupported(b)
  BY <1>3, ControlKeepsEngine DEF FinishUnsupported
<1> QED BY <1>1, <1>2, <1>3 DEF Step

\* Ballots stay as good as they were while nothing they refer to changes.
LEMMA BallotsStayOK ==
  ASSUME BallotsOK(ballot), UNCHANGED <<costs, ballot, defaultRank>>,
         \A v \in Voter : IsVoter(ledger, v) => IsVoter(ledger', v)
  PROVE  BallotsOK(ballot)'
<1>1. \A x : ValidBallot(x)' <=> ValidBallot(x)
  BY DEF ValidBallot, RankedBelow
<1>2. \A x : LastTier(x)' = LastTier(x)
  BY DEF LastTier
<1>3. \A v \in Voter : IsVoter(ledger, v)' <=> IsVoter(ledger', v)
  BY DEF IsVoter
<1> QED BY <1>1, <1>2, <1>3 DEF BallotsOK

\* What the invariant says of money.
LEMMA EngineSpends ==
  ASSUME EngineInv
  PROVE  /\ spent \in Nat /\ ledger.total \in Nat /\ spent <= ledger.total
         /\ tallyStarted => spent <= budget
<1>1. RosterWeight(ledger) \in Nat /\ spent \in Nat
      /\ ledger.granted \in Nat /\ ledger.total \in Nat
  BY RosterWeightNat DEF EngineInv, EngineTypeOK, Ledgers
<1> QED BY <1>1 DEF EngineInv

-----------------------------------------------------------------------------
(* Coalitions: the rest of the induction hypothesis.                       *)

\* What a set of voters has left on the roster; MoneyOf is what it started with.
LeftOf(L, N) ==
  Sum([i \in 1 .. Len(L.voters) |->
         IF L.voters[i] \in N THEN L.weight[L.voters[i]] ELSE 0],
      Len(L.voters))

PaidWithin(N, k) ==
  rankLevel <= k => MoneyOf(N) <= LeftOf(ledger, N) + CostOf(Periphery(N, k) \cap funded)

ServedWithin(N, k) ==
  rankLevel > k \/ tallyDone =>
    \A c \in Projects \ funded :
      (\A v \in N : RankOf(v, c) <= k) =>
        costs[c] + CostOf(Periphery(N, k) \cap funded) > MoneyOf(N)

Coalitions == SUBSET {v \in Voter : HasBallot(v)}

CoalitionInv ==
  \A N \in Coalitions, k \in 1 .. Len(costs) : PaidWithin(N, k) /\ ServedWithin(N, k)

InputsInv ==
  /\ Len(costs) <= MAX_PROJECTS
  /\ BallotsOK(ballot)
  /\ ~tallyStarted => rankLevel = 0 /\ initial = ledger.weight

TallyInv == TypeOK /\ EngineInv /\ InputsInv /\ CoalitionInv

-----------------------------------------------------------------------------
(* Totals over the roster and over the projects.                           *)

LEMMA RosterTotal ==
  ASSUME NEW L \in Ledgers, NEW w \in [Voter -> Nat], NEW N
  PROVE  /\ Len(L.voters) \in Nat
         /\ [i \in 1 .. Len(L.voters) |-> IF L.voters[i] \in N THEN w[L.voters[i]] ELSE 0]
              \in [1 .. Len(L.voters) -> Nat]
<1>1. Len(L.voters) \in Nat /\ \A i \in 1 .. Len(L.voters) : L.voters[i] \in Voter
  BY DEF Ledgers
<1> QED BY <1>1

LEMMA LeftOfBounds ==
  ASSUME NEW L \in Ledgers, NEW N
  PROVE  LeftOf(L, N) \in Nat /\ LeftOf(L, N) <= RosterWeight(L) /\ RosterWeight(L) \in Nat
<1> DEFINE n == Len(L.voters)
           f == [i \in 1 .. n |-> IF L.voters[i] \in N THEN L.weight[L.voters[i]] ELSE 0]
           W == RosterWeights(L)
<1>1. L.weight \in [Voter -> Nat]
  BY DEF Ledgers
<1>2. n \in Nat /\ W \in [1 .. n -> Nat]
  BY RosterWeightNat
<1>3. f \in [1 .. n -> Nat]
  BY <1>1, RosterTotal
<1>4. \A i \in 1 .. n : f[i] <= W[i]
  <2>1. \A i \in 1 .. n : W[i] = L.weight[L.voters[i]] /\ W[i] \in Nat
    BY <1>2 DEF RosterWeights
  <2> QED BY <2>1
<1> HIDE DEF f, W, n
<1>5. Sum(f, n) <= Sum(W, n) /\ Sum(f, n) \in Nat /\ Sum(W, n) \in Nat
  BY <1>2, <1>3, <1>4, SumBounds
<1> QED BY <1>5 DEF LeftOf, RosterWeight, f, W, n

LEMMA MoneyOfNat ==
  ASSUME TypeOK, NEW N
  PROVE  MoneyOf(N) \in Nat
<1> DEFINE n == Len(ledger.voters)
           f == [i \in 1 .. n |-> IF ledger.voters[i] \in N THEN initial[ledger.voters[i]] ELSE 0]
<1>1. n \in Nat /\ f \in [1 .. n -> Nat]
  BY RosterTotal DEF TypeOK
<1> HIDE DEF n, f
<1>2. Sum(f, n) \in Nat
  BY <1>1, SumNat
<1> QED BY <1>2 DEF MoneyOf, n, f

\* What a set of projects costs, and what one more adds.
LEMMA CostOfGrows ==
  ASSUME EngineTypeOK, NEW C, NEW F, NEW c \in Projects \ F
  PROVE  /\ CostOf(C \cap F) \in Nat
         /\ CostOf(C \cap (F \cup {c})) = CostOf(C \cap F) + (IF c \in C THEN costs[c] ELSE 0)
<1> DEFINE m == Len(costs)
           f == [d \in 1 .. m |-> IF d \in C \cap F THEN costs[d] ELSE 0]
           g == [d \in 1 .. m |-> IF d \in C \cap (F \cup {c}) THEN costs[d] ELSE 0]
<1>1. m \in Nat /\ c \in 1 .. m /\ \A d \in 1 .. m : costs[d] \in Nat
  BY DEF EngineTypeOK, Projects
<1>2. f \in [1 .. m -> Nat] /\ f \in [1 .. m -> Int] /\ g \in [1 .. m -> Int]
  BY <1>1
<1>3. \A d \in 1 .. m : d # c => g[d] = f[d]
  OBVIOUS
<1>4. f[c] = 0 /\ g[c] = IF c \in C THEN costs[c] ELSE 0
  BY <1>1
<1> HIDE DEF f, g, m
<1>5. Sum(f, m) \in Nat /\ Sum(g, m) = Sum(f, m) + (g[c] - f[c])
  BY <1>1, <1>2, <1>3, SumNat, SumChanges
<1>6. Sum(f, m) = CostOf(C \cap F) /\ Sum(g, m) = CostOf(C \cap (F \cup {c}))
  BY DEF CostOf, f, g, m
<1> QED BY <1>1, <1>4, <1>5, <1>6

LEMMA CostOfNone ==
  ASSUME EngineTypeOK
  PROVE  CostOf({}) = 0
<1> DEFINE m == Len(costs)
           f == [d \in 1 .. m |-> IF d \in {} THEN costs[d] ELSE 0]
<1>1. m \in Nat /\ f \in [1 .. m -> Int] /\ \A d \in 1 .. m : f[d] = 0
  BY DEF EngineTypeOK
<1> HIDE DEF f, m
<1>2. Sum(f, m) = 0
  BY <1>1, SumOfZeros
<1> QED BY <1>2 DEF CostOf, f, m

\* A project that every member approves has at least what they have left.
LEMMA JointSupport ==
  ASSUME EngineTypeOK, NEW N \in Coalitions, NEW c,
         \A v \in N : RankOf(v, c) <= rankLevel
  PROVE  LeftOf(ledger, N) <= Support(ballot, c)
<1> DEFINE n == Len(ledger.voters)
           f == [i \in 1 .. n |-> IF ledger.voters[i] \in N THEN ledger.weight[ledger.voters[i]] ELSE 0]
           B == Backing(ballot, c)
<1>1. ledger \in Ledgers /\ ledger.weight \in [Voter -> Nat]
  BY DEF EngineTypeOK, Ledgers
<1>2. n \in Nat /\ B \in [1 .. n -> Nat]
  BY BackingBounds
<1>3. f \in [1 .. n -> Nat]
  BY <1>1, RosterTotal
<1>4. \A i \in 1 .. n : f[i] <= B[i]
  <2> TAKE i \in 1 .. n
  <2> DEFINE v == ledger.voters[i]
  <2>1. B[i] \in Nat /\ B[i] = IF Approves(ballot, v, c) THEN ledger.weight[v] ELSE 0
    BY <1>2 DEF Backing
  <2>2. CASE v \notin N
    BY <2>1, <2>2
  <2>3. CASE v \in N /\ ledger.weight[v] = 0
    BY <2>1, <2>3
  <2>4. CASE v \in N /\ ledger.weight[v] # 0
    <3>1. Approves(ballot, v, c)
      BY <2>4 DEF Approves, Coalitions, HasBallot, RankOf
    <3> QED BY <2>1, <3>1
  <2> QED BY <2>2, <2>3, <2>4
<1> HIDE DEF f, B, n
<1>5. Sum(f, n) <= Sum(B, n)
  BY <1>2, <1>3, <1>4, SumBounds
<1> QED BY <1>5 DEF LeftOf, Support, f, B, n

-----------------------------------------------------------------------------
(* Ballots.                                                                *)

LEMMA SmallerSet ==
  ASSUME NEW C, IsFiniteSet(C), NEW c \in C, NEW S \in SUBSET (C \ {c})
  PROVE  Cardinality(S) \in Nat /\ Cardinality(C) \in Nat /\ Cardinality(S) + 1 <= Cardinality(C)
<1>1. IsFiniteSet(C \ {c}) /\ Cardinality(C \ {c}) = Cardinality(C) - 1
  BY FS_RemoveElement
<1>2. IsFiniteSet(S) /\ Cardinality(S) <= Cardinality(C \ {c})
  BY <1>1, FS_Subset
<1>3. Cardinality(S) \in Nat /\ Cardinality(C) \in Nat
  BY <1>2, FS_CardinalityType
<1> QED BY <1>1, <1>2, <1>3

\* What a voter ranks no worse than everything outside C is within the first
\* |C| ranks: the competition ranking of ValidBallot, and the last tier that
\* stands for what was left unranked.
LEMMA RankWithin ==
  ASSUME TypeOK, InputsInv, NEW v \in Voter, HasBallot(v),
         NEW C \in SUBSET Projects, NEW c \in C,
         \A d \in Projects \ C : RankOf(v, c) <= RankOf(v, d)
  PROVE  Cardinality(C) \in 1 .. Len(costs) /\ RankOf(v, c) <= Cardinality(C)
<1> DEFINE r == ballot[v]
           m == Len(costs)
           R == {d \in Projects : r[d] # 0}
           below(d) == RankedBelow(r, r[d])
<1>1. m \in Nat /\ Projects = 1 .. m /\ m < RankValues /\ RankValues \in Nat
  BY RankValuesAssumption DEF TypeOK, Projects, InputsInv, MAX_PROJECTS
<1>2. /\ ValidBallot(r) /\ defaultRank[v] = LastTier(r)
      /\ r \in Seq(Nat) /\ Len(r) = m /\ DOMAIN r = Projects
  <2>1. ValidBallot(r) /\ defaultRank[v] = LastTier(r)
    BY DEF InputsInv, BallotsOK, HasBallot
  <2>2. r \in Seq(Nat) /\ Len(r) = m
    BY <2>1 DEF TypeOK, ValidBallot
  <2> QED BY <1>1, <2>1, <2>2
<1>3. \A d \in Projects : r[d] \in Nat /\ (r[d] # 0 => RankOf(v, d) = r[d])
  BY <1>1, <1>2 DEF RankOf, EffectiveRank
<1>4. \A d \in R : r[d] = Cardinality(below(d)) + 1
  BY <1>2 DEF ValidBallot
<1>5. \A d \in Projects : below(d) \subseteq R \ {d}
  BY <1>2, <1>3 DEF RankedBelow
<1>6. LastTier(r) = (Cardinality(R) + 1) % RankValues
  BY <1>2 DEF LastTier
<1>7. IsFiniteSet(Projects) /\ Cardinality(Projects) = m /\ IsFiniteSet(C)
  <2>1. IsFiniteSet(Projects) /\ Cardinality(Projects) = m
    <3> HIDE DEF m
    <3>1. IsFiniteSet(1 .. m) /\ Cardinality(1 .. m) = IF 1 > m THEN 0 ELSE m - 1 + 1
      BY <1>1, FS_Interval
    <3> QED BY <1>1, <3>1
  <2> QED BY <2>1, FS_Subset
<1>8. Cardinality(C) \in 1 .. m
  <2>1. Cardinality(C) \in Nat /\ Cardinality(C) <= m
    BY <1>7, FS_Subset, FS_CardinalityType
  <2>2. Cardinality(C) # 0
    BY <1>7, FS_EmptySet
  <2> QED BY <1>1, <2>1, <2>2
<1> HIDE DEF r, m, R, below
<1>9. CASE r[c] # 0
  <2>1. below(c) \subseteq C \ {c}
    <3> SUFFICES ASSUME NEW d \in below(c), d \notin C PROVE FALSE
      BY <1>5
    <3>1. d \in Projects /\ r[d] # 0 /\ r[d] < r[c]
      BY <1>2 DEF below, RankedBelow
    <3> QED BY <3>1, <1>3, <1>9
  <2>2. Cardinality(below(c)) + 1 <= Cardinality(C)
    BY <1>7, <2>1, SmallerSet
  <2> QED BY <1>3, <1>4, <1>8, <1>9, <2>2 DEF R, m
<1>10. CASE r[c] = 0
  <2>1. IsFiniteSet(R) /\ R \subseteq Projects \ {c}
    <3>1. R \subseteq Projects \ {c}
      BY <1>10 DEF R
    <3> QED BY <1>7, <3>1, FS_Subset
  <2>2. Cardinality(R) \in Nat /\ Cardinality(R) + 1 <= m
    BY <1>7, <2>1, SmallerSet
  <2>3. RankOf(v, c) = Cardinality(R) + 1
    <3>1. RankOf(v, c) = (Cardinality(R) + 1) % RankValues
      BY <1>2, <1>6, <1>10 DEF RankOf, EffectiveRank, r
    <3> QED BY <1>1, <2>2, <3>1
  <2>4. R \subseteq C \ {c}
    <3> SUFFICES ASSUME NEW d \in R, d \notin C PROVE FALSE
      BY <2>1
    <3>1. Cardinality(below(d)) \in Nat /\ Cardinality(below(d)) + 1 <= Cardinality(R)
      BY <1>5, <2>1, SmallerSet
    <3>2. d \in Projects /\ r[d] # 0
      BY DEF R
    <3>3. RankOf(v, c) <= RankOf(v, d) /\ RankOf(v, d) = Cardinality(below(d)) + 1
      BY <1>3, <1>4, <3>2
    <3> QED BY <2>2, <2>3, <3>1, <3>3
  <2>5. Cardinality(R) + 1 <= Cardinality(C)
    BY <1>7, <2>4, SmallerSet
  <2> QED BY <1>8, <2>3, <2>5 DEF m
<1> QED BY <1>9, <1>10
-----------------------------------------------------------------------------
(* The invariant.                                                          *)

LEMMA TypesAgree ==
  TypeOK <=> /\ EngineTypeOK /\ costs # << >>
             /\ ballot \in [Voter -> Seq(Nat)] /\ defaultRank \in [Voter -> Nat]
             /\ initial \in [Voter -> Nat]
BY DEF TypeOK, EngineTypeOK

LEMMA TallyInitial == TallyInit => TallyInv
<1> SUFFICES ASSUME TallyInit PROVE TallyInv
  OBVIOUS
<1> USE DEF TallyInit
<1>1. TypeOK
  <2>1. initial \in [Voter -> Nat] /\ << >> \in Seq(Projects)
    BY DEF Ledgers, LedgerOK
  <2> QED BY <2>1 DEF TypeOK, LedgerOK
<1>2. EngineInv
  <2>1. ledger.granted \in Nat /\ RosterWeight(ledger) \in Nat
    BY RosterWeightNat DEF LedgerOK
  <2>2. spent = Sum(CostIfFunded, Len(costs))
    <3>1. Len(costs) \in Nat /\ CostIfFunded \in [1 .. Len(costs) -> Int]
          /\ \A c \in 1 .. Len(costs) : CostIfFunded[c] = 0
      BY DEF CostIfFunded
    <3> QED BY <3>1, SumOfZeros
  <2> QED BY <1>1, <2>1, <2>2, TypesAgree DEF EngineInv, LedgerOK
<1>3. InputsInv
  BY DEF InputsInv
<1>4. CoalitionInv
  <2> SUFFICES ASSUME NEW N \in Coalitions, NEW k \in 1 .. Len(costs)
               PROVE  PaidWithin(N, k) /\ ServedWithin(N, k)
    BY DEF CoalitionInv
  <2>1. MoneyOf(N) = LeftOf(ledger, N)
    BY DEF MoneyOf, LeftOf
  <2>2. LeftOf(ledger, N) \in Nat
    BY LeftOfBounds DEF LedgerOK
  <2>3. CostOf(Periphery(N, k) \cap funded) = 0
    <3>1. Periphery(N, k) \cap funded = {}
      OBVIOUS
    <3> QED BY <1>2, <3>1, CostOfNone DEF EngineInv
  <2>4. ~(rankLevel > k) /\ ~tallyDone
    OBVIOUS
  <2> QED BY <2>1, <2>2, <2>3, <2>4 DEF PaidWithin, ServedWithin
<1> QED BY <1>1, <1>2, <1>3, <1>4 DEF TallyInv

\* The tally moves no input.
LEMMA StepKeepsInputs ==
  ASSUME TallyInv, StartTally \/ Step(ballot), UNCHANGED initial
  PROVE  /\ UNCHANGED <<costs, ballot, defaultRank, initial>> /\ ledger'.voters = ledger.voters
         /\ EngineInv' /\ TypeOK' /\ InputsInv'
<1>1. UNCHANGED <<costs, ballot, defaultRank, initial>>
  BY DEF StartTally, Step, FundBest, RaiseLevel, FinishUnsupported, ballotVars
<1>2. EngineInv'
  BY StartKeepsEngine, StepKeepsEngine DEF TallyInv
<1>3. ledger'.voters = ledger.voters
  <2>1. CASE FundBest(ballot)
    BY <2>1, FundBestEffect DEF TallyInv
  <2> QED BY <2>1 DEF StartTally, Step, RaiseLevel, FinishUnsupported
<1>4. TypeOK'
  BY <1>1, <1>2 DEF TallyInv, TypeOK, EngineInv, EngineTypeOK
<1>5. InputsInv'
  <2>1. tallyStarted'
    BY DEF StartTally, Step, FundBest, RaiseLevel, FinishUnsupported
  <2>2. BallotsOK(ballot)'
    BY <1>1, <1>3, BallotsStayOK DEF TallyInv, InputsInv, IsVoter
  <2> QED BY <1>1, <2>1, <2>2 DEF TallyInv, InputsInv
<1> QED BY <1>1, <1>2, <1>3, <1>4, <1>5

LEMMA CoalitionsKeep ==
  ASSUME UNCHANGED <<costs, ballot, defaultRank, initial>>, ledger'.voters = ledger.voters,
         NEW N, NEW k
  PROVE  /\ Coalitions' = Coalitions /\ Projects' = Projects
         /\ MoneyOf(N)' = MoneyOf(N) /\ LeftOf(ledger, N)' = LeftOf(ledger', N)
         /\ Periphery(N, k)' = Periphery(N, k)
         /\ CostOf(Periphery(N, k) \cap funded)' = CostOf(Periphery(N, k) \cap funded')
         /\ \A v \in N : \A c : RankOf(v, c)' = RankOf(v, c)
<1>1. /\ Coalitions' = Coalitions /\ Projects' = Projects
      /\ \A v \in N : \A c : RankOf(v, c)' = RankOf(v, c)
  BY DEF Coalitions, HasBallot, Projects, RankOf, EffectiveRank
<1>2. MoneyOf(N)' = MoneyOf(N) /\ LeftOf(ledger, N)' = LeftOf(ledger', N)
  BY DEF MoneyOf, LeftOf
<1>3. Periphery(N, k)' = Periphery(N, k)
  BY DEF Periphery, Projects, RankOf, EffectiveRank
<1> QED BY <1>1, <1>2, <1>3 DEF CostOf

\* When the tally leaves level k because nothing is eligible.
LEMMA NothingEligible ==
  ASSUME TallyInv, Eligible(ballot) = {}, NEW N \in Coalitions, NEW k \in 1 .. Len(costs),
         k <= rankLevel, NEW c \in Projects \ funded, \A v \in N : RankOf(v, c) <= k
  PROVE  costs[c] + CostOf(Periphery(N, k) \cap funded) > MoneyOf(N)
<1>1. EngineTypeOK /\ TypeOK /\ rankLevel \in Nat /\ costs[c] \in Nat /\ ledger \in Ledgers
  BY DEF TallyInv, TypeOK, EngineInv, EngineTypeOK, Projects
<1>2. PaidWithin(N, k) /\ ServedWithin(N, k)
  BY DEF TallyInv, CoalitionInv
<1>3. CASE rankLevel > k
  BY <1>2, <1>3 DEF ServedWithin
<1>4. CASE rankLevel = k
  <2>1. LeftOf(ledger, N) <= Support(ballot, c)
    BY <1>1, <1>4, JointSupport
  <2>2. ~(Support(ballot, c) >= costs[c])
    BY DEF Eligible
  <2>3. /\ Support(ballot, c) \in Nat /\ LeftOf(ledger, N) \in Nat /\ MoneyOf(N) \in Nat
        /\ CostOf(Periphery(N, k) \cap funded) \in Nat
    BY <1>1, BackingBounds, LeftOfBounds, MoneyOfNat, CostOfGrows
  <2>4. MoneyOf(N) <= LeftOf(ledger, N) + CostOf(Periphery(N, k) \cap funded)
    BY <1>1, <1>2, <1>4 DEF PaidWithin
  <2> QED BY <1>1, <2>1, <2>2, <2>3, <2>4
<1> QED BY <1>1, <1>3, <1>4

\* What does not fit in the unspent budget is more than any coalition has left.
LEMMA UnspentCovers ==
  ASSUME NEW L \in Ledgers, NEW N, NEW s \in Nat, NEW x \in Nat,
         RosterWeight(L) + s = L.granted, L.granted <= L.total, x > L.total - s
  PROVE  x > LeftOf(L, N)
<1>1. L.granted \in Nat /\ L.total \in Nat
  BY DEF Ledgers
<1>2. LeftOf(L, N) \in Nat /\ LeftOf(L, N) <= RosterWeight(L) /\ RosterWeight(L) \in Nat
  BY LeftOfBounds
<1> QED BY <1>1, <1>2

\* What funding a project takes from a coalition: at most its cost, and
\* nothing if no member ranks it within the present level.
LEMMA FundingCharges ==
  ASSUME TallyInv, FundBest(ballot), NEW N
  PROVE  /\ LeftOf(ledger, N) <= LeftOf(ledger', N) + costs[Best(ballot)]
         /\ (\A v \in N : ~(RankOf(v, Best(ballot)) <= rankLevel))
              => LeftOf(ledger, N) = LeftOf(ledger', N)
<1> DEFINE best == Best(ballot)
           D == Deductions(ballot, best)
           n == Len(ledger.voters)
           f == [i \in 1 .. n |-> IF ledger.voters[i] \in N THEN ledger.weight[ledger.voters[i]] ELSE 0]
           g == [i \in 1 .. n |-> IF ledger.voters[i] \in N THEN ledger'.weight[ledger.voters[i]] ELSE 0]
           e == [i \in 1 .. n |-> IF ledger.voters[i] \in N THEN D[i] ELSE 0]
<1>1. EngineInv /\ EngineTypeOK /\ ledger \in Ledgers /\ ledger.weight \in [Voter -> Nat]
  BY DEF TallyInv, EngineInv, EngineTypeOK, Ledgers
<1>2. /\ best \in Eligible(ballot) /\ costs[best] \in Nat
      /\ D \in [1 .. n -> Nat] /\ Sum(D, n) = costs[best]
      /\ ledger' \in Ledgers /\ ledger'.voters = ledger.voters
      /\ \A i \in 1 .. n :
           ledger'.weight[ledger.voters[i]] = ledger.weight[ledger.voters[i]] - D[i]
  BY <1>1, FundBestEffect
<1>3. \A i \in 1 .. n : D[i] <= Backing(ballot, best)[i]
  BY <1>1, <1>2, DeductionsExact
<1>4. n \in Nat /\ f \in [1 .. n -> Nat] /\ g \in [1 .. n -> Nat] /\ e \in [1 .. n -> Nat]
  <2>1. ledger'.weight \in [Voter -> Nat]
    BY <1>2 DEF Ledgers
  <2>2. n \in Nat /\ f \in [1 .. n -> Nat]
    BY <1>1, RosterTotal
  <2>3. g \in [1 .. n -> Nat]
    BY <1>1, <2>1, RosterTotal
  <2>4. e \in [1 .. n -> Nat]
    BY <1>2
  <2> QED BY <2>2, <2>3, <2>4
<1>5. \A i \in 1 .. n : f[i] = g[i] + e[i] /\ e[i] <= D[i]
  <2> TAKE i \in 1 .. n
  <2>1. D[i] \in Nat /\ ledger.weight[ledger.voters[i]] \in Nat
    BY <1>1, <1>2 DEF Ledgers
  <2> QED BY <1>2, <2>1
<1>6. (\A v \in N : ~(RankOf(v, best) <= rankLevel)) => \A i \in 1 .. n : e[i] = 0
  <2> SUFFICES ASSUME \A v \in N : ~(RankOf(v, best) <= rankLevel), NEW i \in 1 .. n,
                      ledger.voters[i] \in N
               PROVE  D[i] = 0
    OBVIOUS
  <2>1. Backing(ballot, best)[i] = 0
    BY DEF Backing, Approves, RankOf
  <2> QED BY <1>2, <1>3, <2>1
<1>7. LeftOf(ledger, N) = Sum(f, n) /\ LeftOf(ledger', N) = Sum(g, n)
  BY <1>2 DEF LeftOf
<1> HIDE DEF f, g, e, D, n, best
<1>8. Sum(f, n) = Sum(g, n) + Sum(e, n)
  <2>1. f \in [1 .. n -> Int] /\ g \in [1 .. n -> Int] /\ e \in [1 .. n -> Int]
    BY <1>4
  <2> QED BY <1>4, <1>5, <2>1, SumOfSums
<1>9. Sum(e, n) <= Sum(D, n) /\ Sum(e, n) \in Nat /\ Sum(g, n) \in Nat
  BY <1>2, <1>4, <1>5, SumBounds, SumNat
<1>10. (\A i \in 1 .. n : e[i] = 0) => Sum(e, n) = 0
  BY <1>4, SumOfZeros
<1> QED BY <1>2, <1>6, <1>7, <1>8, <1>9, <1>10 DEF best

LEMMA StartKeepsCoalitions ==
  ASSUME TallyInv, StartTally, UNCHANGED initial
  PROVE  CoalitionInv'
<1>1. /\ UNCHANGED <<costs, ballot, defaultRank, initial, ledger, spent, funded>>
      /\ rankLevel' = 1 /\ rankLevel = 0
      /\ tallyDone' = NothingFits(ledger.total - spent, funded)
  BY DEF TallyInv, InputsInv, StartTally, ballotVars
<1>2. /\ TypeOK /\ EngineInv /\ EngineTypeOK /\ ledger \in Ledgers /\ spent \in Nat
      /\ RosterWeight(ledger) + spent = ledger.granted /\ ledger.granted <= ledger.total
      /\ \A c \in Projects : costs[c] \in Nat
  BY DEF TallyInv, EngineInv, EngineTypeOK, Projects
<1> SUFFICES ASSUME NEW N \in Coalitions', NEW k \in (1 .. Len(costs))'
             PROVE  PaidWithin(N, k)' /\ ServedWithin(N, k)'
  BY DEF CoalitionInv
<1>3. /\ N \in Coalitions /\ k \in 1 .. Len(costs)
      /\ MoneyOf(N)' = MoneyOf(N) /\ LeftOf(ledger, N)' = LeftOf(ledger, N)
      /\ CostOf(Periphery(N, k) \cap funded)' = CostOf(Periphery(N, k) \cap funded)
      /\ Projects' = Projects
  BY <1>1, CoalitionsKeep
<1>4. MoneyOf(N) <= LeftOf(ledger, N) + CostOf(Periphery(N, k) \cap funded)
  BY <1>1, <1>3 DEF TallyInv, CoalitionInv, PaidWithin
<1>5. PaidWithin(N, k)'
  BY <1>3, <1>4 DEF PaidWithin
<1>6. ServedWithin(N, k)'
  <2> SUFFICES ASSUME tallyDone', NEW c \in Projects \ funded
               PROVE  costs[c] + CostOf(Periphery(N, k) \cap funded) > MoneyOf(N)
    BY <1>1, <1>3 DEF ServedWithin
  <2>1. costs[c] \in Nat /\ costs[c] > ledger.total - spent
    BY <1>1, <1>2 DEF NothingFits
  <2>2. costs[c] > LeftOf(ledger, N)
    BY <1>2, <2>1, UnspentCovers
  <2>3. MoneyOf(N) \in Nat /\ LeftOf(ledger, N) \in Nat
        /\ CostOf(Periphery(N, k) \cap funded) \in Nat
    BY <1>2, MoneyOfNat, LeftOfBounds, CostOfGrows
  <2> QED BY <1>4, <2>1, <2>2, <2>3
<1> QED BY <1>5, <1>6

LEMMA FundBestKeepsCoalitions ==
  ASSUME TallyInv, FundBest(ballot), UNCHANGED initial
  PROVE  CoalitionInv'
<1> DEFINE best == Best(ballot)
<1>1. /\ UNCHANGED <<costs, ballot, defaultRank, initial, budget, rankLevel>>
      /\ ledger'.voters = ledger.voters /\ EngineInv'
      /\ funded' = funded \cup {best} /\ spent' = spent + costs[best]
      /\ tallyDone' = NothingFits(budget - spent', funded') /\ tallyStarted /\ ~tallyDone
  BY StepKeepsInputs DEF Step, FundBest, ballotVars
<1>2. /\ TypeOK /\ EngineInv /\ EngineTypeOK /\ ledger \in Ledgers /\ rankLevel \in Nat
      /\ budget = ledger.total
      /\ \A c \in Projects : costs[c] \in Nat
  <2>1. TypeOK /\ EngineInv
    BY DEF TallyInv
  <2>2. EngineTypeOK /\ budget = ledger.total
    BY <1>1, <2>1 DEF EngineInv
  <2> QED BY <2>1, <2>2 DEF EngineTypeOK, Projects
<1>3. best \in Projects \ funded /\ ledger' \in Ledgers /\ ledger'.total = ledger.total
  BY <1>2, FundBestEffect
<1>4. /\ RosterWeight(ledger') + spent' = ledger'.granted /\ ledger'.granted <= ledger'.total
      /\ spent' \in Nat
  BY <1>1, RosterOfPrimed DEF EngineInv, EngineTypeOK
<1> HIDE DEF best
<1> SUFFICES ASSUME NEW N \in Coalitions', NEW k \in (1 .. Len(costs))'
             PROVE  PaidWithin(N, k)' /\ ServedWithin(N, k)'
  BY DEF CoalitionInv
<1> DEFINE P == Periphery(N, k)
           before == CostOf(P \cap funded)
           after == CostOf(P \cap (funded \cup {best}))
<1>5. /\ N \in Coalitions /\ k \in 1 .. Len(costs)
      /\ MoneyOf(N)' = MoneyOf(N) /\ LeftOf(ledger, N)' = LeftOf(ledger', N)
      /\ CostOf(P \cap funded)' = after
      /\ Projects' = Projects /\ \A v \in N : \A c : RankOf(v, c)' = RankOf(v, c)
  BY <1>1, CoalitionsKeep
<1>6. before \in Nat /\ after = before + (IF best \in P THEN costs[best] ELSE 0)
  BY <1>2, <1>3, CostOfGrows
<1>7. MoneyOf(N) \in Nat /\ LeftOf(ledger, N) \in Nat /\ LeftOf(ledger', N) \in Nat
  BY <1>2, <1>3, MoneyOfNat, LeftOfBounds
<1>8. PaidWithin(N, k) /\ ServedWithin(N, k)
  BY <1>5 DEF TallyInv, CoalitionInv
<1>9. rankLevel <= k => MoneyOf(N) <= LeftOf(ledger', N) + after
  <2> SUFFICES ASSUME rankLevel <= k PROVE MoneyOf(N) <= LeftOf(ledger', N) + after
    OBVIOUS
  <2>1. MoneyOf(N) <= LeftOf(ledger, N) + before
    BY <1>8 DEF PaidWithin
  <2>2. CASE best \in P
    <3>1. LeftOf(ledger, N) <= LeftOf(ledger', N) + costs[best]
      BY FundingCharges DEF best
    <3> HIDE DEF P, before, after
    <3> QED BY <1>2, <1>3, <1>6, <1>7, <2>1, <2>2, <3>1
  <2>3. CASE best \notin P
    <3>1. \A v \in N : ~(RankOf(v, best) <= rankLevel)
      <4> SUFFICES ASSUME NEW v \in N, RankOf(v, best) <= rankLevel PROVE FALSE
        OBVIOUS
      <4>1. RankOf(v, best) \in Nat
        <5>1. v \in Voter /\ ballot[v] \in Seq(Nat) /\ Len(ballot[v]) = Len(costs) /\ defaultRank[v] \in Nat
          BY <1>2, <1>5 DEF Coalitions, HasBallot, TallyInv, InputsInv, BallotsOK, ValidBallot, TypeOK
        <5>2. ballot[v][best] \in Nat
          BY <1>3, <5>1 DEF Projects
        <5> QED BY <5>1, <5>2 DEF RankOf, EffectiveRank
      <4>2. RankOf(v, best) <= k
        BY <1>2, <1>5, <4>1
      <4> QED BY <1>3, <2>3, <4>2 DEF Periphery
    <3>2. LeftOf(ledger, N) = LeftOf(ledger', N)
      BY <3>1, FundingCharges DEF best
    <3> HIDE DEF P, before, after
    <3> QED BY <1>6, <1>7, <2>1, <2>3, <3>2
  <2> QED BY <2>2, <2>3
<1>10. PaidWithin(N, k)'
  BY <1>1, <1>5, <1>9 DEF PaidWithin
<1>11. ServedWithin(N, k)'
  <2> SUFFICES ASSUME rankLevel > k \/ tallyDone', NEW c \in Projects \ funded, c # best,
                      \A v \in N : RankOf(v, c) <= k
               PROVE  costs[c] + after > MoneyOf(N)
    BY <1>1, <1>5 DEF ServedWithin
  <2>1. costs[c] \in Nat /\ costs[best] \in Nat
    BY <1>2, <1>3
  <2>2. CASE rankLevel > k
    <3>1. costs[c] + before > MoneyOf(N)
      BY <1>8, <2>2 DEF ServedWithin
    <3> HIDE DEF P, before, after
    <3>2. before \in Nat /\ after \in Nat /\ before <= after
      BY <1>6, <2>1
    <3> QED BY <1>7, <2>1, <3>1, <3>2
  <2>3. CASE rankLevel <= k
    <3>1. costs[c] > ledger'.total - spent'
      BY <1>1, <1>2, <1>3, <2>3, <1>5 DEF NothingFits
    <3>2. costs[c] > LeftOf(ledger', N)
      BY <1>3, <1>4, <2>1, <3>1, UnspentCovers
    <3> HIDE DEF P, before, after
    <3>3. after \in Nat
      BY <1>6, <2>1
    <3>4. MoneyOf(N) <= LeftOf(ledger', N) + after
      BY <1>9, <2>3
    <3> QED BY <1>7, <2>1, <3>2, <3>3, <3>4
  <2> QED BY <1>2, <1>5, <2>2, <2>3
<1> QED BY <1>10, <1>11

\* Raising the level and giving up: nothing was eligible.
LEMMA GivingUpKeepsCoalitions ==
  ASSUME TallyInv, UNCHANGED initial, RaiseLevel(ballot) \/ FinishUnsupported(ballot)
  PROVE  CoalitionInv'
<1>1. /\ UNCHANGED <<costs, ballot, defaultRank, initial, ledger, funded>>
      /\ Eligible(ballot) = {}
      /\ \/ rankLevel' = rankLevel + 1 /\ ~tallyDone'
         \/ rankLevel' = rankLevel /\ rankLevel >= Len(costs)
  BY DEF RaiseLevel, FinishUnsupported, ballotVars
<1>2. rankLevel \in Nat /\ Len(costs) \in Nat
  BY DEF TallyInv, TypeOK
<1> SUFFICES ASSUME NEW N \in Coalitions', NEW k \in (1 .. Len(costs))'
             PROVE  PaidWithin(N, k)' /\ ServedWithin(N, k)'
  BY DEF CoalitionInv
<1>3. /\ N \in Coalitions /\ k \in 1 .. Len(costs)
      /\ MoneyOf(N)' = MoneyOf(N) /\ LeftOf(ledger, N)' = LeftOf(ledger, N)
      /\ CostOf(Periphery(N, k) \cap funded)' = CostOf(Periphery(N, k) \cap funded)
      /\ Projects' = Projects /\ \A v \in N : \A c : RankOf(v, c)' = RankOf(v, c)
  BY <1>1, CoalitionsKeep
<1>4. PaidWithin(N, k)'
  <2>1. rankLevel' <= k => rankLevel <= k
    BY <1>1, <1>2, <1>3
  <2> QED BY <1>3, <2>1 DEF TallyInv, CoalitionInv, PaidWithin
<1>5. ServedWithin(N, k)'
  <2> SUFFICES ASSUME (rankLevel > k \/ tallyDone)', NEW c \in Projects \ funded,
                      \A v \in N : RankOf(v, c) <= k
               PROVE  costs[c] + CostOf(Periphery(N, k) \cap funded) > MoneyOf(N)
    BY <1>1, <1>3 DEF ServedWithin
  <2>1. k <= rankLevel
    BY <1>1, <1>2, <1>3
  <2> QED BY <1>1, <1>3, <2>1, NothingEligible
<1> QED BY <1>4, <1>5

LEMMA NextPreserves ==
  ASSUME TallyInv, [TallyNext]_tallySpecVars
  PROVE  TallyInv'
<1>1. CASE TallyNext
  <2>1. EngineInv' /\ TypeOK' /\ InputsInv'
    BY <1>1, StepKeepsInputs DEF TallyNext
  <2>2. CoalitionInv'
    BY <1>1, StartKeepsCoalitions, FundBestKeepsCoalitions, GivingUpKeepsCoalitions
       DEF TallyNext, Step
  <2> QED BY <2>1, <2>2 DEF TallyInv
<1>2. CASE UNCHANGED tallySpecVars
  <2> USE <1>2 DEF tallySpecVars, engineVars, ballotVars, tallyVars
  <2>1. TypeOK'
    BY DEF TallyInv, TypeOK, Projects
  <2>2. EngineInv'
    BY ControlKeepsEngine DEF TallyInv, EngineInv, EngineTypeOK
  <2>3. InputsInv'
    <3>1. UNCHANGED <<costs, ledger, ballot, defaultRank, rankLevel, tallyStarted, initial>>
      OBVIOUS
    <3>2. BallotsOK(ballot)'
      BY <3>1, BallotsStayOK DEF TallyInv, InputsInv
    <3> QED BY <3>1, <3>2 DEF TallyInv, InputsInv
  <2>4. CoalitionInv'
    <3>1. ASSUME NEW N \in Coalitions', NEW k \in (1 .. Len(costs))'
          PROVE  PaidWithin(N, k)' /\ ServedWithin(N, k)'
      <4>1. PaidWithin(N, k) /\ ServedWithin(N, k)
        BY CoalitionsKeep DEF TallyInv, CoalitionInv
      <4> QED BY <4>1, CoalitionsKeep DEF PaidWithin, ServedWithin
    <3> QED BY <3>1 DEF CoalitionInv
  <2> QED BY <2>1, <2>2, <2>3, <2>4 DEF TallyInv
<1> QED BY <1>1, <1>2

LEMMA TallyInvariant == TallySpec => []TallyInv
<1>1. TallyInit => TallyInv
  BY TallyInitial
<1>2. TallyInv /\ [TallyNext]_tallySpecVars => TallyInv'
  BY NextPreserves
<1> QED BY <1>1, <1>2, PTL DEF TallySpec

-----------------------------------------------------------------------------
(* The properties.                                                         *)

\* Every value the tally computes keeps its type: in particular no deduction
\* ever drives a weight below zero, which Solidity would turn into a revert
\* that leaves the round without an outcome (PBEAR.sol:200-201).
THEOREM TypeCorrect == TallySpec => []TypeOK
<1>1. TallyInv => TypeOK
  BY DEF TallyInv
<1> QED BY <1>1, TallyInvariant, PTL

\* The rounded deductions of step() (PBEAR.sol:185-203) neither create nor lose
\* a unit of weight, whatever the ballots and the order of the roster.
THEOREM WeightConserved == TallySpec => []Conservation
<1>1. TallyInv => Conservation
  BY DEF TallyInv, EngineInv, Conservation
<1> QED BY <1>1, TallyInvariant, PTL

\* The tally never spends more than the budget it froze, so "an eligible
\* project always fits" (PBEAR.sol:159-160) although no step checks it.
THEOREM NeverOverspends == TallySpec => []SpentWithinBudget
<1>1. TallyInv => SpentWithinBudget
  BY EngineSpends DEF TallyInv, SpentWithinBudget
<1> QED BY <1>1, TallyInvariant, PTL

\* Inclusion PSC (README.md:17) for every round: a coalition that ranks the
\* projects C above all others is never left with a project of C unfunded that
\* its own money would still have paid for, on top of everything funded that a
\* member ranks among its first |C|.  The rounding of the deductions and the
\* default tier of unranked projects (PBEAR.sol:119, 199-203) do not break it.
THEOREM ProportionalRepresentation == TallySpec => []InclusionPSC
<1>1. ASSUME TallyInv PROVE InclusionPSC
  <2> SUFFICES ASSUME tallyDone,
                      NEW N \in SUBSET {v \in Voter : HasBallot(v) /\ initial[v] # 0},
                      NEW C \in SUBSET Projects, N # {}, Solid(N, C),
                      NEW c \in C \ funded
               PROVE  costs[c] + CostOf(Periphery(N, Cardinality(C)) \cap funded) > MoneyOf(N)
    BY DEF InclusionPSC
  <2> DEFINE k == Cardinality(C)
  <2>1. \A v \in N : k \in 1 .. Len(costs) /\ RankOf(v, c) <= k
    BY <1>1, RankWithin DEF TallyInv, Solid
  <2>2. N \in Coalitions /\ k \in 1 .. Len(costs) /\ c \in Projects \ funded
    BY <2>1 DEF Coalitions
  <2> HIDE DEF k
  <2>3. ServedWithin(N, k)
    BY <1>1, <2>2 DEF TallyInv, CoalitionInv
  <2>4. costs[c] + CostOf(Periphery(N, k) \cap funded) > MoneyOf(N)
    BY <2>1, <2>2, <2>3 DEF ServedWithin
  <2> QED BY <2>4 DEF k
<1>2. TallyInv => InclusionPSC
  BY <1>1
<1> QED BY <1>2, TallyInvariant, PTL

\* Funding a project charges nobody but its supporters, and each supporter less
\* than one unit away from its exact share (PBEAR.sol:185-203), whatever the
\* order of the roster in which the running total is rounded.
THEOREM ChargesAreProportional == TallySpec => ProportionalCharge
<1> DEFINE Fair(c, v) ==
             LET paid  == ledger.weight[v] - ledger'.weight[v]
                 exact == ledger.weight[v] * costs[c]
                 total == Support(ballot, c)
             IN  IF Approves(ballot, v, c)
                 THEN exact - total < paid * total /\ paid * total < exact + total
                 ELSE paid = 0
           Charged == \A c \in funded' \ funded, v \in Voter : Fair(c, v)
<1>1. ASSUME TallyInv, FundBest(ballot), NEW v \in Voter
      PROVE  Fair(Best(ballot), v)
  <2> DEFINE best == Best(ballot)
             D == Deductions(ballot, best)
             n == Len(ledger.voters)
  <2>1. EngineInv /\ EngineTypeOK /\ ledger.weight[v] \in Nat
    BY <1>1 DEF TallyInv, EngineInv, EngineTypeOK, Ledgers
  <2>2. /\ best \in Eligible(ballot) /\ D \in [1 .. n -> Nat]
        /\ \A i \in 1 .. n :
             ledger'.weight[ledger.voters[i]] = ledger.weight[ledger.voters[i]] - D[i]
        /\ ~IsVoter(ledger, v) => ledger'.weight[v] = ledger.weight[v]
    BY <1>1, <2>1, FundBestEffect
  <2>3. CASE ~IsVoter(ledger, v)
    <3>1. ledger.weight[v] = 0
      BY <2>1, <2>3 DEF EngineInv
    <3> QED BY <2>1, <2>2, <2>3, <3>1 DEF Approves
  <2>4. CASE IsVoter(ledger, v)
    <3>1. PICK i \in 1 .. n : ledger.voters[i] = v
      BY <2>1, <2>4 DEF IsVoter, EngineTypeOK, Ledgers
    <3> DEFINE x == Backing(ballot, best)[i]
               t == Support(ballot, best)
    <3>2. x = IF Approves(ballot, v, best) THEN ledger.weight[v] ELSE 0
      BY <3>1 DEF Backing
    <3>3. D[i] <= x /\ x * costs[best] - t < D[i] * t /\ D[i] * t < x * costs[best] + t
      BY <2>1, <2>2, DeductionsExact
    <3>4. D[i] \in Nat /\ ledger.weight[v] - ledger'.weight[v] = D[i]
      BY <2>1, <2>2, <3>1
    <3> HIDE DEF x, t, D, n, best
    <3>5. CASE Approves(ballot, v, best)
      BY <3>2, <3>3, <3>4, <3>5 DEF t, best
    <3>6. CASE ~Approves(ballot, v, best)
      BY <3>2, <3>3, <3>4, <3>6 DEF best
    <3> QED BY <3>5, <3>6
  <2> QED BY <2>3, <2>4
<1>2. TallyInv /\ [TallyNext]_tallySpecVars => [Charged]_tallySpecVars
  <2> SUFFICES ASSUME TallyInv, TallyNext, NEW c \in funded' \ funded, NEW v \in Voter
               PROVE  Fair(c, v)
    OBVIOUS
  <2>1. FundBest(ballot) /\ c = Best(ballot)
    BY DEF TallyNext, StartTally, Step, FundBest, RaiseLevel, FinishUnsupported
  <2> HIDE DEF Fair
  <2> QED BY <1>1, <2>1
<1> QED BY <1>2, TallyInvariant, PTL DEF TallySpec, ProportionalCharge

-----------------------------------------------------------------------------
(* The lists that the loops build of a set of indices.                     *)

\* The list exists and unfolds as its definition says.
LEMMA ListedUnfold ==
  ASSUME NEW n \in Nat, NEW S
  PROVE  /\ ListedUpTo(n, S)[0] = << >>
         /\ \A i \in 1 .. n : ListedUpTo(n, S)[i] = IF i \in S THEN Append(ListedUpTo(n, S)[i - 1], i)
                                                    ELSE ListedUpTo(n, S)[i - 1]
<1> DEFINE IsList(p, k) == p = [i \in 0 .. k |-> IF i = 0 THEN << >>
                                                ELSE IF i \in S THEN Append(p[i - 1], i) ELSE p[i - 1]]
           G == {k \in Nat : \E p : IsList(p, k)}
<1>1. 0 \in G
  <2> DEFINE p == [i \in 0 .. 0 |-> << >>]
  <2>1. IsList(p, 0)
    OBVIOUS
  <2> QED BY <2>1
<1>2. ASSUME NEW k \in G PROVE k + 1 \in G
  <2>1. PICK p : IsList(p, k)
    OBVIOUS
  <2> DEFINE q == [i \in 0 .. k + 1 |-> IF i = k + 1 THEN IF k + 1 \in S THEN Append(p[k], k + 1) ELSE p[k]
                                        ELSE p[i]]
  <2>2. \A i \in 0 .. k + 1 : q[i] = IF i = 0 THEN << >>
                                     ELSE IF i \in S THEN Append(q[i - 1], i) ELSE q[i - 1]
    <3> TAKE i \in 0 .. k + 1
    <3>1. CASE i = k + 1
      BY <3>1
    <3>2. CASE i # k + 1
      <4>1. i \in 0 .. k /\ q[i] = p[i] /\ (i # 0 => q[i - 1] = p[i - 1])
        BY <3>2
      <4>2. p[i] = IF i = 0 THEN << >> ELSE IF i \in S THEN Append(p[i - 1], i) ELSE p[i - 1]
        BY <4>1, <2>1
      <4> QED BY <4>1, <4>2
    <3> QED BY <3>1, <3>2
  <2>3. IsList(q, k + 1)
    <3>1. q = [i \in 0 .. k + 1 |-> q[i]]
      OBVIOUS
    <3> HIDE DEF q
    <3> QED BY <2>2, <3>1
  <2> HIDE DEF q, IsList
  <2> QED BY <2>3
<1>3. n \in G
  <2> HIDE DEF G
  <2> G \in SUBSET Nat
    BY DEF G
  <2> QED BY <1>1, <1>2, InductionOnSets
<1> DEFINE L == ListedUpTo(n, S)
<1>4. L = [i \in 0 .. n |-> IF i = 0 THEN << >> ELSE IF i \in S THEN Append(L[i - 1], i) ELSE L[i - 1]]
  BY <1>3 DEF ListedUpTo
<1> HIDE DEF L
<1>5. \A i \in 0 .. n : L[i] = IF i = 0 THEN << >> ELSE IF i \in S THEN Append(L[i - 1], i) ELSE L[i - 1]
  BY <1>4, Zenon
<1>6. 0 \in 0 .. n /\ \A i \in 1 .. n : i \in 0 .. n /\ i # 0
  OBVIOUS
<1>7. L[0] = << >> /\ \A i \in 1 .. n : L[i] = IF i \in S THEN Append(L[i - 1], i) ELSE L[i - 1]
  BY <1>5, <1>6
<1> QED BY <1>7 DEF L

\* The members of S, each once, at the place that the list had reached with it.
LEMMA ListedMembers ==
  ASSUME NEW n \in Nat, NEW S
  PROVE  LET L == ListedUpTo(n, S)
         IN  \A i \in 0 .. n :
               /\ L[i] \in Seq(Nat)
               /\ \A k \in 1 .. Len(L[i]) : /\ L[i][k] \in S /\ L[i][k] \in 1 .. i
                                            /\ Len(L[L[i][k]]) = k
               /\ \A s \in 1 .. i : s \in S => /\ Len(L[s]) \in 1 .. Len(L[i])
                                               /\ L[i][Len(L[s])] = s
<1> DEFINE L == ListedUpTo(n, S)
           Good(i) == /\ L[i] \in Seq(Nat)
                      /\ \A k \in 1 .. Len(L[i]) : /\ L[i][k] \in S /\ L[i][k] \in 1 .. i
                                                   /\ Len(L[L[i][k]]) = k
                      /\ \A s \in 1 .. i : s \in S => /\ Len(L[s]) \in 1 .. Len(L[i])
                                                      /\ L[i][Len(L[s])] = s
           G == {i \in 0 .. n : Good(i)}
<1>1. /\ L[0] = << >>
      /\ \A i \in 1 .. n : L[i] = IF i \in S THEN Append(L[i - 1], i) ELSE L[i - 1]
  BY ListedUnfold
<1> HIDE DEF L
<1>2. 0 \in G
  <2>1. L[0] \in Seq(Nat) /\ Len(L[0]) = 0 /\ 1 .. 0 = {}
    BY <1>1
  <2>2. Good(0)
    BY <2>1
  <2> QED BY <2>2
<1>3. ASSUME NEW i \in G, i < n PROVE i + 1 \in G
  <2>1. i \in Nat /\ i + 1 \in 1 .. n /\ Good(i) /\ (i + 1) - 1 = i
    BY <1>3
  <2>2. Len(L[i]) \in Nat
    BY <2>1
  <2>3. CASE i + 1 \notin S
    <3>1. L[i + 1] = L[i]
      BY <1>1, <2>1, <2>3
    <3>2. Good(i + 1)
      BY <2>1, <2>3, <3>1
    <3> QED BY <3>2, <2>1
  <2>4. CASE i + 1 \in S
    <3> DEFINE l == Len(L[i])
    <3>1. L[i + 1] = Append(L[i], i + 1)
      BY <1>1, <2>1, <2>4
    <3>2. /\ L[i + 1] \in Seq(Nat) /\ Len(L[i + 1]) = l + 1 /\ L[i + 1][l + 1] = i + 1
          /\ \A k \in 1 .. l : L[i + 1][k] = L[i][k]
      BY <2>1, <3>1, AppendProperties
    <3>3. \A k \in 1 .. Len(L[i + 1]) : /\ L[i + 1][k] \in S /\ L[i + 1][k] \in 1 .. i + 1
                                        /\ Len(L[L[i + 1][k]]) = k
      <4> TAKE k \in 1 .. Len(L[i + 1])
      <4>1. CASE k = l + 1
        BY <4>1, <3>2, <2>4, <2>1
      <4>2. CASE k # l + 1
        <5>1. k \in 1 .. l
          BY <4>2, <3>2, <2>2
        <5>2. L[i + 1][k] = L[i][k] /\ L[i][k] \in S /\ L[i][k] \in 1 .. i /\ Len(L[L[i][k]]) = k
          BY <5>1, <3>2, <2>1
        <5> QED BY <5>2, <2>1
      <4> QED BY <4>1, <4>2
    <3>4. \A s \in 1 .. i + 1 : s \in S => /\ Len(L[s]) \in 1 .. Len(L[i + 1])
                                           /\ L[i + 1][Len(L[s])] = s
      <4> TAKE s \in 1 .. i + 1
      <4> HAVE s \in S
      <4>1. CASE s = i + 1
        BY <4>1, <3>2, <2>2
      <4>2. CASE s # i + 1
        <5>1. s \in 1 .. i
          BY <4>2, <2>1
        <5>2. Len(L[s]) \in 1 .. l /\ L[i][Len(L[s])] = s
          BY <5>1, <2>1
        <5>3. L[i + 1][Len(L[s])] = L[i][Len(L[s])]
          BY <5>2, <3>2
        <5>4. Len(L[s]) \in 1 .. Len(L[i + 1])
          BY <5>2, <3>2, <2>2
        <5> QED BY <5>2, <5>3, <5>4
      <4> QED BY <4>1, <4>2
    <3>5. Good(i + 1)
      BY <3>2, <3>3, <3>4
    <3> HIDE DEF Good
    <3> QED BY <3>5, <2>1
  <2> QED BY <2>3, <2>4
<1>4. 0 .. n \subseteq G
  <2> G \in SUBSET Nat
    OBVIOUS
  <2> HIDE DEF G
  <2> QED BY <1>2, <1>3, InductionUpTo
<1> QED BY <1>4 DEF L

\* What a set of indices has of a total is natural, and nothing is added off the set.
OnFacts(n, w, S) ==
  /\ On(w, S) \in [1 .. n -> Nat]
  /\ \A i \in 1 .. n : On(w, S)[i] = (IF i \in S THEN w[i] ELSE 0) /\ On(w, S)[i] <= w[i]
  /\ PrefixSum(On(w, S), n) \in [0 .. n -> Nat]
  /\ PrefixSum(On(w, S), n)[0] = 0
  /\ \A i \in 1 .. n : PrefixSum(On(w, S), n)[i]
                         = PrefixSum(On(w, S), n)[i - 1] + (IF i \in S THEN w[i] ELSE 0)
  /\ Len(w) = n /\ SumOver(w, S) = PrefixSum(On(w, S), n)[n] /\ SumOver(w, S) \in Nat

LEMMA OnTotals ==
  ASSUME NEW n \in Nat, NEW w \in [1 .. n -> Nat], NEW S
  PROVE  OnFacts(n, w, S)
<1>1. /\ On(w, S) \in [1 .. n -> Nat] /\ On(w, S) \in [1 .. n -> Int]
      /\ \A i \in 1 .. n : On(w, S)[i] = (IF i \in S THEN w[i] ELSE 0) /\ On(w, S)[i] <= w[i]
  BY DEF On
<1> DEFINE f == On(w, S)
<1> HIDE DEF f
<1>2. PrefixSum(f, n) \in [0 .. n -> Nat]
  BY <1>1, PrefixSumNat DEF f
<1>3. PrefixSum(f, n)[0] = 0 /\ \A i \in 1 .. n : PrefixSum(f, n)[i] = PrefixSum(f, n)[i - 1] + f[i]
  BY <1>1, PrefixSumUnfold DEF f
<1>4. Len(w) = n
  OBVIOUS
<1>5. SumOver(w, S) = PrefixSum(f, n)[n]
  BY <1>4 DEF SumOver, Sum, f
<1> QED BY <1>1, <1>2, <1>3, <1>4, <1>5 DEF f, OnFacts

\* Along the list, the running total is that of the whole row up to there.
ListFacts(n, w, S) ==
  LET L   == ListedUpTo(n, S)
      q   == [k \in DOMAIN L[n] |-> w[L[n][k]]]
  IN  /\ Len(L[n]) \in Nat /\ q \in [1 .. Len(L[n]) -> Nat] /\ DOMAIN L[n] = 1 .. Len(L[n])
      /\ \A i \in 0 .. n : /\ Len(L[i]) \in 0 .. Len(L[n])
                           /\ PrefixSum(q, Len(L[n]))[Len(L[i])] = PrefixSum(On(w, S), n)[i]
      /\ \A i \in S : /\ Len(L[i]) \in 1 .. Len(L[n]) /\ Len(L[i]) - 1 = Len(L[i - 1])
                      /\ L[n][Len(L[i])] = i
      /\ \A k \in 1 .. Len(L[n]) : L[n][k] \in S /\ Len(L[L[n][k]]) = k

LEMMA ListedTotals ==
  ASSUME NEW n \in Nat, NEW w \in [1 .. n -> Nat], NEW S \in SUBSET (1 .. n)
  PROVE  ListFacts(n, w, S)
<1> DEFINE L   == ListedUpTo(n, S)
           len == Len(L[n])
           q   == [k \in DOMAIN L[n] |-> w[L[n][k]]]
           C   == PrefixSum(q, len)
           P   == PrefixSum(On(w, S), n)
<1>1. /\ L[0] = << >>
      /\ \A i \in 1 .. n : L[i] = IF i \in S THEN Append(L[i - 1], i) ELSE L[i - 1]
  BY ListedUnfold
<1>2. \A i \in 0 .. n : L[i] \in Seq(Nat)
  BY ListedMembers
<1>3. /\ \A k \in 1 .. len : L[n][k] \in S /\ Len(L[L[n][k]]) = k
      /\ \A i \in S : Len(L[i]) \in 1 .. len /\ L[n][Len(L[i])] = i
  BY ListedMembers
<1>0. OnFacts(n, w, S)
  BY OnTotals
<1>4. P[0] = 0 /\ \A i \in 1 .. n : P[i] = P[i - 1] + (IF i \in S THEN w[i] ELSE 0)
  BY <1>0 DEF OnFacts
<1>12. P \in [0 .. n -> Nat]
  BY <1>0 DEF OnFacts
<1> HIDE DEF L, P
<1>5. len \in Nat /\ DOMAIN L[n] = 1 .. len /\ Len(L[0]) = 0
  BY <1>1, <1>2
<1>6. q \in [1 .. len -> Nat] /\ \A k \in 1 .. len : q[k] = w[L[n][k]]
  BY <1>3, <1>5
<1> HIDE DEF len, q
<1>7. C[0] = 0 /\ \A k \in 1 .. len : C[k] = C[k - 1] + q[k]
  <2>1. q \in [1 .. len -> Int]
    BY <1>6
  <2> QED BY <1>5, <2>1, PrefixSumUnfold
<1> HIDE DEF C
<1>8. \A i \in S : Len(L[i]) - 1 = Len(L[i - 1])
  <2> TAKE i \in S
  <2>1. i \in 1 .. n /\ i - 1 \in 0 .. n /\ i \in Nat
    OBVIOUS
  <2>2. L[i] = Append(L[i - 1], i) /\ L[i - 1] \in Seq(Nat)
    BY <1>1, <1>2, <2>1
  <2> QED BY <2>1, <2>2, AppendProperties
<1> DEFINE G == {i \in 0 .. n : Len(L[i]) \in 0 .. len /\ C[Len(L[i])] = P[i]}
<1>9. 0 \in G
  BY <1>4, <1>5, <1>7
<1>10. ASSUME NEW i \in G, i < n PROVE i + 1 \in G
  <2>1. i + 1 \in 1 .. n /\ (i + 1) - 1 = i /\ Len(L[i]) \in 0 .. len /\ C[Len(L[i])] = P[i]
    BY <1>10
  <2>2. CASE i + 1 \notin S
    <3>1. L[i + 1] = L[i]
      BY <1>1, <2>1, <2>2
    <3>2. P[i + 1] = P[i]
      BY <1>4, <1>12, <2>1, <2>2
    <3> QED BY <2>1, <3>1, <3>2
  <2>3. CASE i + 1 \in S
    <3> DEFINE k == Len(L[i + 1])
    <3>1. k \in 1 .. len /\ k - 1 = Len(L[i]) /\ L[n][k] = i + 1
      BY <1>3, <1>8, <2>1, <2>3
    <3>2. C[k] = C[k - 1] + q[k] /\ q[k] = w[i + 1]
      BY <1>6, <1>7, <3>1
    <3>3. P[i + 1] = P[i] + w[i + 1]
      BY <1>4, <2>1, <2>3
    <3> HIDE DEF k
    <3>4. C[k] = P[i + 1]
      BY <2>1, <3>1, <3>2, <3>3
    <3>5. k \in 0 .. len
      BY <3>1, <1>5
    <3> QED BY <3>4, <3>5, <2>1 DEF k
  <2> QED BY <2>2, <2>3
<1>11. 0 .. n \subseteq G
  <2> G \in SUBSET Nat
    OBVIOUS
  <2> HIDE DEF G
  <2> QED BY <1>9, <1>10, InductionUpTo
<1>13. \A i \in 0 .. n : Len(L[i]) \in 0 .. len /\ C[Len(L[i])] = P[i]
  BY <1>11
<1> QED BY <1>3, <1>5, <1>6, <1>8, <1>13 DEF L, len, q, C, P, ListFacts

\* What a row has left after those in S paid thr of `total` together, when
\* `start` of the total stands before them.
PaidRow(n, w, S, thr, total, start) ==
  LET P == PrefixSum(On(w, S), n)
  IN  [i \in 1 .. n |-> w[i] - (Share(start + P[i], thr, total) - Share(start + P[i - 1], thr, total))]

\* A list of supporters is charged like the whole row with those who do not
\* support left at nothing.
CanPay(n, w, S, thr, total, start) ==
  /\ n \in Nat /\ w \in [1 .. n -> Nat] /\ S \in SUBSET (1 .. n)
  /\ thr \in Nat /\ total \in Nat \ {0} /\ start \in Nat

LEMMA ListedCharge ==
  ASSUME NEW n, NEW w, NEW S, NEW thr, NEW total, NEW start, CanPay(n, w, S, thr, total, start)
  PROVE  Deduct(w, Ordered(n, S), CumulativeDeductions(w, Ordered(n, S), thr, total, start))
           = PaidRow(n, w, S, thr, total, start)
<1> SUFFICES ASSUME n \in Nat, w \in [1 .. n -> Nat], S \in SUBSET (1 .. n),
                    thr \in Nat, total \in Nat \ {0}, start \in Nat
             PROVE  Deduct(w, Ordered(n, S), CumulativeDeductions(w, Ordered(n, S), thr, total, start))
                      = PaidRow(n, w, S, thr, total, start)
  BY DEF CanPay
<1> DEFINE P   == PrefixSum(On(w, S), n)
           L   == ListedUpTo(n, S)
           ell == Ordered(n, S)
           len == Len(ell)
           C   == PrefixSum([k \in DOMAIN ell |-> w[ell[k]]], len)
           Sh(x) == Share(x, thr, total)
           D   == [k \in DOMAIN ell |-> Sh(start + C[k]) - Sh(start + C[k - 1])]
<1>1. CumulativeDeductions(w, ell, thr, total, start) = D
  BY DEF CumulativeDeductions, Share
<1>2. /\ \A i \in 0 .. n : Len(L[i]) \in 0 .. len /\ C[Len(L[i])] = P[i]
      /\ \A i \in S : /\ Len(L[i]) \in 1 .. len /\ Len(L[i]) - 1 = Len(L[i - 1])
                      /\ ell[Len(L[i])] = i
      /\ \A k \in 1 .. len : ell[k] \in S /\ Len(L[ell[k]]) = k
      /\ len \in Nat
  <2>1. ListFacts(n, w, S)
    BY ListedTotals
  <2> QED BY <2>1 DEF Ordered, ListFacts
<1>3. DOMAIN ell = 1 .. len
  <2>1. ListFacts(n, w, S)
    BY ListedTotals
  <2> QED BY <2>1 DEF Ordered, ListFacts
<1>4. /\ P \in [0 .. n -> Nat]
      /\ \A i \in 1 .. n : P[i] = P[i - 1] + (IF i \in S THEN w[i] ELSE 0)
  <2>1. OnFacts(n, w, S)
    BY OnTotals
  <2> QED BY <2>1 DEF OnFacts
<1>5. \A x \in Nat : Sh(x) \in Nat
  <2> TAKE x \in Nat
  <2>1. x * thr \in Nat
    OBVIOUS
  <2> QED BY <2>1, Quotient DEF Share
<1> HIDE DEF P, L, ell, len, C, Sh
<1>6. ASSUME NEW i \in S
      PROVE  /\ \E k \in DOMAIN ell : ell[k] = i
             /\ (CHOOSE k \in DOMAIN ell : ell[k] = i) = Len(L[i])
             /\ D[Len(L[i])] = Sh(start + P[i]) - Sh(start + P[i - 1])
  <2>1. Len(L[i]) \in DOMAIN ell /\ ell[Len(L[i])] = i /\ \A k \in DOMAIN ell : ell[k] = i => k = Len(L[i])
    BY <1>2, <1>3
  <2>2. C[Len(L[i])] = P[i] /\ C[Len(L[i]) - 1] = P[i - 1]
    <3>1. i \in 0 .. n /\ i - 1 \in 0 .. n
      OBVIOUS
    <3> QED BY <1>2, <3>1
  <2>3. D[Len(L[i])] = Sh(start + C[Len(L[i])]) - Sh(start + C[Len(L[i]) - 1])
    BY <2>1
  <2> QED BY <2>1, <2>2, <2>3
<1>7. ASSUME NEW i \in (1 .. n) \ S
      PROVE  /\ ~ \E k \in DOMAIN ell : ell[k] = i
             /\ Sh(start + P[i]) - Sh(start + P[i - 1]) = 0
  <2>1. ~ \E k \in DOMAIN ell : ell[k] = i
    BY <1>2, <1>3
  <2>2. i - 1 \in 0 .. n /\ P[i - 1] \in Nat /\ P[i] = P[i - 1] /\ start + P[i] \in Nat
    BY <1>4
  <2>3. Sh(start + P[i]) = Sh(start + P[i - 1]) /\ Sh(start + P[i]) \in Nat
    BY <1>5, <2>2
  <2> QED BY <2>1, <2>3
<1> DEFINE E(i) == Sh(start + P[i]) - Sh(start + P[i - 1])
<1> HIDE DEF D, E
<1>8. Deduct(w, ell, D) = [i \in 1 .. n |-> w[i] - E(i)]
  <2>1. DOMAIN w = 1 .. n
    OBVIOUS
  <2>2. ASSUME NEW i \in 1 .. n
        PROVE  (IF \E k \in DOMAIN ell : ell[k] = i
                THEN w[i] - D[CHOOSE k \in DOMAIN ell : ell[k] = i] ELSE w[i]) = w[i] - E(i)
    <3>1. CASE i \in S
      BY <1>6, <3>1 DEF E
    <3>2. CASE i \notin S
      <4>1. (~ \E k \in DOMAIN ell : ell[k] = i) /\ E(i) = 0 /\ w[i] \in Nat
        BY <1>7, <3>2 DEF E
      <4>2. w[i] - E(i) = w[i]
        BY <4>1
      <4> QED BY <4>1, <4>2
    <3> QED BY <3>1, <3>2
  <2> QED BY <2>1, <2>2, Zenon DEF Deduct
<1> QED BY <1>1, <1>8 DEF E, P, ell, Sh, PaidRow

-----------------------------------------------------------------------------
(* The running maximum.                                                    *)

\* The pass exists and unfolds as its definition says.
LEMMA BestUnfold ==
  ASSUME NEW run, NEW sum, NEW cs, Len(cs) \in Nat
  PROVE  /\ BestUpTo(run, sum, cs)[0] = None
         /\ \A c \in 1 .. Len(cs) :
              BestUpTo(run, sum, cs)[c] =
                IF Displaces(run, sum, cs, c, BestUpTo(run, sum, cs)[c - 1]) THEN c
                ELSE BestUpTo(run, sum, cs)[c - 1]
<1> DEFINE n == Len(cs)
           After(x, c) == IF Displaces(run, sum, cs, c, x) THEN c ELSE x
           IsPass(p, k) == p = [c \in 0 .. k |-> IF c = 0 THEN None ELSE After(p[c - 1], c)]
           G == {k \in Nat : \E p : IsPass(p, k)}
<1> HIDE DEF After
<1>1. 0 \in G
  <2> DEFINE p == [c \in 0 .. 0 |-> None]
  <2>1. IsPass(p, 0)
    OBVIOUS
  <2> HIDE DEF IsPass
  <2> QED BY <2>1
<1>2. ASSUME NEW k \in G PROVE k + 1 \in G
  <2>1. PICK p : IsPass(p, k)
    OBVIOUS
  <2> DEFINE q == [c \in 0 .. (k + 1) |-> IF c = k + 1 THEN After(p[k], k + 1) ELSE p[c]]
  <2>2. \A c \in 0 .. (k + 1) : q[c] = IF c = 0 THEN None ELSE After(q[c - 1], c)
    <3> TAKE c \in 0 .. (k + 1)
    <3>1. CASE c = k + 1
      <4>1. q[c] = After(p[k], k + 1) /\ q[c - 1] = p[k] /\ c # 0
        BY <3>1
      <4> HIDE DEF q
      <4> QED BY <3>1, <4>1
    <3>2. CASE c # k + 1
      <4>1. c \in 0 .. k /\ q[c] = p[c] /\ (c # 0 => q[c - 1] = p[c - 1])
        BY <3>2
      <4>2. p[c] = IF c = 0 THEN None ELSE After(p[c - 1], c)
        BY <4>1, <2>1
      <4> HIDE DEF q
      <4> QED BY <4>1, <4>2
    <3> QED BY <3>1, <3>2
  <2>3. IsPass(q, k + 1)
    <3>1. q = [c \in 0 .. (k + 1) |-> q[c]]
      OBVIOUS
    <3> HIDE DEF q
    <3> QED BY <2>2, <3>1
  <2> HIDE DEF q, IsPass
  <2> QED BY <2>3
<1>3. \E p : IsPass(p, n)
  <2>1. G = Nat
    <3> HIDE DEF G
    <3> G \in SUBSET Nat
      BY DEF G
    <3> QED BY <1>1, <1>2, InductionOnSets
  <2> HIDE DEF IsPass
  <2> QED BY <2>1
<1> DEFINE best == CHOOSE p : IsPass(p, n)
<1>4. IsPass(best, n)
  <2> HIDE DEF IsPass
  <2> QED BY <1>3
<1>5. BestUpTo(run, sum, cs) = best
  BY Zenon DEF BestUpTo, After
<1> HIDE DEF best
<1>6. best[0] = None /\ \A c \in 1 .. n : best[c] = After(best[c - 1], c)
  BY <1>4
<1> QED BY <1>5, <1>6 DEF After

\* The better of two projects, as the ports and the contract order them.
Beats(sum, cs, c, d) ==
  \/ sum[c] > sum[d]
  \/ sum[c] = sum[d] /\ (cs[c] < cs[d] \/ (cs[c] = cs[d] /\ c <= d))

Affordable(run, sum, cs) == {c \in DOMAIN cs : ~IsFunded(run, c) /\ sum[c] >= cs[c]}

\* What displaces the best so far, by support and then by cost, beats what that beat.
LEMMA StrictlyBetter ==
  ASSUME NEW p \in Nat, NEW q \in Nat, NEW r \in Nat, NEW x \in Nat, NEW y \in Nat, NEW z \in Nat,
         p > q \/ (p = q /\ x < y), q > r \/ (q = r /\ y <= z)
  PROVE  p > r \/ (p = r /\ x < z)
OBVIOUS

\* One pass by id finds the best of what is affordable: nothing is displaced by
\* an equal, so the lowest id wins a tie.
LEMMA ArgmaxIsBest ==
  ASSUME NEW run, NEW cs \in Seq(Nat), NEW sum \in [1 .. Len(cs) -> Nat]
  PROVE  LET E == Affordable(run, sum, cs)
             b == Argmax(run, sum, cs)
         IN  /\ E = {} => b = None
             /\ E # {} => b \in E /\ \A d \in E : Beats(sum, cs, b, d)
<1> DEFINE n == Len(cs)
           E == Affordable(run, sum, cs)
           best == BestUpTo(run, sum, cs)
           Good(c) == \/ best[c] = None /\ E \cap (1 .. c) = {}
                      \/ best[c] \in E \cap (1 .. c) /\ \A d \in E \cap (1 .. c) : Beats(sum, cs, best[c], d)
           G == {c \in 0 .. n : Good(c)}
<1>1. n \in Nat /\ DOMAIN cs = 1 .. n /\ \A c \in 1 .. n : cs[c] \in Nat /\ sum[c] \in Nat
  OBVIOUS
<1>2. /\ best[0] = None
      /\ \A c \in 1 .. n : best[c] = IF Displaces(run, sum, cs, c, best[c - 1]) THEN c ELSE best[c - 1]
  BY <1>1, BestUnfold
<1>3. /\ \A c \in 1 .. n : c \in E <=> ~IsFunded(run, c) /\ sum[c] >= cs[c]
      /\ E \subseteq 1 .. n
  BY <1>1 DEF Affordable
<1> HIDE DEF best, E
<1>4. 0 \in G
  BY <1>1, <1>2
<1>5. ASSUME NEW c \in G, c < n PROVE c + 1 \in G
  <2>1. c + 1 \in 1 .. n /\ (c + 1) - 1 = c /\ c \in 0 .. n /\ Good(c)
    BY <1>1, <1>5
  <2>2. best[c + 1] = IF Displaces(run, sum, cs, c + 1, best[c]) THEN c + 1 ELSE best[c]
    BY <1>2, <2>1
  <2>3. \A d \in E : d \in 1 .. (c + 1) <=> d \in 1 .. c \/ d = c + 1
    <3> TAKE d \in E
    <3>1. d \in Nat /\ d >= 1 /\ c \in Nat
      BY <1>1, <1>3, <2>1
    <3> QED BY ONLY <3>1
  <2>4. Displaces(run, sum, cs, c + 1, best[c]) <=>
          c + 1 \in E /\ (\/ best[c] = 0 \/ sum[c + 1] > sum[best[c]]
                          \/ sum[c + 1] = sum[best[c]] /\ cs[c + 1] < cs[best[c]])
    BY <1>3, <2>1 DEF Displaces, Better, None
  <2>5. CASE ~ Displaces(run, sum, cs, c + 1, best[c]) /\ c + 1 \notin E
    BY <2>1, <2>2, <2>3, <2>5
  <2>6. CASE ~ Displaces(run, sum, cs, c + 1, best[c]) /\ c + 1 \in E
    <3>1. best[c] # 0 /\ best[c] \in E \cap (1 .. c) /\ best[c + 1] = best[c]
      BY <2>1, <2>2, <2>4, <2>6 DEF None
    <3>2. Beats(sum, cs, best[c], c + 1)
      BY <1>1, <1>3, <2>1, <2>4, <2>6, <3>1 DEF Beats
    <3> QED BY <2>1, <2>3, <3>1, <3>2
  <2>7. CASE Displaces(run, sum, cs, c + 1, best[c])
    <3>1. c + 1 \in E /\ best[c + 1] = c + 1
      BY <2>2, <2>4, <2>7
    <3>2. ASSUME NEW d \in E \cap (1 .. (c + 1)) PROVE Beats(sum, cs, c + 1, d)
      <4>1. CASE d = c + 1
        BY <1>1, <2>1, <4>1 DEF Beats
      <4>2. CASE d # c + 1
        <5>1. best[c] \in E \cap (1 .. c) /\ Beats(sum, cs, best[c], d) /\ best[c] # 0
          BY <2>1, <2>3, <4>2
        <5>2. PICK b \in 1 .. n : b = best[c]
          BY <1>3, <5>1
        <5> DEFINE p == sum[c + 1]
                   q == sum[b]
                   r == sum[d]
                   x == cs[c + 1]
                   y == cs[b]
                   z == cs[d]
        <5>3. p \in Nat /\ q \in Nat /\ r \in Nat /\ x \in Nat /\ y \in Nat /\ z \in Nat
          BY <1>1, <1>3, <2>1
        <5>4. p > q \/ (p = q /\ x < y)
          BY <2>4, <2>7, <5>1, <5>2
        <5>5. q > r \/ (q = r /\ y <= z)
          BY <5>1, <5>2, <5>3 DEF Beats
        <5> HIDE DEF p, q, r, x, y, z
        <5>6. p > r \/ (p = r /\ x < z)
          BY <5>3, <5>4, <5>5, StrictlyBetter
        <5> QED BY <5>6 DEF Beats, p, r, x, z
      <4> QED BY <4>1, <4>2
    <3> QED BY <2>1, <2>3, <3>1, <3>2
  <2> QED BY <2>5, <2>6, <2>7
<1>6. Good(n)
  <2>1. 0 .. n \subseteq G
    <3> G \in SUBSET Nat
      BY <1>1
    <3> HIDE DEF G
    <3> QED BY <1>1, <1>4, <1>5, InductionUpTo
  <2>2. n \in G
    BY <1>1, <2>1
  <2> QED BY <2>2
<1>7. Argmax(run, sum, cs) = best[n]
  BY DEF Argmax, best
<1> QED BY <1>3, <1>6, <1>7 DEF E, None

-----------------------------------------------------------------------------
(* One iteration of a port.                                                *)

IsPortRun(x) ==
  x = [weights |-> x.weights, funded |-> x.funded, spent |-> x.spent, level |-> x.level,
       done |-> x.done, transcript |-> x.transcript, ok |-> x.ok]

\* What those in S have left after paying thr together.
Charged(n, w, S, thr) == PaidRow(n, w, S, thr, SumOver(w, S), 0)

BestOf(x, ranks, cs) == Argmax(x, SupportOf(x, ranks, DOMAIN ranks, cs), cs)

Backers(x, ranks, c) == Supporters(x, ranks, DOMAIN ranks, c)

\* What every port makes of x in one iteration.
Iterates(n, x, y, ranks, cs, B) ==
  LET best == BestOf(x, ranks, cs)
  IN  IF Exhausted(x, cs, B) \/ (best = None /\ x.level >= Len(cs))
      THEN y.done /\ y.funded = x.funded
      ELSE /\ ~y.done
           /\ IF best = None
              THEN /\ y.weights = x.weights /\ y.funded = x.funded /\ y.spent = x.spent
                   /\ y.level = x.level + 1
              ELSE /\ y.weights = Charged(n, x.weights, Backers(x, ranks, best), cs[best])
                   /\ y.funded = Append(x.funded, best) /\ y.spent = x.spent + cs[best]
                   /\ y.level = x.level

\* Support is a total of weights, and the project that is best has some.
PickFacts(n, x, ranks, cs) ==
  LET sum  == SupportOf(x, ranks, DOMAIN ranks, cs)
      best == BestOf(x, ranks, cs)
      sup  == Backers(x, ranks, best)
  IN  /\ sum \in [1 .. Len(cs) -> Nat]
      /\ \A c \in 1 .. Len(cs) : ~IsFunded(x, c) => sum[c] = SumOver(x.weights, Backers(x, ranks, c))
      /\ best # None =>
           /\ best \in 1 .. Len(cs) /\ ~IsFunded(x, best) /\ cs[best] \in Nat \ {0}
           /\ sum[best] = SumOver(x.weights, sup) /\ sum[best] >= cs[best]
           /\ SumOver(x.weights, sup) \in Nat \ {0} /\ sup \subseteq 1 .. n

LEMMA PickIsSound ==
  ASSUME NEW x, NEW n \in Nat, NEW ranks, DOMAIN ranks = 1 .. n,
         NEW cs \in Seq(Nat \ {0}), x.weights \in [1 .. n -> Nat]
  PROVE  PickFacts(n, x, ranks, cs)
<1> DEFINE m    == Len(cs)
           w    == x.weights
           sum  == SupportOf(x, ranks, DOMAIN ranks, cs)
           best == BestOf(x, ranks, cs)
<1>1. m \in Nat /\ DOMAIN cs = 1 .. m /\ cs \in Seq(Nat) /\ \A c \in 1 .. m : cs[c] \in Nat \ {0}
  OBVIOUS
<1>2. \A S : OnFacts(n, w, S)
  BY OnTotals
<1>3. \A S : SumOver(w, S) \in Nat
  BY <1>2 DEF OnFacts
<1>4. /\ sum \in [1 .. m -> Nat]
      /\ \A c \in 1 .. m : ~IsFunded(x, c) => sum[c] = SumOver(w, Backers(x, ranks, c))
  BY <1>1, <1>3 DEF SupportOf, Backers
<1> HIDE DEF sum
<1>5. CASE Affordable(x, sum, cs) = {}
  <2>1. best = None
    BY <1>1, <1>4, <1>5, ArgmaxIsBest DEF BestOf, sum
  <2> QED BY <1>4, <2>1 DEF PickFacts, sum
<1>6. CASE Affordable(x, sum, cs) # {}
  <2>1. best \in Affordable(x, sum, cs)
    BY <1>1, <1>4, <1>6, ArgmaxIsBest DEF BestOf, sum
  <2>2. best \in 1 .. m /\ ~IsFunded(x, best) /\ sum[best] >= cs[best]
    BY <1>1, <2>1 DEF Affordable
  <2>3. sum[best] = SumOver(w, Backers(x, ranks, best)) /\ sum[best] \in Nat /\ cs[best] \in Nat \ {0}
    BY <1>1, <1>4, <2>2
  <2>4. Backers(x, ranks, best) \subseteq 1 .. n
    BY DEF Backers, Supporters
  <2>5. SumOver(w, Backers(x, ranks, best)) \in Nat \ {0}
    BY <2>2, <2>3
  <2> HIDE DEF best
  <2> QED BY <1>4, <2>2, <2>3, <2>4, <2>5 DEF PickFacts, sum, best
<1> QED BY <1>5, <1>6

\* The record that funding leaves.
LEMMA FundRecord ==
  ASSUME NEW w, NEW f, NEW s, NEW l, NEW d, NEW t, NEW k, NEW w2, NEW f2, NEW s2, NEW x, NEW y,
         x = [weights |-> w, funded |-> f, spent |-> s, level |-> l, done |-> d, transcript |-> t, ok |-> k],
         y = [x EXCEPT !.weights = w2, !.funded = f2, !.spent = s2]
  PROVE  y = [weights |-> w2, funded |-> f2, spent |-> s2, level |-> l, done |-> d, transcript |-> t, ok |-> k]
OBVIOUS

CanFund(n, x, S, c, cs, total, start) ==
  /\ IsPortRun(x) /\ n \in Nat /\ x.weights \in [1 .. n -> Nat]
  /\ S \in SUBSET (1 .. n) /\ cs \in Seq(Nat \ {0}) /\ c \in 1 .. Len(cs)
  /\ total \in Nat \ {0} /\ start \in Nat

FundFacts(n, x, S, c, cs, total, start) ==
  Fund(x, S, c, cs, total, start) =
    [weights |-> PaidRow(n, x.weights, S, cs[c], total, start), funded |-> Append(x.funded, c),
     spent |-> x.spent + cs[c], level |-> x.level, done |-> x.done,
     transcript |-> x.transcript, ok |-> x.ok]

LEMMA FundLeaves ==
  ASSUME NEW n, NEW x, NEW S, NEW c, NEW cs, NEW total, NEW start, CanFund(n, x, S, c, cs, total, start)
  PROVE  FundFacts(n, x, S, c, cs, total, start)
<1> DEFINE w == x.weights
           D == Deduct(w, Ordered(n, S), CumulativeDeductions(w, Ordered(n, S), cs[c], total, start))
           y == Fund(x, S, c, cs, total, start)
           f == Append(x.funded, c)
           s == x.spent + cs[c]
<1>0. /\ IsPortRun(x) /\ n \in Nat /\ w \in [1 .. n -> Nat]
      /\ S \in SUBSET (1 .. n) /\ cs \in Seq(Nat \ {0}) /\ c \in 1 .. Len(cs)
      /\ total \in Nat \ {0} /\ start \in Nat
  BY DEF CanFund
<1>1. cs[c] \in Nat /\ Len(w) = n
  BY <1>0
<1>2. D = PaidRow(n, w, S, cs[c], total, start)
  <2>1. CanPay(n, w, S, cs[c], total, start)
    BY <1>0, <1>1 DEF CanPay
  <2> QED BY <2>1, ListedCharge
<1>3. y = [x EXCEPT !.weights = D, !.funded = f, !.spent = s]
  BY <1>1 DEF Fund
<1> HIDE DEF D, f, s, y
<1>4. y = [weights |-> D, funded |-> f, spent |-> s, level |-> x.level, done |-> x.done,
           transcript |-> x.transcript, ok |-> x.ok]
  BY <1>0, <1>3, FundRecord DEF IsPortRun
<1> QED BY <1>2, <1>4 DEF f, s, y, FundFacts

\* What an iteration is about.
IsRound(n, x, ranks, cs, B) ==
  /\ n \in Nat /\ DOMAIN ranks = 1 .. n /\ cs \in Seq(Nat \ {0})
  /\ IsPortRun(x) /\ x.weights \in [1 .. n -> Nat] /\ ~x.done

\* Records that differ in one field from a run.
LEMMA RunFields ==
  ASSUME NEW x, IsPortRun(x), NEW v
  PROVE  /\ [x EXCEPT !.done = v] = [weights |-> x.weights, funded |-> x.funded, spent |-> x.spent,
              level |-> x.level, done |-> v, transcript |-> x.transcript, ok |-> x.ok]
         /\ [x EXCEPT !.level = v] = [weights |-> x.weights, funded |-> x.funded, spent |-> x.spent,
              level |-> v, done |-> x.done, transcript |-> x.transcript, ok |-> x.ok]
         /\ [x EXCEPT !.transcript = v] = [weights |-> x.weights, funded |-> x.funded, spent |-> x.spent,
              level |-> x.level, done |-> x.done, transcript |-> v, ok |-> x.ok]
         /\ [x EXCEPT !.ok = v] = [weights |-> x.weights, funded |-> x.funded, spent |-> x.spent,
              level |-> x.level, done |-> x.done, transcript |-> x.transcript, ok |-> v]
<1> DEFINE w == x.weights
           f == x.funded
           s == x.spent
           l == x.level
           d == x.done
           t == x.transcript
           k == x.ok
<1>1. x = [weights |-> w, funded |-> f, spent |-> s, level |-> l, done |-> d, transcript |-> t, ok |-> k]
  BY DEF IsPortRun
<1> HIDE DEF w, f, s, l, d, t, k
<1> QED BY <1>1 DEF w, f, s, l, d, t, k

\* A run that differs from x in the fields named.
Like(x, w, f, s, l, d, t) ==
  [weights |-> w, funded |-> f, spent |-> s, level |-> l, done |-> d, transcript |-> t, ok |-> x.ok]

\* The fields of such a record.
LEMMA LikeFields ==
  ASSUME NEW x, NEW w, NEW f, NEW s, NEW l, NEW d, NEW t
  PROVE  LET y == Like(x, w, f, s, l, d, t)
         IN  /\ IsPortRun(y) /\ y.ok = x.ok /\ y.weights = w /\ y.funded = f /\ y.spent = s
             /\ y.level = l /\ y.done = d /\ y.transcript = t
BY DEF Like, IsPortRun

\* The reference and the Rust crate iterate like that.
LEMMA OneBlockIterates ==
  ASSUME NEW n, NEW x, NEW ranks, NEW cs, NEW B, IsRound(n, x, ranks, cs, B)
  PROVE  LET y == OneBlockStep(x, ranks, cs, B)
         IN  IsPortRun(y) /\ Iterates(n, x, y, ranks, cs, B)
<1> DEFINE all  == DOMAIN ranks
           sum  == SupportOf(x, ranks, all, cs)
           best == BestOf(x, ranks, cs)
           sup  == Backers(x, ranks, best)
           y    == OneBlockStep(x, ranks, cs, B)
<1>1. /\ n \in Nat /\ DOMAIN ranks = 1 .. n /\ cs \in Seq(Nat \ {0})
      /\ IsPortRun(x) /\ x.weights \in [1 .. n -> Nat] /\ ~x.done
  BY DEF IsRound
<1>2. PickFacts(n, x, ranks, cs)
  BY <1>1, PickIsSound
<1>3. y = IF Exhausted(x, cs, B) THEN [x EXCEPT !.done = TRUE]
          ELSE IF best = None
            THEN IF x.level >= Len(cs) THEN [x EXCEPT !.done = TRUE] ELSE [x EXCEPT !.level = @ + 1]
          ELSE Fund(x, sup, best, cs, sum[best], 0)
  BY <1>1 DEF OneBlockStep, BestOf, Backers
<1> HIDE DEF y, best, sup, sum
<1>4. CASE Exhausted(x, cs, B) \/ (best = None /\ x.level >= Len(cs))
  <2>1. y = [x EXCEPT !.done = TRUE]
    BY <1>3, <1>4
  <2> DEFINE yes == TRUE
  <2>2. y = [x EXCEPT !.done = yes]
    BY <2>1
  <2> HIDE DEF yes
  <2>3. y = Like(x, x.weights, x.funded, x.spent, x.level, yes, x.transcript)
    BY <1>1, <2>2, RunFields DEF Like
  <2>4. IsPortRun(y) /\ y.done = yes /\ y.funded = x.funded
    BY <2>3, LikeFields
  <2>5. y.done
    BY <2>4 DEF yes
  <2> QED BY <1>4, <2>4, <2>5 DEF Iterates, best, y
<1>5. CASE ~Exhausted(x, cs, B) /\ best = None /\ ~(x.level >= Len(cs))
  <2>1. y = [x EXCEPT !.level = x.level + 1]
    BY <1>3, <1>5
  <2>2. y = Like(x, x.weights, x.funded, x.spent, x.level + 1, x.done, x.transcript)
    BY <1>1, <2>1, RunFields DEF Like
  <2>3. /\ IsPortRun(y) /\ y.weights = x.weights /\ y.funded = x.funded /\ y.spent = x.spent
        /\ y.level = x.level + 1 /\ y.done = x.done
    BY <2>2, LikeFields
  <2> QED BY <1>1, <1>5, <2>3 DEF Iterates, best, y
<1>6. CASE ~Exhausted(x, cs, B) /\ best # None
  <2>1. /\ best \in 1 .. Len(cs) /\ sum[best] = SumOver(x.weights, sup)
        /\ SumOver(x.weights, sup) \in Nat \ {0} /\ sup \subseteq 1 .. n
    BY <1>2, <1>6 DEF PickFacts, best, sup, sum
  <2>2. y = Fund(x, sup, best, cs, SumOver(x.weights, sup), 0)
    BY <1>3, <1>6, <2>1
  <2> DEFINE w == Charged(n, x.weights, sup, cs[best])
             f == Append(x.funded, best)
             s == x.spent + cs[best]
  <2>3. CanFund(n, x, sup, best, cs, SumOver(x.weights, sup), 0)
    BY <1>1, <2>1 DEF CanFund
  <2>4. y = Like(x, w, f, s, x.level, x.done, x.transcript)
    <3>1. FundFacts(n, x, sup, best, cs, SumOver(x.weights, sup), 0)
      BY <2>3, FundLeaves
    <3> QED BY <2>2, <3>1 DEF FundFacts, Like, Charged
  <2> HIDE DEF w, f, s
  <2>5. /\ IsPortRun(y) /\ y.weights = w /\ y.funded = f /\ y.spent = s
        /\ y.level = x.level /\ y.done = x.done
    BY <2>4, LikeFields
  <2> QED BY <1>1, <1>6, <2>5 DEF Iterates, best, sup, y, w, f, s
<1> QED BY <1>4, <1>5, <1>6

\* A set of supporters may be counted in two parts.
CanSplit(n, w, S, A, C) ==
  n \in Nat /\ w \in [1 .. n -> Nat] /\ S = A \cup C /\ A \cap C = {}

LEMMA SplitTotal ==
  ASSUME NEW n, NEW w, NEW S, NEW A, NEW C, CanSplit(n, w, S, A, C)
  PROVE  SumOver(w, S) = SumOver(w, A) + SumOver(w, C)
<1>1. n \in Nat /\ w \in [1 .. n -> Nat] /\ S = A \cup C /\ A \cap C = {}
  BY DEF CanSplit
<1>2. OnFacts(n, w, S) /\ OnFacts(n, w, A) /\ OnFacts(n, w, C)
  BY <1>1, OnTotals
<1> DEFINE f == On(w, S)
           g == On(w, A)
           h == On(w, C)
<1>3. /\ f \in [1 .. n -> Nat] /\ g \in [1 .. n -> Nat] /\ h \in [1 .. n -> Nat]
      /\ \A i \in 1 .. n : /\ f[i] = (IF i \in S THEN w[i] ELSE 0)
                           /\ g[i] = (IF i \in A THEN w[i] ELSE 0)
                           /\ h[i] = (IF i \in C THEN w[i] ELSE 0)
      /\ SumOver(w, S) = Sum(f, n) /\ SumOver(w, A) = Sum(g, n) /\ SumOver(w, C) = Sum(h, n)
  BY <1>2 DEF OnFacts, Sum
<1> HIDE DEF f, g, h
<1>4. f \in [1 .. n -> Int] /\ g \in [1 .. n -> Int] /\ h \in [1 .. n -> Int]
  BY <1>3
<1>5. ASSUME NEW i \in 1 .. n PROVE f[i] = g[i] + h[i]
  <2>1. w[i] \in Nat /\ (i \in S <=> i \in A \/ i \in C) /\ ~(i \in A /\ i \in C)
    BY <1>1
  <2>2. /\ f[i] = (IF i \in S THEN w[i] ELSE 0) /\ g[i] = (IF i \in A THEN w[i] ELSE 0)
        /\ h[i] = (IF i \in C THEN w[i] ELSE 0)
    BY <1>3
  <2> QED BY <2>1, <2>2
<1>6. Sum(f, n) = Sum(g, n) + Sum(h, n)
  BY <1>1, <1>4, <1>5, SumOfSums
<1> QED BY <1>3, <1>6

\* The entries of a round with those of the public block in front or anywhere.
InBlocks(n, x, ranks, A, cs, B) == IsRound(n, x, ranks, cs, B) /\ A \subseteq 1 .. n

\* Both blocks together support a project like one.
LEMMA BlocksAddUp ==
  ASSUME NEW n, NEW x, NEW ranks, NEW A, NEW cs, NEW B, InBlocks(n, x, ranks, A, cs, B)
  PROVE  BlocksSupport(x, ranks, A, cs) = SupportOf(x, ranks, DOMAIN ranks, cs)
<1> DEFINE w == x.weights
           ps == SupportOf(x, ranks, A, cs)
           ss == SupportOf(x, ranks, (1 .. n) \ A, cs)
           sum == SupportOf(x, ranks, 1 .. n, cs)
<1>0. n \in Nat /\ DOMAIN ranks = 1 .. n /\ w \in [1 .. n -> Nat] /\ A \subseteq 1 .. n
  BY DEF IsRound, InBlocks
<1>1. ASSUME NEW c \in DOMAIN cs
      PROVE  ps[c] + ss[c] = sum[c]
  <2>1. CASE IsFunded(x, c)
    BY <2>1 DEF SupportOf
  <2>2. CASE ~IsFunded(x, c)
    <3> DEFINE S == Supporters(x, ranks, 1 .. n, c)
               SA == Supporters(x, ranks, A, c)
               SC == Supporters(x, ranks, (1 .. n) \ A, c)
    <3>1. CanSplit(n, w, S, SA, SC)
      BY <1>0 DEF Supporters, CanSplit
    <3>2. ps[c] = SumOver(w, SA) /\ ss[c] = SumOver(w, SC) /\ sum[c] = SumOver(w, S)
      BY <2>2 DEF SupportOf
    <3> HIDE DEF S, SA, SC, ps, ss, sum, w
    <3>3. SumOver(w, S) = SumOver(w, SA) + SumOver(w, SC)
      BY <3>1, SplitTotal
    <3> QED BY <3>2, <3>3
  <2> QED BY <2>1, <2>2
<1>2. sum = [c \in DOMAIN cs |-> sum[c]]
  BY DEF SupportOf
<1>3. BlocksSupport(x, ranks, A, cs) = [c \in DOMAIN cs |-> ps[c] + ss[c]]
  BY <1>0 DEF BlocksSupport
<1> HIDE DEF ps, ss, sum
<1>4. BlocksSupport(x, ranks, A, cs) = sum
  BY <1>1, <1>2, <1>3
<1> QED BY <1>0, <1>4 DEF sum

\* The step that shared/pbear.ts writes about a run.
Written(x, ranks, A, cs) ==
  LET best == BestOf(x, ranks, cs)
  IN  [level |-> x.level, pub |-> SupportOf(x, ranks, A, cs), best |-> best,
       total |-> IF best = None THEN 0 ELSE SumOver(x.weights, Backers(x, ranks, best))]

\* shared/pbear.ts iterates like the others, wherever the public block ends,
\* and writes a step unless everything is too expensive.
LEMMA TranscriptIterates ==
  ASSUME NEW n, NEW x, NEW ranks, NEW A, NEW cs, NEW B, InBlocks(n, x, ranks, A, cs, B)
  PROVE  LET y == TranscriptStep(x, ranks, A, cs, B)
         IN  /\ IsPortRun(y) /\ Iterates(n, x, y, ranks, cs, B)
             /\ y.transcript = IF Exhausted(x, cs, B) THEN x.transcript
                               ELSE Append(x.transcript, Written(x, ranks, A, cs))
<1> DEFINE best == BestOf(x, ranks, cs)
           sup  == Backers(x, ranks, best)
           step == Written(x, ranks, A, cs)
           y    == TranscriptStep(x, ranks, A, cs, B)
<1>1. /\ n \in Nat /\ DOMAIN ranks = 1 .. n /\ cs \in Seq(Nat \ {0})
      /\ IsPortRun(x) /\ x.weights \in [1 .. n -> Nat] /\ ~x.done /\ A \subseteq 1 .. n
  BY DEF IsRound, InBlocks
<1>2. PickFacts(n, x, ranks, cs)
  BY <1>1, PickIsSound
<1> DEFINE sum  == SupportOf(x, ranks, DOMAIN ranks, cs)
           t    == Append(x.transcript, step)
           next == [x EXCEPT !.transcript = t]
<1>3. BlocksSupport(x, ranks, A, cs) = sum
  BY BlocksAddUp
<1>4. best # None => sum[best] = SumOver(x.weights, sup)
  BY <1>1, <1>2 DEF PickFacts, Backers
<1>5. Argmax(x, sum, cs) = best
  BY <1>1 DEF BestOf
<1>6. y = IF Exhausted(x, cs, B) THEN [x EXCEPT !.done = TRUE]
          ELSE IF best = None
            THEN IF x.level >= Len(cs) THEN [next EXCEPT !.done = TRUE] ELSE [next EXCEPT !.level = @ + 1]
          ELSE Fund(next, sup, best, cs, SumOver(x.weights, sup), 0)
  <2> HIDE DEF sum, best
  <2>1. step = [level |-> x.level, pub |-> SupportOf(x, ranks, A, cs), best |-> best,
                total |-> IF best = None THEN 0 ELSE sum[best]]
    BY <1>4 DEF Written, best, sup
  <2> HIDE DEF step
  <2> QED BY <1>1, <1>3, <1>5, <2>1 DEF TranscriptStep, Backers
<1> HIDE DEF y, sup, step, t, best
<1>7. next = Like(x, x.weights, x.funded, x.spent, x.level, x.done, t)
  BY <1>1, RunFields DEF Like, t
<1>8. /\ IsPortRun(next) /\ next.weights = x.weights /\ next.funded = x.funded /\ next.spent = x.spent
      /\ next.level = x.level /\ next.done = x.done /\ next.transcript = t /\ next.ok = x.ok
  BY <1>7, LikeFields
<1> HIDE DEF next
<1> DEFINE yes == TRUE
<1> HIDE DEF yes
<1>9. CASE Exhausted(x, cs, B)
  <2>1. y = [x EXCEPT !.done = yes]
    BY <1>6, <1>9 DEF yes
  <2>2. y = Like(x, x.weights, x.funded, x.spent, x.level, yes, x.transcript)
    BY <1>1, <2>1, RunFields DEF Like
  <2>3. IsPortRun(y) /\ y.done = yes /\ y.funded = x.funded /\ y.transcript = x.transcript
    BY <2>2, LikeFields
  <2>4. y.done
    BY <2>3 DEF yes
  <2> QED BY <1>9, <2>3, <2>4 DEF Iterates, y
<1>10. CASE ~Exhausted(x, cs, B) /\ best = None /\ x.level >= Len(cs)
  <2>1. y = [next EXCEPT !.done = yes]
    BY <1>6, <1>10 DEF yes
  <2>2. y = Like(next, next.weights, next.funded, next.spent, next.level, yes, next.transcript)
    BY <1>8, <2>1, RunFields DEF Like
  <2>3. IsPortRun(y) /\ y.done = yes /\ y.funded = x.funded /\ y.transcript = t
    BY <1>8, <2>2, LikeFields
  <2>4. y.done
    BY <2>3 DEF yes
  <2> QED BY <1>10, <2>3, <2>4 DEF Iterates, y, best, t, step
<1>11. CASE ~Exhausted(x, cs, B) /\ best = None /\ ~(x.level >= Len(cs))
  <2>1. y = [next EXCEPT !.level = x.level + 1]
    BY <1>6, <1>8, <1>11
  <2> DEFINE l == x.level + 1
  <2> HIDE DEF l
  <2>2. y = Like(next, next.weights, next.funded, next.spent, l, next.done, next.transcript)
    BY <1>8, <2>1, RunFields DEF Like, l
  <2>3. /\ IsPortRun(y) /\ y.weights = x.weights /\ y.funded = x.funded /\ y.spent = x.spent
        /\ y.level = l /\ y.done = x.done /\ y.transcript = t
    BY <1>8, <2>2, LikeFields
  <2> QED BY <1>1, <1>11, <2>3 DEF Iterates, best, y, t, step, l
<1>12. CASE ~Exhausted(x, cs, B) /\ best # None
  <2>1. /\ best \in 1 .. Len(cs)
        /\ SumOver(x.weights, sup) \in Nat \ {0} /\ sup \subseteq 1 .. n
    BY <1>2, <1>12 DEF PickFacts, best, sup
  <2>2. y = Fund(next, sup, best, cs, SumOver(x.weights, sup), 0)
    BY <1>6, <1>12, <2>1
  <2> DEFINE w == PaidRow(n, next.weights, sup, cs[best], SumOver(x.weights, sup), 0)
             f == Append(next.funded, best)
             s == next.spent + cs[best]
  <2>3. CanFund(n, next, sup, best, cs, SumOver(x.weights, sup), 0)
    BY <1>1, <1>8, <2>1 DEF CanFund
  <2>4. y = Like(next, w, f, s, next.level, next.done, next.transcript)
    <3>0. FundFacts(n, next, sup, best, cs, SumOver(x.weights, sup), 0)
      BY <2>3, FundLeaves
    <3>1. y = [weights |-> w, funded |-> f, spent |-> s, level |-> next.level, done |-> next.done,
               transcript |-> next.transcript, ok |-> next.ok]
      BY <2>2, <3>0, Zenon DEF FundFacts
    <3> HIDE DEF w, f, s
    <3> QED BY <3>1 DEF Like
  <2>5. w = Charged(n, x.weights, sup, cs[best]) /\ f = Append(x.funded, best) /\ s = x.spent + cs[best]
    BY <1>8 DEF Charged
  <2> HIDE DEF w, f, s
  <2>6. /\ IsPortRun(y) /\ y.weights = w /\ y.funded = f /\ y.spent = s
        /\ y.level = x.level /\ y.done = x.done /\ y.transcript = t
    BY <1>8, <2>4, LikeFields
  <2> QED BY <1>1, <1>12, <2>5, <2>6 DEF Iterates, best, sup, y, t, step
<1> QED BY <1>9, <1>10, <1>11, <1>12

-----------------------------------------------------------------------------
(* The contract's state, seen by a port.                                   *)

\* The order in which projects were funded lists the funded ones, each once.
OrderInv ==
  /\ \A k \in 1 .. Len(fundedOrder) : fundedOrder[k] \in funded
  /\ \A c \in funded : \E k \in 1 .. Len(fundedOrder) : fundedOrder[k] = c
  /\ IsFiniteSet(funded) /\ Cardinality(funded) = Len(fundedOrder)
  /\ tallyStarted => rankLevel \in 1 .. Len(costs)
  /\ tallyStarted /\ ~tallyDone => ~IsExhausted
  /\ tallyDone => IsExhausted \/ (Eligible(ballot) = {} /\ rankLevel >= Len(costs))

Match(x) ==
  /\ x.weights = RosterWeights(ledger) /\ x.funded = fundedOrder
  /\ x.spent = spent /\ x.level = rankLevel

RosterRanks == RanksOf(Entries)

LEMMA RosterFacts ==
  ASSUME TallyInv
  PROVE  /\ Len(ledger.voters) \in Nat /\ DOMAIN ledger.voters = 1 .. Len(ledger.voters)
         /\ DOMAIN RosterRanks = 1 .. Len(ledger.voters)
         /\ \A i \in 1 .. Len(ledger.voters) :
              /\ ledger.voters[i] \in Voter /\ ledger.weight[ledger.voters[i]] \in Nat
              /\ Entries[i] = [weight |-> initial[ledger.voters[i]], ballot |-> ballot[ledger.voters[i]]]
         /\ costs \in Seq(Nat \ {0}) /\ Len(costs) \in Nat /\ DOMAIN costs = Projects
         /\ RosterWeights(ledger) \in [1 .. Len(ledger.voters) -> Nat]
         /\ spent \in Nat /\ budget \in Nat /\ rankLevel \in Nat
<1>1. ledger \in Ledgers /\ costs \in Seq(Nat \ {0}) /\ spent \in Nat /\ budget \in Nat /\ rankLevel \in Nat
  BY DEF TallyInv, TypeOK
<1>2. Len(costs) \in Nat /\ DOMAIN costs = Projects
  BY <1>1 DEF Projects
<1>3. /\ Len(ledger.voters) \in Nat /\ DOMAIN ledger.voters = 1 .. Len(ledger.voters)
      /\ \A i \in 1 .. Len(ledger.voters) :
           ledger.voters[i] \in Voter /\ ledger.weight[ledger.voters[i]] \in Nat
  BY <1>1 DEF Ledgers
<1>4. RosterWeights(ledger) \in [1 .. Len(ledger.voters) -> Nat]
  BY <1>3 DEF RosterWeights
<1> QED BY <1>1, <1>2, <1>3, <1>4 DEF RosterRanks, RanksOf, Entries

\* The rule that contract and ports check a ballot with.
LEMMA ValidEverywhere ==
  ASSUME TallyInv, NEW b \in Seq(Nat), ValidBallot(b)
  PROVE  Validate(b, Len(costs))
<1> DEFINE m == Len(costs)
<1>1. m \in Nat /\ DOMAIN b = 1 .. m /\ Len(b) = m /\ \A c \in 1 .. m : b[c] \in Nat /\ b[c] \in 0 .. m
  <2>1. m \in Nat
    BY RosterFacts
  <2>2. Len(b) = m /\ \A c \in DOMAIN b : b[c] <= m
    BY DEF ValidBallot
  <2> HIDE DEF m
  <2>3. DOMAIN b = 1 .. m /\ \A c \in 1 .. m : b[c] \in Nat
    BY <2>1, <2>2
  <2> QED BY <2>1, <2>2, <2>3
<1>2. ASSUME NEW r \in 1 .. m, Cardinality({c \in 1 .. m : b[c] = r}) # 0
      PROVE  r = Cardinality({c \in 1 .. m : b[c] \in 1 .. r - 1}) + 1
  <2>1. PICK c \in 1 .. m : b[c] = r
    <3>1. CASE {c \in 1 .. m : b[c] = r} = {}
      BY <1>2, <3>1, FS_EmptySet
    <3> QED BY <3>1
  <2>2. r = Cardinality(RankedBelow(b, r)) + 1
    BY <1>1, <2>1 DEF ValidBallot
  <2>3. RankedBelow(b, r) = {d \in 1 .. m : b[d] \in 1 .. r - 1}
    BY <1>1 DEF RankedBelow
  <2> QED BY <2>2, <2>3
<1> QED BY <1>1, <1>2 DEF Validate

LEMMA EntriesAreValid ==
  ASSUME TallyInv
  PROVE  AllValid(Entries, Len(costs))
<1> SUFFICES ASSUME NEW i \in DOMAIN Entries, Entries[i].ballot # << >>
             PROVE  Validate(Entries[i].ballot, Len(costs))
  BY DEF AllValid
<1>1. i \in 1 .. Len(ledger.voters)
  BY RosterFacts DEF Entries
<1>2. ledger.voters[i] \in Voter /\ Entries[i].ballot = ballot[ledger.voters[i]]
  <2>1. ledger.voters[i] \in Voter
    BY <1>1, RosterFacts
  <2>2. Entries[i] = [weight |-> initial[ledger.voters[i]], ballot |-> ballot[ledger.voters[i]]]
    BY <1>1, RosterFacts
  <2> QED BY <2>1, <2>2
<1>3. ValidBallot(Entries[i].ballot) /\ Entries[i].ballot \in Seq(Nat)
  BY <1>2 DEF TallyInv, InputsInv, BallotsOK, TypeOK
<1> QED BY <1>3, ValidEverywhere

\* A value that fits is not wrapped.
LEMMA NoWrap ==
  ASSUME NEW x \in Nat, NEW y \in Nat, x < y
  PROVE  x % y = x
OBVIOUS

\* The ports keep no uint8; the last tier only wraps when nobody is in it.
LEMMA SameRanks ==
  ASSUME TallyInv, NEW v \in Voter, ballot[v] # << >>
  PROVE  /\ DOMAIN EffectiveRanks(ballot[v]) = Projects
         /\ EffectiveRanks(ballot[v]) # << >>
         /\ \A c \in Projects : EffectiveRanks(ballot[v])[c] = EffectiveRank(ballot, v, c)
<1> DEFINE b == ballot[v]
           m == Len(costs)
           R == {c \in DOMAIN b : b[c] # 0}
<1>1. /\ m \in Nat /\ m <= RankValues - 1 /\ RankValues \in Nat /\ costs # << >>
      /\ DOMAIN b = 1 .. m /\ Projects = 1 .. m /\ b \in Seq(Nat) /\ defaultRank[v] = LastTier(b)
  <2>1. b \in Seq(Nat) /\ ValidBallot(b) /\ defaultRank[v] = LastTier(b) /\ costs # << >>
    BY DEF TallyInv, InputsInv, BallotsOK, TypeOK
  <2>2. m <= RankValues - 1 /\ RankValues \in Nat
    BY RankValuesAssumption DEF TallyInv, InputsInv, MAX_PROJECTS
  <2>3. DOMAIN b = 1 .. m /\ m \in Nat
    BY <2>1, RosterFacts DEF ValidBallot
  <2> QED BY <2>1, <2>2, <2>3 DEF Projects
<1>2. m # 0
  BY <1>1, RosterFacts
<1>3. R \in SUBSET (1 .. m) /\ IsFiniteSet(1 .. m) /\ Cardinality(1 .. m) = m
  <2>1. 1 \in Int /\ m \in Int /\ ~(1 > m) /\ m - 1 + 1 = m
    BY <1>1, <1>2
  <2>2. IsFiniteSet(1 .. m) /\ Cardinality(1 .. m) = m
    BY <2>1, FS_Interval
  <2> QED BY <1>1, <2>2
<1>4. ASSUME NEW c \in Projects, b[c] = 0
      PROVE  1 + Cardinality(R) = defaultRank[v]
  <2>1. R \subseteq (1 .. m) \ {c}
    BY <1>1, <1>4
  <2>2. IsFiniteSet((1 .. m) \ {c}) /\ Cardinality((1 .. m) \ {c}) = m - 1
    BY <1>1, <1>3, FS_RemoveElement
  <2>3. Cardinality(R) <= m - 1 /\ Cardinality(R) \in Nat
    BY <2>1, <2>2, FS_Subset, FS_CardinalityType
  <2> DEFINE k == Cardinality(R)
  <2>4. LastTier(b) = (k + 1) % RankValues
    BY DEF LastTier
  <2> HIDE DEF k
  <2>5. k \in Nat /\ k + 1 < RankValues
    BY <1>1, <2>3 DEF k
  <2>6. (k + 1) % RankValues = k + 1
    <3>1. RankValues \in Nat /\ k + 1 \in Nat /\ k + 1 < RankValues
      BY <1>1, <2>5
    <3> QED BY <3>1, NoWrap
  <2>7. 1 + k = defaultRank[v]
    BY <1>1, <2>4, <2>5, <2>6
  <2> QED BY <2>7 DEF k
<1>5. \A c \in Projects : EffectiveRanks(b)[c] = IF b[c] = 0 THEN 1 + Cardinality(R) ELSE b[c]
  BY <1>1 DEF EffectiveRanks
<1>6. DOMAIN EffectiveRanks(b) = Projects
  BY <1>1 DEF EffectiveRanks
<1>7. EffectiveRanks(b) # << >>
  BY <1>1, <1>2, <1>6
<1> QED BY <1>4, <1>5, <1>6, <1>7 DEF EffectiveRank

\* Whom the contract counts is whom a port counts.
LEMMA MatchBacking ==
  ASSUME TallyInv, NEW x, Match(x), NEW c \in Projects
  PROVE  Backing(ballot, c) = On(x.weights, Backers(x, RosterRanks, c))
<1> DEFINE n == Len(ledger.voters)
           w == x.weights
           S == Backers(x, RosterRanks, c)
           v(i) == ledger.voters[i]
<1>1. /\ n \in Nat /\ DOMAIN RosterRanks = 1 .. n /\ \A i \in 1 .. n : v(i) \in Voter
      /\ w = [i \in 1 .. n |-> ledger.weight[v(i)]] /\ x.level = rankLevel
  BY RosterFacts DEF Match, RosterWeights
<1>2. ASSUME NEW i \in 1 .. n
      PROVE  RosterRanks[i] = IF ballot[v(i)] = << >> THEN << >> ELSE EffectiveRanks(ballot[v(i)])
  <2>1. Entries[i] = [weight |-> initial[v(i)], ballot |-> ballot[v(i)]] /\ i \in DOMAIN Entries
    BY RosterFacts DEF Entries
  <2>2. Entries[i].ballot = ballot[v(i)]
    BY <2>1
  <2> QED BY <2>1, <2>2 DEF RosterRanks, RanksOf
<1>3. ASSUME NEW i \in 1 .. n
      PROVE  i \in S <=> Approves(ballot, v(i), c)
  <2>1. i \in S <=> RosterRanks[i] # << >> /\ ledger.weight[v(i)] # 0 /\ RosterRanks[i][c] <= rankLevel
    BY <1>1 DEF Backers, Supporters
  <2>2. CASE ballot[v(i)] = << >>
    BY <1>2, <2>1, <2>2 DEF Approves
  <2>3. CASE ballot[v(i)] # << >>
    <3>1. RosterRanks[i] = EffectiveRanks(ballot[v(i)])
      BY <1>2, <2>3
    <3>2. /\ EffectiveRanks(ballot[v(i)]) # << >>
          /\ EffectiveRanks(ballot[v(i)])[c] = EffectiveRank(ballot, v(i), c)
      BY <1>1, <2>3, SameRanks
    <3> QED BY <2>1, <2>3, <3>1, <3>2 DEF Approves
  <2> QED BY <2>2, <2>3
<1> HIDE DEF S
<1>4. Backing(ballot, c) = [i \in 1 .. n |-> IF Approves(ballot, v(i), c) THEN ledger.weight[v(i)] ELSE 0]
  BY DEF Backing
<1>5. On(w, S) = [i \in 1 .. n |-> IF i \in S THEN ledger.weight[v(i)] ELSE 0]
  BY <1>1 DEF On
<1>6. Backing(ballot, c) = On(w, S)
  BY <1>3, <1>4, <1>5
<1> QED BY <1>6 DEF S

LEMMA MatchSupport ==
  ASSUME TallyInv, NEW x, Match(x), NEW c \in Projects
  PROVE  Support(ballot, c) = SumOver(x.weights, Backers(x, RosterRanks, c))
<1> DEFINE n == Len(ledger.voters)
<1>1. n \in Nat /\ x.weights \in [1 .. n -> Nat]
  BY RosterFacts DEF Match
<1>2. Len(x.weights) = n
  BY <1>1
<1> QED BY <1>2, MatchBacking DEF Support, SumOver

LEMMA MatchFunded ==
  ASSUME TallyInv, OrderInv, NEW x, Match(x), NEW c
  PROVE  IsFunded(x, c) <=> c \in funded
<1>1. DOMAIN fundedOrder = 1 .. Len(fundedOrder)
  BY DEF TallyInv, TypeOK
<1> QED BY <1>1 DEF IsFunded, Match, OrderInv

LEMMA MatchExhausted ==
  ASSUME TallyInv, OrderInv, NEW x, Match(x)
  PROVE  Exhausted(x, costs, budget) <=> IsExhausted
<1>1. DOMAIN costs = Projects /\ x.spent = spent /\ spent \in Nat /\ budget \in Nat
      /\ \A c \in Projects : costs[c] \in Nat
  BY RosterFacts DEF Match
<1>2. \A c \in Projects : IsFunded(x, c) <=> c \in funded
  BY MatchFunded
<1>3. \A c \in Projects : spent + costs[c] > budget <=> costs[c] > budget - spent
  BY <1>1
<1> QED BY <1>1, <1>2, <1>3 DEF Exhausted, IsExhausted, NothingFits

\* The ports choose the project that the contract chooses.
LEMMA MatchBest ==
  ASSUME TallyInv, OrderInv, NEW x, Match(x)
  PROVE  /\ Eligible(ballot) = {} => BestOf(x, RosterRanks, costs) = None
         /\ Eligible(ballot) # {} => BestOf(x, RosterRanks, costs) = Best(ballot) /\ Best(ballot) # None
<1> DEFINE n    == Len(ledger.voters)
           m    == Len(costs)
           E    == Eligible(ballot)
           sum  == SupportOf(x, RosterRanks, DOMAIN RosterRanks, costs)
           best == BestOf(x, RosterRanks, costs)
           sup  == [c \in Projects |-> Support(ballot, c)]
<1>1. /\ n \in Nat /\ DOMAIN RosterRanks = 1 .. n /\ costs \in Seq(Nat \ {0})
      /\ x.weights \in [1 .. n -> Nat] /\ m \in Nat /\ DOMAIN costs = Projects /\ Projects = 1 .. m
  BY RosterFacts DEF Match, Projects
<1>2. PickFacts(n, x, RosterRanks, costs)
  BY <1>1, PickIsSound
<1>3. sum \in [1 .. m -> Nat]
  BY <1>2 DEF PickFacts
<1>4. \A c \in Projects : ~IsFunded(x, c) => sum[c] = sup[c]
  BY <1>1, <1>2, MatchSupport DEF PickFacts
<1>5. \A c \in Projects : IsFunded(x, c) <=> c \in funded
  BY MatchFunded
<1>6. E = {c \in Projects \ funded : sup[c] >= costs[c]}
  BY DEF Eligible
<1> HIDE DEF sum, sup, E
<1>7. Affordable(x, sum, costs) = E
  BY <1>1, <1>4, <1>5, <1>6 DEF Affordable
<1>8. /\ E = {} => best = None
      /\ E # {} => best \in E /\ \A d \in E : Beats(sum, costs, best, d)
  <2>1. costs \in Seq(Nat) /\ best = Argmax(x, sum, costs)
    BY <1>1 DEF BestOf, sum
  <2> HIDE DEF best
  <2> QED BY <1>3, <1>7, <2>1, ArgmaxIsBest
<1>9. ASSUME E # {} PROVE best = Best(ballot) /\ Best(ballot) # None
  <2>1. best \in E /\ \A d \in E : Beats(sum, costs, best, d)
    BY <1>8, <1>9
  <2>2. \A c \in E : c \in 1 .. m /\ sum[c] = sup[c] /\ sup[c] \in Nat /\ costs[c] \in Nat
    BY <1>1, <1>3, <1>4, <1>5, <1>6
  <2> HIDE DEF best
  <2>3. \A d \in E : Preferred(sup, best, d)
    BY <2>1, <2>2 DEF Preferred, Beats
  <2>4. \A c \in E : (\A d \in E : Preferred(sup, c, d)) => c = best
    <3> TAKE c \in E
    <3> HAVE \A d \in E : Preferred(sup, c, d)
    <3>1. Preferred(sup, c, best) /\ Preferred(sup, best, c)
      BY <2>1, <2>3
    <3> QED BY <2>1, <2>2, <3>1 DEF Preferred
  <2>5. Best(ballot) = CHOOSE c \in E : \A d \in E : Preferred(sup, c, d)
    BY DEF Best, E, sup
  <2>6. Best(ballot) = best
    BY <2>1, <2>3, <2>4, <2>5
  <2> QED BY <2>1, <2>2, <2>6 DEF None
<1> QED BY <1>8, <1>9 DEF E

\* Funding a project takes the same from every voter as in the ports.
LEMMA FundingMatches ==
  ASSUME TallyInv, OrderInv, FundBest(ballot), NEW x, Match(x), NEW y,
         Iterates(Len(ledger.voters), x, y, RosterRanks, costs, budget)
  PROVE  Match(y)' /\ ~y.done
<1> DEFINE n    == Len(ledger.voters)
           best == Best(ballot)
           w    == x.weights
           S    == Backers(x, RosterRanks, best)
           P    == PrefixSum(On(w, S), n)
           D    == Deductions(ballot, best)
<1>1. /\ BestOf(x, RosterRanks, costs) = best /\ best # None
      /\ ~Exhausted(x, costs, budget)
  BY MatchBest, MatchExhausted DEF FundBest, OrderInv
<1>2. /\ best \in Projects
      /\ ledger'.voters = ledger.voters
      /\ \A i \in 1 .. n : ledger'.weight[ledger.voters[i]] = ledger.weight[ledger.voters[i]] - D[i]
  BY FundBestEffect DEF TallyInv
<1>3. /\ y.weights = Charged(n, w, S, costs[best]) /\ y.funded = Append(x.funded, best)
      /\ y.spent = x.spent + costs[best] /\ y.level = x.level /\ ~y.done
  BY <1>1 DEF Iterates
<1>4. /\ n \in Nat /\ w = RosterWeights(ledger) /\ w \in [1 .. n -> Nat]
      /\ x.funded = fundedOrder /\ x.spent = spent /\ x.level = rankLevel
  BY RosterFacts DEF Match
<1>5. Backing(ballot, best) = On(w, S)
  BY <1>2, MatchBacking
<1> HIDE DEF best, S
<1>6. OnFacts(n, w, S)
  BY <1>4, OnTotals
<1>7. P \in [0 .. n -> Nat] /\ SumOver(w, S) = P[n]
  BY <1>6 DEF OnFacts
<1>8. D = [i \in 1 .. n |-> Share(P[i], costs[best], P[n]) - Share(P[i - 1], costs[best], P[n])]
  BY <1>5 DEF Deductions
<1> HIDE DEF P, D, w
<1>9. y.weights = [i \in 1 .. n |-> w[i] - (Share(0 + P[i], costs[best], P[n]) - Share(0 + P[i - 1], costs[best], P[n]))]
  BY <1>3, <1>7 DEF Charged, PaidRow, P
<1>10. \A i \in 1 .. n : 0 + P[i] = P[i] /\ 0 + P[i - 1] = P[i - 1]
  <2> TAKE i \in 1 .. n
  <2>1. P[i] \in Nat /\ P[i - 1] \in Nat
    BY <1>4, <1>7
  <2> QED BY <2>1
<1>11. y.weights = [i \in 1 .. n |-> w[i] - D[i]]
  BY <1>8, <1>9, <1>10
<1>12. RosterWeights(ledger') = [i \in 1 .. n |-> w[i] - D[i]]
  BY <1>2, <1>4 DEF RosterWeights
<1>13. y.weights = RosterWeights(ledger)'
  BY <1>11, <1>12 DEF RosterWeights
<1>14. fundedOrder' = Append(fundedOrder, best) /\ spent' = spent + costs[best] /\ rankLevel' = rankLevel
  BY DEF FundBest, best
<1> QED BY <1>3, <1>4, <1>13, <1>14 DEF Match

LEMMA RaisingMatches ==
  ASSUME TallyInv, OrderInv, RaiseLevel(ballot), NEW x, Match(x), NEW y,
         Iterates(Len(ledger.voters), x, y, RosterRanks, costs, budget)
  PROVE  Match(y)' /\ ~y.done
<1>1. BestOf(x, RosterRanks, costs) = None /\ ~Exhausted(x, costs, budget) /\ ~(x.level >= Len(costs))
  <2>1. ~(rankLevel >= Len(costs))
    BY RosterFacts DEF RaiseLevel
  <2> QED BY <2>1, MatchBest, MatchExhausted DEF RaiseLevel, OrderInv, Match
<1>2. /\ y.weights = x.weights /\ y.funded = x.funded /\ y.spent = x.spent /\ y.level = x.level + 1 /\ ~y.done
  BY <1>1 DEF Iterates
<1>3. UNCHANGED <<ledger, fundedOrder, spent>> /\ rankLevel' = rankLevel + 1
  BY DEF RaiseLevel
<1> QED BY <1>2, <1>3 DEF Match, RosterWeights

\* When the contract is done, a port notices in its next iteration.
LEMMA DoneMatches ==
  ASSUME TallyInv, OrderInv, tallyDone, NEW x, Match(x), NEW y,
         Iterates(Len(ledger.voters), x, y, RosterRanks, costs, budget)
  PROVE  y.done /\ y.funded = fundedOrder
<1>1. Exhausted(x, costs, budget) \/ (BestOf(x, RosterRanks, costs) = None /\ x.level >= Len(costs))
  BY MatchBest, MatchExhausted DEF OrderInv, Match
<1> QED BY <1>1 DEF Iterates, Match

-----------------------------------------------------------------------------
(* The order of the funded projects.                                       *)

LEMMA OrderInit == TallyInit => OrderInv
<1> SUFFICES ASSUME TallyInit PROVE OrderInv
  OBVIOUS
<1>1. funded = {} /\ fundedOrder = << >> /\ ~tallyStarted /\ ~tallyDone
  BY DEF TallyInit
<1>2. IsFiniteSet(funded) /\ Cardinality(funded) = 0 /\ Len(fundedOrder) = 0
  BY <1>1, FS_EmptySet
<1> QED BY <1>1, <1>2 DEF OrderInv

LEMMA OrderStep ==
  ASSUME TallyInv, OrderInv, [TallyNext]_tallySpecVars
  PROVE  OrderInv'
<1>1. CASE StartTally
  <2>1. /\ UNCHANGED <<costs, ballot, spent, funded, fundedOrder>> /\ rankLevel' = 1 /\ tallyStarted'
        /\ (tallyDone' <=> IsExhausted') /\ costs # << >>
    BY <1>1 DEF StartTally, IsExhausted, NothingFits, Projects, ballotVars
  <2>2. Len(costs) \in Nat /\ Len(costs) # 0
    BY <2>1, RosterFacts
  <2>3. rankLevel' \in 1 .. Len(costs)'
    BY <2>1, <2>2
  <2> QED BY <2>1, <2>3 DEF OrderInv
<1>2. CASE FundBest(ballot)
  <2> DEFINE best == Best(ballot)
  <2>1. /\ best \in Projects \ funded
        /\ fundedOrder' = Append(fundedOrder, best) /\ funded' = funded \cup {best}
        /\ UNCHANGED <<costs, rankLevel, tallyStarted, budget>> /\ tallyStarted
        /\ (tallyDone' <=> IsExhausted')
    BY <1>2, FundBestEffect DEF TallyInv, FundBest, IsExhausted, NothingFits, Projects
  <2>2. fundedOrder \in Seq(Projects) /\ Len(fundedOrder) \in Nat
    BY DEF TallyInv, TypeOK
  <2> HIDE DEF best
  <2>3. /\ Len(fundedOrder') = Len(fundedOrder) + 1 /\ fundedOrder'[Len(fundedOrder) + 1] = best
        /\ \A k \in 1 .. Len(fundedOrder) : fundedOrder'[k] = fundedOrder[k]
    BY <2>1, <2>2
  <2>4. IsFiniteSet(funded') /\ Cardinality(funded') = Cardinality(funded) + 1
    BY <2>1, FS_AddElement DEF OrderInv
  <2>5. /\ \A k \in 1 .. Len(fundedOrder') : fundedOrder'[k] \in funded'
        /\ \A c \in funded' : \E k \in 1 .. Len(fundedOrder') : fundedOrder'[k] = c
    <3>1. ASSUME NEW k \in 1 .. Len(fundedOrder') PROVE fundedOrder'[k] \in funded'
      <4>1. CASE k = Len(fundedOrder) + 1
        BY <2>1, <2>3, <4>1
      <4>2. CASE k # Len(fundedOrder) + 1
        <5>1. k \in 1 .. Len(fundedOrder)
          BY <2>2, <2>3, <4>2
        <5> QED BY <2>1, <2>3, <5>1 DEF OrderInv
      <4> QED BY <4>1, <4>2
    <3>2. ASSUME NEW c \in funded' PROVE \E k \in 1 .. Len(fundedOrder') : fundedOrder'[k] = c
      <4>1. CASE c = best
        <5>1. Len(fundedOrder) + 1 \in 1 .. Len(fundedOrder')
          BY <2>2, <2>3
        <5> QED BY <2>3, <4>1, <5>1
      <4>2. CASE c \in funded
        <5>1. PICK k \in 1 .. Len(fundedOrder) : fundedOrder[k] = c
          BY <4>2 DEF OrderInv
        <5>2. k \in 1 .. Len(fundedOrder') /\ fundedOrder'[k] = c
          BY <2>2, <2>3, <5>1
        <5> QED BY <5>2
      <4> QED BY <2>1, <4>1, <4>2
    <3> QED BY <3>1, <3>2
  <2>6. (tallyStarted => rankLevel \in 1 .. Len(costs))'
    BY <2>1 DEF OrderInv
  <2>7. Cardinality(funded') = Len(fundedOrder')
    BY <2>3, <2>4 DEF OrderInv
  <2> QED BY <2>1, <2>4, <2>5, <2>6, <2>7 DEF OrderInv
<1>3. CASE RaiseLevel(ballot)
  <2>1. /\ UNCHANGED <<costs, spent, funded, fundedOrder, budget, tallyStarted, tallyDone>>
        /\ tallyStarted /\ ~tallyDone /\ rankLevel' = rankLevel + 1 /\ rankLevel < Len(costs)
    BY <1>3 DEF RaiseLevel
  <2>2. rankLevel' \in 1 .. Len(costs)
    BY <2>1, RosterFacts DEF OrderInv
  <2>3. IsExhausted' <=> IsExhausted
    BY <2>1 DEF IsExhausted, NothingFits, Projects
  <2> QED BY <2>1, <2>2, <2>3 DEF OrderInv
<1>4. CASE FinishUnsupported(ballot) /\ UNCHANGED initial
  <2>1. /\ UNCHANGED <<costs, ledger, ballot, defaultRank, spent, funded, fundedOrder, budget, tallyStarted, rankLevel>>
        /\ tallyStarted /\ tallyDone' /\ rankLevel >= Len(costs) /\ Eligible(ballot) = {}
    BY <1>4 DEF FinishUnsupported, ballotVars
  <2>2. Eligible(ballot)' = Eligible(ballot)
    BY <2>1 DEF Eligible, Support, Backing, Approves, EffectiveRank, Projects
  <2> QED BY <2>1, <2>2 DEF OrderInv
<1>5. CASE UNCHANGED tallySpecVars
  <2>1. UNCHANGED <<costs, ledger, ballot, defaultRank, spent, funded, fundedOrder, budget, tallyStarted, tallyDone, rankLevel>>
    BY <1>5 DEF tallySpecVars, engineVars, ballotVars, tallyVars
  <2>2. Eligible(ballot)' = Eligible(ballot) /\ (IsExhausted' <=> IsExhausted)
    BY <2>1 DEF Eligible, Support, Backing, Approves, EffectiveRank, Projects, IsExhausted, NothingFits
  <2> QED BY <2>1, <2>2 DEF OrderInv
<1> QED BY <1>1, <1>2, <1>3, <1>4, <1>5 DEF TallyNext, Step

-----------------------------------------------------------------------------
(* The loops of the ports.                                                 *)

\* The loops of the reference and of shared/pbear.ts unfold as their definitions say.
LEMMA OneBlockUnfold ==
  ASSUME NEW cs, NEW entries, NEW B, Len(cs) \in Nat
  PROVE  /\ OneBlockRuns(cs, entries, B)[0] = NewRun(entries)
         /\ \A i \in 1 .. Bound(Len(cs)) : OneBlockRuns(cs, entries, B)[i] = OneBlockStep(OneBlockRuns(cs, entries, B)[i - 1], RanksOf(entries), cs, B)
<1> DEFINE n == Bound(Len(cs))
           After(x, i) == OneBlockStep(x, RanksOf(entries), cs, B)
           IsLoop(p, k) == p = [i \in 0 .. k |-> IF i = 0 THEN NewRun(entries) ELSE After(p[i - 1], i)]
           G == {k \in Nat : \E p : IsLoop(p, k)}
<1>0. n \in Nat
  BY DEF Bound
<1> HIDE DEF After
<1>1. 0 \in G
  <2> DEFINE p == [i \in 0 .. 0 |-> NewRun(entries)]
  <2>1. IsLoop(p, 0)
    OBVIOUS
  <2> HIDE DEF IsLoop
  <2> QED BY <2>1
<1>2. ASSUME NEW k \in G PROVE k + 1 \in G
  <2>1. PICK p : IsLoop(p, k)
    OBVIOUS
  <2> DEFINE q == [i \in 0 .. (k + 1) |-> IF i = k + 1 THEN After(p[k], k + 1) ELSE p[i]]
  <2>2. \A i \in 0 .. (k + 1) : q[i] = IF i = 0 THEN NewRun(entries) ELSE After(q[i - 1], i)
    <3> TAKE i \in 0 .. (k + 1)
    <3>1. CASE i = k + 1
      <4>1. q[i] = After(p[k], k + 1) /\ q[i - 1] = p[k] /\ i # 0
        BY <3>1
      <4> HIDE DEF q
      <4> QED BY <3>1, <4>1
    <3>2. CASE i # k + 1
      <4>1. i \in 0 .. k /\ q[i] = p[i] /\ (i # 0 => q[i - 1] = p[i - 1])
        BY <3>2
      <4>2. p[i] = IF i = 0 THEN NewRun(entries) ELSE After(p[i - 1], i)
        BY <4>1, <2>1
      <4> HIDE DEF q
      <4> QED BY <4>1, <4>2
    <3> QED BY <3>1, <3>2
  <2>3. IsLoop(q, k + 1)
    <3>1. q = [i \in 0 .. (k + 1) |-> q[i]]
      OBVIOUS
    <3> HIDE DEF q
    <3> QED BY <2>2, <3>1
  <2> HIDE DEF q, IsLoop
  <2> QED BY <2>3
<1>3. \E p : IsLoop(p, n)
  <2>1. G = Nat
    <3> HIDE DEF G
    <3> G \in SUBSET Nat
      BY DEF G
    <3> QED BY <1>1, <1>2, InductionOnSets
  <2> HIDE DEF IsLoop
  <2> QED BY <1>0, <2>1
<1> DEFINE loop == CHOOSE p : IsLoop(p, n)
<1>4. IsLoop(loop, n)
  <2> HIDE DEF IsLoop
  <2> QED BY <1>3
<1>5. OneBlockRuns(cs, entries, B) = loop
  BY Zenon DEF OneBlockRuns, After
<1> HIDE DEF loop
<1>6. loop[0] = NewRun(entries) /\ \A i \in 1 .. n : loop[i] = After(loop[i - 1], i)
  BY <1>0, <1>4
<1> QED BY <1>5, <1>6 DEF After

\* The same of shared/pbear.ts.
LEMMA TranscriptUnfold ==
  ASSUME NEW cs, NEW pub, NEW sealed, NEW B, Len(cs) \in Nat
  PROVE  /\ TranscriptRuns(cs, pub, sealed, B)[0] = NewRun(pub \o sealed)
         /\ \A i \in 1 .. Bound(Len(cs)) : TranscriptRuns(cs, pub, sealed, B)[i] = TranscriptStep(TranscriptRuns(cs, pub, sealed, B)[i - 1], RanksOf(pub \o sealed), DOMAIN pub, cs, B)
<1> DEFINE n == Bound(Len(cs))
           After(x, i) == TranscriptStep(x, RanksOf(pub \o sealed), DOMAIN pub, cs, B)
           IsLoop(p, k) == p = [i \in 0 .. k |-> IF i = 0 THEN NewRun(pub \o sealed) ELSE After(p[i - 1], i)]
           G == {k \in Nat : \E p : IsLoop(p, k)}
<1>0. n \in Nat
  BY DEF Bound
<1> HIDE DEF After
<1>1. 0 \in G
  <2> DEFINE p == [i \in 0 .. 0 |-> NewRun(pub \o sealed)]
  <2>1. IsLoop(p, 0)
    OBVIOUS
  <2> HIDE DEF IsLoop
  <2> QED BY <2>1
<1>2. ASSUME NEW k \in G PROVE k + 1 \in G
  <2>1. PICK p : IsLoop(p, k)
    OBVIOUS
  <2> DEFINE q == [i \in 0 .. (k + 1) |-> IF i = k + 1 THEN After(p[k], k + 1) ELSE p[i]]
  <2>2. \A i \in 0 .. (k + 1) : q[i] = IF i = 0 THEN NewRun(pub \o sealed) ELSE After(q[i - 1], i)
    <3> TAKE i \in 0 .. (k + 1)
    <3>1. CASE i = k + 1
      <4>1. q[i] = After(p[k], k + 1) /\ q[i - 1] = p[k] /\ i # 0
        BY <3>1
      <4> HIDE DEF q
      <4> QED BY <3>1, <4>1
    <3>2. CASE i # k + 1
      <4>1. i \in 0 .. k /\ q[i] = p[i] /\ (i # 0 => q[i - 1] = p[i - 1])
        BY <3>2
      <4>2. p[i] = IF i = 0 THEN NewRun(pub \o sealed) ELSE After(p[i - 1], i)
        BY <4>1, <2>1
      <4> HIDE DEF q
      <4> QED BY <4>1, <4>2
    <3> QED BY <3>1, <3>2
  <2>3. IsLoop(q, k + 1)
    <3>1. q = [i \in 0 .. (k + 1) |-> q[i]]
      OBVIOUS
    <3> HIDE DEF q
    <3> QED BY <2>2, <3>1
  <2> HIDE DEF q, IsLoop
  <2> QED BY <2>3
<1>3. \E p : IsLoop(p, n)
  <2>1. G = Nat
    <3> HIDE DEF G
    <3> G \in SUBSET Nat
      BY DEF G
    <3> QED BY <1>1, <1>2, InductionOnSets
  <2> HIDE DEF IsLoop
  <2> QED BY <1>0, <2>1
<1> DEFINE loop == CHOOSE p : IsLoop(p, n)
<1>4. IsLoop(loop, n)
  <2> HIDE DEF IsLoop
  <2> QED BY <1>3
<1>5. TranscriptRuns(cs, pub, sealed, B) = loop
  BY Zenon DEF TranscriptRuns, After
<1> HIDE DEF loop
<1>6. loop[0] = NewRun(pub \o sealed) /\ \A i \in 1 .. n : loop[i] = After(loop[i - 1], i)
  BY <1>0, <1>4
<1> QED BY <1>5, <1>6 DEF After

-----------------------------------------------------------------------------
(* Keeping up with the contract.                                           *)

\* r[j] is what a port of the tally has after j iterations.
Follows(r) ==
  LET n == Len(ledger.voters)
  IN  /\ IsPortRun(r[0])
      /\ r[0].weights = [i \in 1 .. n |-> initial[ledger.voters[i]]]
      /\ r[0].funded = << >> /\ r[0].spent = 0 /\ r[0].level = 1 /\ ~r[0].done
      /\ \A j \in 1 .. Bound(Len(costs)) :
           /\ r[j - 1].done => r[j] = r[j - 1]
           /\ IsRound(n, r[j - 1], RosterRanks, costs, budget)
                => IsPortRun(r[j]) /\ Iterates(n, r[j - 1], r[j], RosterRanks, costs, budget)

\* The steps the contract has made, of which every one funds or raises the level.
Made == Len(fundedOrder) + rankLevel - 1

\* A port does in its iterations what the contract does in its steps.
KeepsUp(r, k) == Match(r[k]) /\ IsPortRun(r[k]) /\ ~r[k].done

SimInv == tallyStarted => \A r : Follows(r) => KeepsUp(r, Made)

PortInv == TallyInv /\ OrderInv /\ SimInv

LEMMA MadeBound ==
  ASSUME TallyInv, OrderInv, tallyStarted
  PROVE  /\ Len(costs) \in Nat /\ Bound(Len(costs)) \in Nat
         /\ Made \in 0 .. 2 * Len(costs) - 1
         /\ Made + 1 \in 1 .. Bound(Len(costs)) /\ Made + 1 <= Bound(Len(costs)) /\ Made \in Nat
<1> DEFINE m == Len(costs)
<1>1. m \in Nat /\ Len(fundedOrder) \in Nat /\ rankLevel \in 1 .. m /\ funded \in SUBSET (1 .. m)
  BY RosterFacts DEF TallyInv, TypeOK, OrderInv, Projects
<1>2. IsFiniteSet(1 .. m) /\ Cardinality(1 .. m) = m
  <2>1. 1 \in Int /\ m \in Int /\ ~(1 > m) /\ m - 1 + 1 = m
    BY <1>1
  <2> QED BY <2>1, FS_Interval
<1>3. Cardinality(funded) <= m
  BY <1>1, <1>2, FS_Subset
<1>4. Len(fundedOrder) <= m
  BY <1>3 DEF OrderInv
<1> QED BY <1>1, <1>4 DEF Made, Bound

\* What a port has after the iteration of the contract's next step.
LEMMA NextIteration ==
  ASSUME TallyInv, NEW r, Follows(r), NEW k \in Nat, k + 1 <= Bound(Len(costs)), KeepsUp(r, k)
  PROVE  IsPortRun(r[k + 1]) /\ Iterates(Len(ledger.voters), r[k], r[k + 1], RosterRanks, costs, budget)
<1> DEFINE n == Len(ledger.voters)
<1>1. IsRound(n, r[k], RosterRanks, costs, budget)
  BY RosterFacts DEF KeepsUp, Match, IsRound
<1>2. k + 1 \in 1 .. Bound(Len(costs)) /\ (k + 1) - 1 = k
  BY RosterFacts DEF Bound
<1>3. IsRound(n, r[(k + 1) - 1], RosterRanks, costs, budget)
         => IsPortRun(r[k + 1]) /\ Iterates(n, r[(k + 1) - 1], r[k + 1], RosterRanks, costs, budget)
  BY <1>2 DEF Follows
<1> QED BY <1>1, <1>2, <1>3

\* The inputs of the ports stay once the tally has started.
LEMMA FollowsStays ==
  ASSUME NEW r, Follows(r)', UNCHANGED <<costs, ballot, initial, budget>>, ledger'.voters = ledger.voters
  PROVE  Follows(r)
<1>1. RosterRanks' = RosterRanks
  BY DEF RosterRanks, RanksOf, Entries
<1>2. \A x, y, n : Iterates(n, x, y, RosterRanks, costs, budget)' <=> Iterates(n, x, y, RosterRanks, costs, budget)
  BY <1>1 DEF Iterates
<1>3. \A x, n : IsRound(n, x, RosterRanks, costs, budget)' <=> IsRound(n, x, RosterRanks, costs, budget)
  BY <1>1 DEF IsRound
<1> QED BY <1>1, <1>2, <1>3 DEF Follows

\* Every step of the contract is one iteration of every port.
LEMMA PortsKeepUp ==
  ASSUME PortInv, [TallyNext]_tallySpecVars
  PROVE  SimInv'
<1> USE DEF PortInv
<1>1. CASE StartTally /\ UNCHANGED initial
  <2>1. /\ ~tallyStarted /\ rankLevel' = 1
        /\ UNCHANGED <<costs, ballot, ledger, spent, funded, fundedOrder, initial>>
    BY <1>1 DEF StartTally, ballotVars
  <2>2. initial = ledger.weight /\ spent = 0 /\ fundedOrder = << >>
    BY <2>1 DEF TallyInv, InputsInv, EngineInv
  <2>3. Made' = 0
    BY <2>1, <2>2 DEF Made
  <2> SUFFICES ASSUME NEW r, Follows(r)' PROVE KeepsUp(r, Made)'
    BY DEF SimInv
  <2>4. /\ IsPortRun(r[0]) /\ r[0].weights = [i \in 1 .. Len(ledger.voters) |-> initial[ledger.voters[i]]]
        /\ r[0].funded = << >> /\ r[0].spent = 0 /\ r[0].level = 1 /\ ~r[0].done
    BY <2>1 DEF Follows
  <2>5. Match(r[0])'
    BY <2>1, <2>2, <2>4 DEF Match, RosterWeights
  <2> QED BY <2>3, <2>4, <2>5 DEF KeepsUp
<1>2. CASE FundBest(ballot) /\ UNCHANGED initial
  <2>1. /\ UNCHANGED <<costs, ballot, initial, budget, rankLevel>> /\ ledger'.voters = ledger.voters /\ tallyStarted
        /\ fundedOrder' = Append(fundedOrder, Best(ballot))
    BY <1>2, FundBestEffect DEF FundBest, ballotVars, TallyInv
  <2>2. Made' = Made + 1
    <3>1. Len(fundedOrder) \in Nat /\ rankLevel \in Nat /\ Len(fundedOrder') = Len(fundedOrder) + 1
      BY <2>1 DEF TallyInv, TypeOK
    <3> QED BY <2>1, <3>1 DEF Made
  <2> SUFFICES ASSUME NEW r, Follows(r)' PROVE KeepsUp(r, Made)'
    BY DEF SimInv
  <2>3. Follows(r)
    BY <2>1, FollowsStays
  <2>4. Made \in Nat /\ Made + 1 <= Bound(Len(costs)) /\ KeepsUp(r, Made)
    BY <2>1, <2>3, MadeBound DEF SimInv
  <2>5. PICK k \in Nat : k = Made
    BY <2>4
  <2>6. PICK x, y : x = r[k] /\ y = r[k + 1]
    OBVIOUS
  <2>7. IsPortRun(y) /\ Iterates(Len(ledger.voters), x, y, RosterRanks, costs, budget) /\ Match(x)
    BY <2>3, <2>4, <2>5, <2>6, NextIteration DEF KeepsUp
  <2>8. Match(y)' /\ ~y.done
    BY <1>2, <2>7, FundingMatches
  <2>9. Made' = k + 1
    BY <2>2, <2>5
  <2> QED BY <2>6, <2>7, <2>8, <2>9 DEF KeepsUp
<1>3. CASE RaiseLevel(ballot) /\ UNCHANGED initial
  <2>1. /\ UNCHANGED <<costs, ballot, initial, budget, ledger, fundedOrder>> /\ tallyStarted
        /\ rankLevel' = rankLevel + 1
    BY <1>3 DEF RaiseLevel, ballotVars
  <2>2. Made' = Made + 1
    <3>1. Len(fundedOrder) \in Nat /\ rankLevel \in Nat
      BY DEF TallyInv, TypeOK
    <3> QED BY <2>1, <3>1 DEF Made
  <2> SUFFICES ASSUME NEW r, Follows(r)' PROVE KeepsUp(r, Made)'
    BY DEF SimInv
  <2>3. Follows(r)
    BY <2>1, FollowsStays
  <2>4. Made \in Nat /\ Made + 1 <= Bound(Len(costs)) /\ KeepsUp(r, Made)
    BY <2>1, <2>3, MadeBound DEF SimInv
  <2>5. PICK k \in Nat : k = Made
    BY <2>4
  <2>6. PICK x, y : x = r[k] /\ y = r[k + 1]
    OBVIOUS
  <2>7. IsPortRun(y) /\ Iterates(Len(ledger.voters), x, y, RosterRanks, costs, budget) /\ Match(x)
    BY <2>3, <2>4, <2>5, <2>6, NextIteration DEF KeepsUp
  <2>8. Match(y)' /\ ~y.done
    BY <1>3, <2>7, RaisingMatches
  <2>9. Made' = k + 1
    BY <2>2, <2>5
  <2> QED BY <2>6, <2>7, <2>8, <2>9 DEF KeepsUp
<1>4. CASE (FinishUnsupported(ballot) /\ UNCHANGED initial) \/ UNCHANGED tallySpecVars
  <2>1. UNCHANGED <<costs, ballot, initial, budget, ledger, fundedOrder, spent, rankLevel, tallyStarted>>
    BY <1>4 DEF FinishUnsupported, ballotVars, tallySpecVars, engineVars, tallyVars
  <2>2. Made' = Made
    BY <2>1 DEF Made
  <2> SUFFICES ASSUME NEW r, Follows(r)', tallyStarted' PROVE KeepsUp(r, Made)'
    BY DEF SimInv
  <2>3. KeepsUp(r, Made)
    BY <2>1, FollowsStays DEF SimInv
  <2> QED BY <2>1, <2>2, <2>3 DEF KeepsUp, Match, RosterWeights
<1> QED BY <1>1, <1>2, <1>3, <1>4 DEF TallyNext, Step

LEMMA PortInvariant == TallySpec => []PortInv
<1>1. TallyInit => PortInv
  <2>1. TallyInit => ~tallyStarted
    BY DEF TallyInit
  <2> QED BY <2>1, TallyInitial, OrderInit DEF PortInv, SimInv
<1>2. PortInv /\ [TallyNext]_tallySpecVars => PortInv'
  <2> SUFFICES ASSUME PortInv, [TallyNext]_tallySpecVars PROVE PortInv'
    OBVIOUS
  <2>1. TallyInv' /\ OrderInv'
    BY NextPreserves, OrderStep DEF PortInv
  <2>2. SimInv'
    BY PortsKeepUp
  <2> QED BY <2>1, <2>2 DEF PortInv
<1> QED BY <1>1, <1>2, PTL DEF TallySpec

\* When the contract is done every port has its result in the end.
LEMMA PortsEnd ==
  ASSUME PortInv, tallyDone, NEW r, Follows(r)
  PROVE  r[Bound(Len(costs))].funded = fundedOrder
<1> DEFINE b == Bound(Len(costs))
           k == Made + 1
<1>1. tallyStarted /\ TallyInv /\ OrderInv
  BY DEF PortInv, TallyInv, EngineInv
<1>2. b \in Nat /\ Made \in Nat /\ k \in 1 .. b /\ k <= b /\ KeepsUp(r, Made)
  BY <1>1, MadeBound DEF PortInv, SimInv
<1>3. r[k].done /\ r[k].funded = fundedOrder
  <2>1. Iterates(Len(ledger.voters), r[Made], r[k], RosterRanks, costs, budget) /\ Match(r[Made])
    BY <1>1, <1>2, NextIteration DEF KeepsUp
  <2>2. PICK x, y : x = r[Made] /\ y = r[k]
    OBVIOUS
  <2>3. y.done /\ y.funded = fundedOrder
    BY <1>1, <2>1, <2>2, DoneMatches
  <2> QED BY <2>2, <2>3
<1> DEFINE G == {j \in Nat : k + j <= b => r[k + j] = r[k]}
<1> HIDE DEF k, b
<1>4. 0 \in G
  BY <1>2
<1>5. ASSUME NEW j \in G PROVE j + 1 \in G
  <2> SUFFICES ASSUME k + (j + 1) <= b PROVE r[k + (j + 1)] = r[k]
    OBVIOUS
  <2>1. j \in Nat /\ r[k + j] = r[k]
    BY <1>2
  <2>2. k + (j + 1) \in 1 .. b /\ (k + (j + 1)) - 1 = k + j
    BY <1>2, <2>1
  <2>3. r[(k + (j + 1)) - 1].done => r[k + (j + 1)] = r[(k + (j + 1)) - 1]
    BY <2>2 DEF Follows, b
  <2> QED BY <1>3, <2>1, <2>2, <2>3
<1>6. G = Nat
  <2> HIDE DEF G
  <2>1. G \in SUBSET Nat
    BY DEF G
  <2> QED BY <1>4, <1>5, <2>1, InductionOnSets
<1>7. b - k \in Nat /\ k + (b - k) = b
  BY <1>2
<1>8. r[b] = r[k]
  <2>1. k + (b - k) <= b => r[k + (b - k)] = r[k]
    BY <1>6, <1>7
  <2> QED BY <1>2, <1>7, <2>1
<1> QED BY <1>3, <1>8 DEF b

\* What every port starts from.
LEMMA FreshRun ==
  ASSUME NEW entries
  PROVE  LET x == NewRun(entries)
         IN  /\ IsPortRun(x) /\ x.weights = [i \in DOMAIN entries |-> entries[i].weight]
             /\ x.funded = << >> /\ x.spent = 0 /\ x.level = 1 /\ ~x.done /\ x.transcript = << >>
<1> DEFINE w == [i \in DOMAIN entries |-> entries[i].weight]
           no == FALSE
           yes == TRUE
           x == NewRun(entries)
<1>1. x = [weights |-> w, funded |-> << >>, spent |-> 0, level |-> 1, done |-> no,
           transcript |-> << >>, ok |-> yes]
  BY DEF NewRun
<1> HIDE DEF w, no, yes, x
<1>2. /\ x.weights = w /\ x.funded = << >> /\ x.spent = 0 /\ x.level = 1 /\ x.done = no
      /\ x.transcript = << >> /\ x.ok = yes
  BY <1>1
<1>3. IsPortRun(x)
  BY <1>1, <1>2 DEF IsPortRun
<1>4. ~x.done
  BY <1>2 DEF no
<1> QED BY <1>2, <1>3, <1>4 DEF x, w

LEMMA EntryWeights ==
  ASSUME TallyInv
  PROVE  /\ DOMAIN Entries = 1 .. Len(ledger.voters) /\ Entries = [i \in 1 .. Len(ledger.voters) |-> Entries[i]]
         /\ [i \in DOMAIN Entries |-> Entries[i].weight] = [i \in 1 .. Len(ledger.voters) |-> initial[ledger.voters[i]]]
         /\ Len(Entries) = Len(ledger.voters)
<1>1. DOMAIN Entries = 1 .. Len(ledger.voters) /\ Len(ledger.voters) \in Nat
  BY RosterFacts DEF Entries
<1>2. ASSUME NEW i \in 1 .. Len(ledger.voters) PROVE Entries[i].weight = initial[ledger.voters[i]]
  <2>1. Entries[i] = [weight |-> initial[ledger.voters[i]], ballot |-> ballot[ledger.voters[i]]]
    BY RosterFacts
  <2> QED BY <2>1
<1>3. Entries = [i \in 1 .. Len(ledger.voters) |-> Entries[i]]
  BY RosterFacts DEF Entries
<1>4. Len(Entries) = Len(ledger.voters)
  BY <1>1, <1>3
<1> QED BY <1>1, <1>2, <1>3, <1>4

\* The loop of the reference and the Rust crate is such a port.
LEMMA OneBlockFollows ==
  ASSUME TallyInv
  PROVE  Follows(OneBlockRuns(costs, Entries, budget))
<1> DEFINE r == OneBlockRuns(costs, Entries, budget)
           n == Len(ledger.voters)
<1>1. Len(costs) \in Nat
  BY RosterFacts
<1>2. /\ r[0] = NewRun(Entries)
      /\ \A i \in 1 .. Bound(Len(costs)) : r[i] = OneBlockStep(r[i - 1], RosterRanks, costs, budget)
  BY <1>1, OneBlockUnfold DEF RosterRanks
<1> HIDE DEF r
<1>3. /\ IsPortRun(r[0]) /\ r[0].weights = [i \in 1 .. n |-> initial[ledger.voters[i]]]
      /\ r[0].funded = << >> /\ r[0].spent = 0 /\ r[0].level = 1 /\ ~r[0].done
  BY <1>2, FreshRun, EntryWeights
<1>4. ASSUME NEW j \in 1 .. Bound(Len(costs))
      PROVE  /\ r[j - 1].done => r[j] = r[j - 1]
             /\ IsRound(n, r[j - 1], RosterRanks, costs, budget)
                  => IsPortRun(r[j]) /\ Iterates(n, r[j - 1], r[j], RosterRanks, costs, budget)
  <2>1. r[j] = OneBlockStep(r[j - 1], RosterRanks, costs, budget)
    BY <1>2
  <2>2. PICK x, y : x = r[j - 1] /\ y = r[j]
    OBVIOUS
  <2>3. y = OneBlockStep(x, RosterRanks, costs, budget)
    BY <2>1, <2>2
  <2>4. x.done => y = x
    BY <2>3 DEF OneBlockStep
  <2>5. IsRound(n, x, RosterRanks, costs, budget) => IsPortRun(y) /\ Iterates(n, x, y, RosterRanks, costs, budget)
    BY <2>3, OneBlockIterates
  <2> QED BY <2>2, <2>4, <2>5
<1> QED BY <1>3, <1>4 DEF Follows, r

\* Wherever the entries are cut, together they are the roster's.
LEMMA CutEntries ==
  ASSUME TallyInv, NEW n \in 0 .. Len(Entries)
  PROVE  LET pub    == SubSeq(Entries, 1, n)
             sealed == SubSeq(Entries, n + 1, Len(Entries))
         IN  pub \o sealed = Entries /\ DOMAIN pub \subseteq 1 .. Len(ledger.voters)
<1> DEFINE N == Len(ledger.voters)
           T == {Entries[i] : i \in 1 .. N}
<1>1. /\ N \in Nat /\ Len(Entries) = N /\ DOMAIN Entries = 1 .. N
      /\ Entries = [i \in 1 .. N |-> Entries[i]]
  BY RosterFacts, EntryWeights
<1>2. Entries \in Seq(T)
  <2>1. \A i \in 1 .. N : Entries[i] \in T
    OBVIOUS
  <2> HIDE DEF T
  <2>2. Entries \in [1 .. N -> T]
    BY <1>1, <2>1
  <2> QED BY <1>1, <2>2
<1> HIDE DEF T
<1>3. n \in Nat /\ n <= N
  BY <1>1
<1>4. SubSeq(Entries, 1, n) \o SubSeq(Entries, n + 1, Len(Entries)) = SubSeq(Entries, 1, Len(Entries))
  <2>1. 1 \in 1 .. Len(Entries) + 1 /\ n \in 1 - 1 .. Len(Entries) /\ Len(Entries) \in n .. Len(Entries)
    BY <1>1, <1>3
  <2> QED BY <1>2, <2>1, ConcatAdjacentSubSeq
<1>5. SubSeq(Entries, 1, Len(Entries)) = Entries
  BY <1>2, SubSeqFull
<1>6. Len(SubSeq(Entries, 1, n)) = n /\ SubSeq(Entries, 1, n) \in Seq(T)
  <2>1. \A i \in 1 .. n : Entries[i] \in T
    BY <1>1, <1>3 DEF T
  <2>2. 1 \in Int /\ n \in Int
    BY <1>3
  <2>3. SubSeq(Entries, 1, n) \in Seq(T) /\ Len(SubSeq(Entries, 1, n)) = IF 1 <= n THEN n - 1 + 1 ELSE 0
    BY <2>1, <2>2, SubSeqProperties
  <2> QED BY <1>3, <2>3
<1>7. DOMAIN SubSeq(Entries, 1, n) = 1 .. n
  BY <1>6
<1>8. 1 .. n \subseteq 1 .. N
  BY <1>1, <1>3
<1>9. SubSeq(Entries, 1, n) \o SubSeq(Entries, n + 1, Len(Entries)) = Entries
  BY <1>4, <1>5
<1> QED BY <1>7, <1>8, <1>9

\* So is the loop of shared/pbear.ts, wherever its public block ends.
LEMMA TranscriptFollows ==
  ASSUME TallyInv, NEW n \in 0 .. Len(Entries)
  PROVE  Follows(TranscriptRuns(costs, SubSeq(Entries, 1, n), SubSeq(Entries, n + 1, Len(Entries)), budget))
<1> DEFINE pub    == SubSeq(Entries, 1, n)
           sealed == SubSeq(Entries, n + 1, Len(Entries))
           A      == DOMAIN pub
           r      == TranscriptRuns(costs, pub, sealed, budget)
           N      == Len(ledger.voters)
<1>1. Len(costs) \in Nat
  BY RosterFacts
<1>2. pub \o sealed = Entries /\ A \subseteq 1 .. N
  BY CutEntries
<1> HIDE DEF pub, sealed
<1>3. /\ r[0] = NewRun(Entries)
      /\ \A i \in 1 .. Bound(Len(costs)) : r[i] = TranscriptStep(r[i - 1], RosterRanks, A, costs, budget)
  <2>1. /\ r[0] = NewRun(pub \o sealed)
        /\ \A i \in 1 .. Bound(Len(costs)) :
             r[i] = TranscriptStep(r[i - 1], RanksOf(pub \o sealed), DOMAIN pub, costs, budget)
    BY <1>1, TranscriptUnfold
  <2> HIDE DEF r
  <2> QED BY <1>2, <2>1 DEF RosterRanks
<1> HIDE DEF r, A
<1>4. /\ IsPortRun(r[0]) /\ r[0].weights = [i \in 1 .. N |-> initial[ledger.voters[i]]]
      /\ r[0].funded = << >> /\ r[0].spent = 0 /\ r[0].level = 1 /\ ~r[0].done
  <2>1. /\ IsPortRun(NewRun(Entries))
        /\ NewRun(Entries).weights = [i \in DOMAIN Entries |-> Entries[i].weight]
        /\ NewRun(Entries).funded = << >> /\ NewRun(Entries).spent = 0 /\ NewRun(Entries).level = 1
        /\ ~NewRun(Entries).done
    BY FreshRun
  <2>2. [i \in DOMAIN Entries |-> Entries[i].weight] = [i \in 1 .. N |-> initial[ledger.voters[i]]]
    BY EntryWeights
  <2> QED BY <1>3, <2>1, <2>2
<1>5. ASSUME NEW j \in 1 .. Bound(Len(costs))
      PROVE  /\ r[j - 1].done => r[j] = r[j - 1]
             /\ IsRound(N, r[j - 1], RosterRanks, costs, budget)
                  => IsPortRun(r[j]) /\ Iterates(N, r[j - 1], r[j], RosterRanks, costs, budget)
  <2>1. r[j] = TranscriptStep(r[j - 1], RosterRanks, A, costs, budget)
    BY <1>3
  <2>2. PICK x, y : x = r[j - 1] /\ y = r[j]
    OBVIOUS
  <2>3. y = TranscriptStep(x, RosterRanks, A, costs, budget)
    BY <2>1, <2>2
  <2>4. x.done => y = x
    BY <2>3 DEF TranscriptStep
  <2>5. ASSUME IsRound(N, x, RosterRanks, costs, budget)
        PROVE  IsPortRun(y) /\ Iterates(N, x, y, RosterRanks, costs, budget)
    <3>1. InBlocks(N, x, RosterRanks, A, costs, budget)
      BY <1>2, <2>5 DEF InBlocks
    <3> QED BY <2>3, <3>1, TranscriptIterates
  <2> QED BY <2>2, <2>4, <2>5
<1> QED BY <1>4, <1>5 DEF Follows, r, pub, sealed

-----------------------------------------------------------------------------
(* The budget that each port is given.                                     *)

\* What the roster held when the tally started.
Stake == Sum([i \in DOMAIN Entries |-> Entries[i].weight], Len(Entries))

StakeInv == tallyStarted => Stake <= budget

LEMMA StakeIsWeighed ==
  ASSUME TallyInv
  PROVE  /\ Stake \in Nat /\ SumOver(NewRun(Entries).weights, DOMAIN Entries) = Stake
         /\ Stake = Sum([i \in 1 .. Len(ledger.voters) |-> initial[ledger.voters[i]]], Len(ledger.voters))
<1> DEFINE w == [i \in DOMAIN Entries |-> Entries[i].weight]
           n == Len(ledger.voters)
<1>1. n \in Nat /\ DOMAIN Entries = 1 .. n /\ Len(Entries) = n /\ w = [i \in 1 .. n |-> initial[ledger.voters[i]]]
  BY RosterFacts, EntryWeights
<1>2. w \in [1 .. n -> Nat]
  <2>1. \A i \in 1 .. n : initial[ledger.voters[i]] \in Nat
    BY RosterFacts DEF TallyInv, TypeOK
  <2> QED BY <1>1, <2>1
<1>3. NewRun(Entries).weights = w
  BY FreshRun
<1>4. Stake = Sum(w, n)
  BY <1>1 DEF Stake
<1> HIDE DEF w
<1>5. On(w, 1 .. n) = w /\ Len(w) = n
  BY <1>1, <1>2 DEF On
<1>6. SumOver(w, 1 .. n) = Sum(w, n)
  BY <1>5 DEF SumOver
<1>7. Sum(w, n) \in Nat
  BY <1>1, <1>2, SumNat
<1> QED BY <1>1, <1>3, <1>4, <1>6, <1>7

\* What is granted is on the roster when the tally starts, and never more than was deposited.
LEMMA StakeStays ==
  ASSUME TallyInv, StakeInv, [TallyNext]_tallySpecVars
  PROVE  StakeInv'
<1>1. CASE StartTally /\ UNCHANGED initial
  <2>1. ~tallyStarted /\ budget' = ledger.total /\ UNCHANGED <<ballot, ledger, initial>>
    BY <1>1 DEF StartTally, ballotVars
  <2>2. initial = ledger.weight /\ RosterWeight(ledger) <= ledger.total
    <3>1. RosterWeight(ledger) \in Nat /\ ledger.total \in Nat /\ spent = 0 /\ RosterWeight(ledger) + spent = ledger.granted
          /\ ledger.granted <= ledger.total /\ ledger.granted \in Nat
      BY <2>1, RosterWeightNat DEF TallyInv, EngineInv, EngineTypeOK, Ledgers
    <3> QED BY <2>1, <3>1 DEF TallyInv, InputsInv
  <2>3. Stake = RosterWeight(ledger)
    BY <2>2, StakeIsWeighed DEF RosterWeight, RosterWeights
  <2>4. Stake' = Stake
    BY <2>1 DEF Stake, Entries
  <2> QED BY <2>1, <2>2, <2>3, <2>4 DEF StakeInv
<1>2. CASE (Step(ballot) /\ UNCHANGED initial) \/ UNCHANGED tallySpecVars
  <2>1. UNCHANGED <<ballot, initial, budget, tallyStarted>> /\ ledger'.voters = ledger.voters
    <3>1. CASE Step(ballot) /\ UNCHANGED initial
      <4>1. UNCHANGED <<ballot, initial>> /\ ledger'.voters = ledger.voters
        BY <3>1, StepKeepsInputs
      <4> QED BY <3>1, <4>1 DEF Step, FundBest, RaiseLevel, FinishUnsupported
    <3>2. CASE UNCHANGED tallySpecVars
      BY <3>2 DEF tallySpecVars, engineVars, tallyVars, ballotVars
    <3> QED BY <1>2, <3>1, <3>2
  <2>2. Stake' = Stake
    BY <2>1 DEF Stake, Entries
  <2> QED BY <2>1, <2>2 DEF StakeInv
<1> QED BY <1>1, <1>2 DEF TallyNext

LEMMA PortsDone ==
  ASSUME PortInv, StakeInv
  PROVE  PortsAgree
<1> SUFFICES ASSUME tallyDone PROVE PortsAgree
  BY DEF PortsAgree
<1>1. TallyInv /\ tallyStarted /\ Stake <= budget /\ budget \in Nat
  BY RosterFacts DEF PortInv, TallyInv, EngineInv, StakeInv
<1>2. Stake \in Nat /\ SumOver(NewRun(Entries).weights, DOMAIN Entries) = Stake
  BY <1>1, StakeIsWeighed
<1>3. AllValid(Entries, Len(costs))
  BY <1>1, EntriesAreValid
<1>4. Unvoted = budget - Stake
  BY DEF Unvoted, Stake
<1>5. Pbear(costs, Entries, Unvoted).funded = fundedOrder
  <2>1. Stake + Unvoted = budget
    BY <1>1, <1>2, <1>4
  <2>2. Pbear(costs, Entries, Unvoted) = OneBlockRuns(costs, Entries, budget)[Bound(Len(costs))]
    BY <1>2, <1>3, <2>1 DEF Pbear
  <2>3. Follows(OneBlockRuns(costs, Entries, budget))
    BY <1>1, OneBlockFollows
  <2>4. PICK r : r = OneBlockRuns(costs, Entries, budget)
    OBVIOUS
  <2>5. r[Bound(Len(costs))].funded = fundedOrder
    BY <2>3, <2>4, PortsEnd
  <2> QED BY <2>2, <2>4, <2>5
<1>6. TallyRs(costs, Entries, Unvoted, budget + 1).funded = fundedOrder
  <2>1. ~(Stake + Unvoted >= budget + 1)
    BY <1>1, <1>2, <1>4
  <2>2. TallyRs(costs, Entries, Unvoted, budget + 1) = Pbear(costs, Entries, Unvoted)
    BY <1>2, <2>1 DEF TallyRs
  <2> QED BY <1>5, <2>2
<1>7. ASSUME NEW n \in 0 .. Len(Entries)
      PROVE  PbearTranscript(costs, SubSeq(Entries, 1, n), SubSeq(Entries, n + 1, Len(Entries)), budget).funded = fundedOrder
  <2> DEFINE pub    == SubSeq(Entries, 1, n)
             sealed == SubSeq(Entries, n + 1, Len(Entries))
  <2>1. pub \o sealed = Entries
    BY <1>1, CutEntries
  <2>2. Follows(TranscriptRuns(costs, pub, sealed, budget))
    BY <1>1, TranscriptFollows
  <2> HIDE DEF pub, sealed
  <2>3. PbearTranscript(costs, pub, sealed, budget) = TranscriptRuns(costs, pub, sealed, budget)[Bound(Len(costs))]
    <3>1. ~(Stake > budget)
      BY <1>1, <1>2
    <3> QED BY <1>2, <1>3, <2>1, <3>1 DEF PbearTranscript
  <2>4. PICK r : r = TranscriptRuns(costs, pub, sealed, budget)
    OBVIOUS
  <2>5. r[Bound(Len(costs))].funded = fundedOrder
    BY <2>2, <2>4, PortsEnd
  <2> QED BY <2>3, <2>4, <2>5 DEF pub, sealed
<1> QED BY <1>5, <1>6, <1>7 DEF PortsAgree

\* In every round, the reference, the Rust crate and shared/pbear.ts, wherever
\* the entries are cut in two blocks, fund what the contract funds, in the
\* same order.
THEOREM PortsAlways == TallySpec => []PortsAgree
<1>1. TallyInit => StakeInv
  BY DEF TallyInit, StakeInv
<1>2. TallyInv /\ StakeInv /\ [TallyNext]_tallySpecVars => StakeInv'
  BY StakeStays
<1>3. PortInv => TallyInv
  BY DEF PortInv
<1>4. PortInv /\ StakeInv => PortsAgree
  BY PortsDone
<1> QED BY <1>1, <1>2, <1>3, <1>4, PortInvariant, PTL DEF TallySpec

-----------------------------------------------------------------------------
(* A row that is part of another.                                          *)

\* Where a row is nothing its running total stands still.
LEMMA NothingBetween ==
  ASSUME NEW n \in Nat, NEW h \in [1 .. n -> Nat], NEW a \in 0 .. n, NEW b \in 0 .. n, a <= b,
         \A i \in 1 .. n : a < i /\ i <= b => h[i] = 0
  PROVE  PrefixSum(h, n)[b] = PrefixSum(h, n)[a]
<1> DEFINE H == PrefixSum(h, n)
           G == {j \in Nat : a + j <= b => H[a + j] = H[a]}
<1>1. H \in [0 .. n -> Nat] /\ \A i \in 1 .. n : H[i] = H[i - 1] + h[i]
  <2>1. h \in [1 .. n -> Int]
    OBVIOUS
  <2> QED BY <2>1, PrefixSumNat, PrefixSumUnfold
<1> HIDE DEF H
<1>2. 0 \in G
  OBVIOUS
<1>3. ASSUME NEW j \in G PROVE j + 1 \in G
  <2> SUFFICES ASSUME a + (j + 1) <= b PROVE H[a + (j + 1)] = H[a]
    OBVIOUS
  <2>1. a + (j + 1) \in 1 .. n /\ (a + (j + 1)) - 1 = a + j /\ a + j <= b /\ a + j \in 0 .. n /\ a < a + (j + 1)
    OBVIOUS
  <2>2. H[a + (j + 1)] = H[a + j] + h[a + (j + 1)] /\ h[a + (j + 1)] = 0
    BY <1>1, <2>1
  <2>3. H[a + j] = H[a] /\ H[a] \in Nat
    BY <1>1, <2>1
  <2> QED BY <2>2, <2>3
<1>4. G = Nat
  <2> HIDE DEF G
  <2>1. G \in SUBSET Nat
    BY DEF G
  <2> QED BY <1>2, <1>3, <2>1, InductionOnSets
<1>5. b - a \in Nat /\ a + (b - a) = b
  OBVIOUS
<1>6. b - a \in G
  BY <1>4, <1>5
<1> QED BY <1>5, <1>6 DEF H

\* The entries of f are found in h, in order and with nothing in between, f[j]
\* at e[j]; where e stands still f has nothing.
IsPart(k, f, n, h, e) ==
  /\ k \in Nat /\ n \in Nat /\ f \in [1 .. k -> Nat] /\ h \in [1 .. n -> Nat]
  /\ e \in [0 .. k -> 0 .. n]
  /\ \A j \in 1 .. k :
       \/ /\ e[j - 1] < e[j] /\ f[j] = h[e[j]]
          /\ \A i \in 1 .. n : e[j - 1] < i /\ i < e[j] => h[i] = 0
       \/ e[j - 1] = e[j] /\ f[j] = 0

\* Running totals of a part are those of the whole, counted from where it begins.
PartFacts(k, f, n, h, e) ==
  LET F == PrefixSum(f, k)
      H == PrefixSum(h, n)
  IN  /\ H \in [0 .. n -> Nat] /\ F \in [0 .. k -> Nat]
      /\ \A j \in 0 .. k : e[j] \in 0 .. n /\ H[e[j]] = H[e[0]] + F[j]
      /\ \A j \in 1 .. k : e[j - 1] < e[j] => H[e[j] - 1] = H[e[0]] + F[j - 1]

LEMMA PartTotals ==
  ASSUME NEW k, NEW f, NEW n, NEW h, NEW e, IsPart(k, f, n, h, e)
  PROVE  PartFacts(k, f, n, h, e)
<1> DEFINE F == PrefixSum(f, k)
           H == PrefixSum(h, n)
           G == {j \in 0 .. k : H[e[j]] = H[e[0]] + F[j]}
<1>1. k \in Nat /\ n \in Nat /\ f \in [1 .. k -> Nat] /\ h \in [1 .. n -> Nat] /\ e \in [0 .. k -> 0 .. n]
  BY DEF IsPart
<1>2. /\ H \in [0 .. n -> Nat] /\ \A i \in 1 .. n : H[i] = H[i - 1] + h[i]
      /\ F \in [0 .. k -> Nat] /\ F[0] = 0 /\ \A j \in 1 .. k : F[j] = F[j - 1] + f[j]
  <2>1. h \in [1 .. n -> Int] /\ f \in [1 .. k -> Int]
    BY <1>1
  <2> QED BY <1>1, <2>1, PrefixSumNat, PrefixSumUnfold
<1>3. ASSUME NEW j \in 1 .. k, e[j - 1] < e[j]
      PROVE  f[j] = h[e[j]] /\ H[e[j] - 1] = H[e[j - 1]]
  <2>1. f[j] = h[e[j]] /\ \A i \in 1 .. n : e[j - 1] < i /\ i < e[j] => h[i] = 0
    BY <1>1, <1>3 DEF IsPart
  <2>2. e[j - 1] \in 0 .. n /\ e[j] \in 1 .. n /\ e[j] - 1 \in 0 .. n /\ e[j - 1] <= e[j] - 1
    BY <1>1, <1>3
  <2>3. PICK a, b : a = e[j - 1] /\ b = e[j] - 1
    OBVIOUS
  <2>4. \A i \in 1 .. n : a < i /\ i <= b => h[i] = 0
    BY <2>1, <2>2, <2>3
  <2>5. H[b] = H[a]
    BY <1>1, <2>2, <2>3, <2>4, NothingBetween
  <2> QED BY <2>1, <2>3, <2>5
<1> HIDE DEF F, H
<1>4. 0 \in G
  BY <1>1, <1>2
<1>5. ASSUME NEW j \in G, j < k PROVE j + 1 \in G
  <2>1. j + 1 \in 1 .. k /\ (j + 1) - 1 = j /\ j \in 0 .. k /\ H[e[j]] = H[e[0]] + F[j]
    BY <1>1, <1>5
  <2>2. /\ F[j + 1] = F[j] + f[j + 1] /\ F[j] \in Nat /\ f[j + 1] \in Nat
        /\ e[j] \in 0 .. n /\ e[j + 1] \in 0 .. n /\ e[0] \in 0 .. n /\ H[e[0]] \in Nat
    <3>1. j + 1 \in 0 .. k /\ 0 \in 0 .. k
      BY <1>1, <2>1
    <3>2. e[j] \in 0 .. n /\ e[j + 1] \in 0 .. n /\ e[0] \in 0 .. n
      BY <1>1, <2>1, <3>1
    <3>3. H[e[0]] \in Nat /\ F[j] \in Nat /\ f[j + 1] \in Nat
      BY <1>1, <1>2, <2>1, <3>2
    <3>4. F[j + 1] = F[j] + f[j + 1]
      BY <1>2, <2>1
    <3> QED BY <3>2, <3>3, <3>4
  <2>3. CASE e[j] < e[j + 1]
    <3>1. f[j + 1] = h[e[j + 1]] /\ H[e[j + 1] - 1] = H[e[j]]
      BY <1>3, <2>1, <2>3
    <3>2. e[j + 1] \in 1 .. n
      BY <2>2, <2>3, <1>1
    <3>3. H[e[j + 1]] = H[e[j + 1] - 1] + h[e[j + 1]]
      BY <1>2, <3>2
    <3>4. H[e[j + 1]] = H[e[0]] + F[j + 1]
      BY <2>1, <2>2, <3>1, <3>3
    <3> QED BY <2>1, <3>4
  <2>4. CASE ~(e[j] < e[j + 1])
    <3>1. e[j] = e[j + 1] /\ f[j + 1] = 0
      BY <2>1, <2>4 DEF IsPart
    <3>2. H[e[j + 1]] = H[e[0]] + F[j + 1]
      BY <2>1, <2>2, <3>1
    <3> QED BY <2>1, <3>2
  <2> QED BY <2>3, <2>4
<1>6. 0 .. k \subseteq G
  <2>1. G \in SUBSET Nat
    BY <1>1
  <2> HIDE DEF G
  <2> QED BY <1>1, <1>4, <1>5, <2>1, InductionUpTo
<1>7. \A j \in 0 .. k : e[j] \in 0 .. n /\ H[e[j]] = H[e[0]] + F[j]
  BY <1>1, <1>6
<1>8. ASSUME NEW j \in 1 .. k, e[j - 1] < e[j] PROVE H[e[j] - 1] = H[e[0]] + F[j - 1]
  <2>1. j - 1 \in 0 .. k
    BY <1>1
  <2> QED BY <1>3, <1>7, <1>8, <2>1
<1> QED BY <1>2, <1>7, <1>8 DEF PartFacts, F, H

\* A part pays in a fraction what it pays in the whole.
PayTogether(k, w, S, n, x, T, e, thr, total, start) ==
  /\ IsPart(k, On(w, S), n, On(x, T), e) /\ start = PrefixSum(On(x, T), n)[e[0]]
  /\ w \in [1 .. k -> Nat] /\ x \in [1 .. n -> Nat] /\ thr \in Nat /\ total \in Nat \ {0}

PayAlike(k, w, S, n, x, T, e, thr, total, start) ==
  /\ \A j \in 1 .. k : e[j - 1] < e[j] /\ w[j] = x[e[j]]
       => PaidRow(k, w, S, thr, total, start)[j] = PaidRow(n, x, T, thr, total, 0)[e[j]]
  /\ \A j \in 1 .. k : On(w, S)[j] = 0 => PaidRow(k, w, S, thr, total, start)[j] = w[j]

LEMMA PartPays ==
  ASSUME NEW k, NEW w, NEW S, NEW n, NEW x, NEW T, NEW e, NEW thr, NEW total, NEW start,
         PayTogether(k, w, S, n, x, T, e, thr, total, start)
  PROVE  PayAlike(k, w, S, n, x, T, e, thr, total, start)
<1>0. /\ IsPart(k, On(w, S), n, On(x, T), e) /\ start = PrefixSum(On(x, T), n)[e[0]]
      /\ w \in [1 .. k -> Nat] /\ x \in [1 .. n -> Nat] /\ thr \in Nat /\ total \in Nat \ {0}
  BY DEF PayTogether
<1> DEFINE F == PrefixSum(On(w, S), k)
           H == PrefixSum(On(x, T), n)
           Sh(a) == Share(a, thr, total)
<1>1. k \in Nat /\ n \in Nat /\ On(w, S) \in [1 .. k -> Nat] /\ e \in [0 .. k -> 0 .. n]
  BY <1>0 DEF IsPart
<1>2. /\ F \in [0 .. k -> Nat] /\ H \in [0 .. n -> Nat]
      /\ \A j \in 0 .. k : e[j] \in 0 .. n /\ H[e[j]] = start + F[j]
      /\ \A j \in 1 .. k : e[j - 1] < e[j] => H[e[j] - 1] = start + F[j - 1]
  BY <1>0, PartTotals DEF PartFacts
<1>3. \A j \in 1 .. k : PaidRow(k, w, S, thr, total, start)[j] = w[j] - (Sh(start + F[j]) - Sh(start + F[j - 1]))
  BY DEF PaidRow
<1>4. \A i \in 1 .. n : PaidRow(n, x, T, thr, total, 0)[i] = x[i] - (Sh(0 + H[i]) - Sh(0 + H[i - 1]))
  BY DEF PaidRow
<1>5. \A j \in 1 .. k : F[j] = F[j - 1] + On(w, S)[j]
  <2>1. On(w, S) \in [1 .. k -> Int]
    BY <1>1
  <2> QED BY <1>1, <2>1, PrefixSumUnfold
<1>6. \A a \in Nat : Sh(a) \in Int
  BY <1>0 DEF Share
<1> HIDE DEF F, H, Sh
<1>7. ASSUME NEW j \in 1 .. k, e[j - 1] < e[j], w[j] = x[e[j]]
      PROVE  PaidRow(k, w, S, thr, total, start)[j] = PaidRow(n, x, T, thr, total, 0)[e[j]]
  <2>1. j \in 0 .. k /\ j - 1 \in 0 .. k
    BY <1>1
  <2>2. e[j] \in 1 .. n /\ e[j] - 1 \in 0 .. n
    <3>1. e[j] \in 0 .. n /\ e[j - 1] \in 0 .. n /\ e[j - 1] < e[j] /\ n \in Nat
      BY <1>1, <1>2, <1>7, <2>1
    <3> QED BY <3>1
  <2>3. 0 + H[e[j]] = start + F[j] /\ 0 + H[e[j] - 1] = start + F[j - 1]
    <3>1. H[e[j]] = start + F[j] /\ H[e[j] - 1] = start + F[j - 1] /\ H[e[j]] \in Nat /\ H[e[j] - 1] \in Nat
      BY <1>2, <1>7, <2>1, <2>2
    <3> QED BY <3>1
  <2>4. PaidRow(n, x, T, thr, total, 0)[e[j]] = x[e[j]] - (Sh(0 + H[e[j]]) - Sh(0 + H[e[j] - 1]))
    BY <1>4, <2>2
  <2> QED BY <1>3, <1>7, <2>3, <2>4
<1>8. ASSUME NEW j \in 1 .. k, On(w, S)[j] = 0
      PROVE  PaidRow(k, w, S, thr, total, start)[j] = w[j]
  <2>1. j \in 0 .. k /\ j - 1 \in 0 .. k /\ 0 \in 0 .. k
    BY <1>1
  <2>2. F[j] \in Nat /\ F[j - 1] \in Nat
    BY <1>2, <2>1
  <2>3. F[j] = F[j - 1]
    BY <1>5, <1>8, <2>2
  <2>4. start \in Nat /\ start + F[j - 1] \in Nat
    <3>1. e[0] \in 0 .. n /\ start = H[e[0]]
      BY <1>0, <1>2, <2>1 DEF H
    <3> QED BY <1>2, <2>2, <3>1
  <2>5. Sh(start + F[j - 1]) \in Int /\ w[j] \in Nat
    BY <1>0, <1>6, <2>4
  <2> QED BY <1>3, <2>3, <2>5
<1> QED BY <1>7, <1>8 DEF PayAlike

\* Nobody is charged more than it has, and together they are charged thr.
LEMMA PaidInFull ==
  ASSUME NEW n, NEW w, NEW S, NEW thr, NEW total, NEW start,
         CanPay(n, w, S, thr, total, start), thr <= total
  PROVE  /\ PaidRow(n, w, S, thr, total, start) \in [1 .. n -> Nat]
         /\ start = 0 /\ total = SumOver(w, S)
              => Sum(PaidRow(n, w, S, thr, total, start), n) + thr = Sum(w, n)
<1> DEFINE F == PrefixSum(On(w, S), n)
           Sh(a) == Share(a, thr, total)
           y == PaidRow(n, w, S, thr, total, start)
<1>1. /\ n \in Nat /\ w \in [1 .. n -> Nat] /\ S \in SUBSET (1 .. n)
      /\ thr \in Nat /\ total \in Nat \ {0} /\ start \in Nat
  BY DEF CanPay
<1>2. OnFacts(n, w, S)
  BY <1>1, OnTotals
<1>3. /\ F \in [0 .. n -> Nat] /\ F[0] = 0 /\ SumOver(w, S) = F[n]
      /\ \A i \in 1 .. n : F[i] = F[i - 1] + On(w, S)[i] /\ On(w, S)[i] \in Nat /\ On(w, S)[i] <= w[i]
  BY <1>2 DEF OnFacts
<1>4. DOMAIN y = 1 .. n /\ y = [i \in 1 .. n |-> y[i]]
      /\ \A i \in 1 .. n : y[i] = w[i] - (Sh(start + F[i]) - Sh(start + F[i - 1]))
  BY DEF PaidRow
<1>5. \A a, c \in Nat : /\ Sh(a) \in Nat /\ Sh(a + c) \in Nat /\ Sh(a) <= Sh(a + c)
                        /\ Sh(a + c) <= Sh(a) + c
  <2> TAKE a, c \in Nat
  <2>1. total \in Nat /\ total > 0
    BY <1>1
  <2> QED BY <1>1, <2>1, ShareStep DEF Share
<1>6. Sh(0) = 0 /\ Sh(total) = thr
  <2>1. (0 * thr) \div total = 0
    BY <1>1
  <2>2. (total * thr) \div total = thr
    <3>1. total * thr = thr * total
      BY <1>1
    <3>2. (thr * total) \div total = thr
      BY <1>1
    <3> QED BY <3>1, <3>2
  <2> QED BY <2>1, <2>2 DEF Share
<1> HIDE DEF F, Sh, y
<1> DEFINE p == [i \in 0 .. n |-> Sh(start + F[i])]
           d == [i \in 1 .. n |-> Sh(start + F[i]) - Sh(start + F[i - 1])]
<1>7. ASSUME NEW i \in 1 .. n
      PROVE  /\ Sh(start + F[i]) \in Nat /\ Sh(start + F[i - 1]) \in Nat /\ y[i] \in Nat
             /\ w[i] = y[i] + (Sh(start + F[i]) - Sh(start + F[i - 1]))
  <2>1. i - 1 \in 0 .. n /\ F[i - 1] \in Nat /\ start + F[i - 1] \in Nat
    BY <1>1, <1>3
  <2>2. PICK a, c \in Nat : a = start + F[i - 1] /\ c = On(w, S)[i]
    BY <1>3, <2>1
  <2>3. start + F[i] = a + c
    <3>1. F[i] = F[i - 1] + On(w, S)[i] /\ On(w, S)[i] \in Nat
      BY <1>3
    <3>2. start \in Nat /\ F[i - 1] \in Nat
      BY <1>1, <2>1
    <3> QED BY <2>2, <3>1, <3>2
  <2>4. Sh(a) \in Nat /\ Sh(a + c) \in Nat /\ Sh(a) <= Sh(a + c) /\ Sh(a + c) <= Sh(a) + c
    BY <1>5
  <2>5. c <= w[i] /\ w[i] \in Nat
    BY <1>1, <1>3, <2>2
  <2>6. y[i] = w[i] - (Sh(a + c) - Sh(a))
    BY <1>4, <2>2, <2>3
  <2> QED BY <2>2, <2>3, <2>4, <2>5, <2>6
<1>8. y \in [1 .. n -> Nat]
  BY <1>4, <1>7
<1>9. ASSUME start = 0, total = SumOver(w, S) PROVE Sum(y, n) + thr = Sum(w, n)
  <2>1. /\ p \in [0 .. n -> Int] /\ d \in [1 .. n -> Int]
        /\ \A i \in 1 .. n : d[i] = p[i] - p[i - 1]
    <3>1. \A i \in 0 .. n : Sh(start + F[i]) \in Int
      <4> TAKE i \in 0 .. n
      <4>1. F[i] \in Nat /\ start \in Nat
        BY <1>1, <1>3
      <4>2. start + F[i] \in Nat
        BY <4>1
      <4>3. Sh(start + F[i]) \in Nat
        BY <1>5, <4>2
      <4> QED BY <4>3
    <3>2. \A i \in 1 .. n : i - 1 \in 0 .. n /\ i \in 0 .. n
      BY <1>1
    <3> QED BY <1>7, <3>1, <3>2
  <2>2. p[0] = 0 /\ p[n] = thr
    <3>1. 0 \in 0 .. n /\ n \in 0 .. n
      BY <1>1
    <3>2. start + F[0] = 0 /\ start + F[n] = total
      BY <1>1, <1>3, <1>9
    <3> QED BY <1>6, <3>1, <3>2
  <2>3. \A i \in 1 .. n : w[i] = y[i] + d[i]
    BY <1>7
  <2> HIDE DEF p, d
  <2>4. Sum(d, n) = thr
    BY <1>1, <2>1, <2>2, SumTelescopes
  <2>5. w \in [1 .. n -> Int] /\ y \in [1 .. n -> Int]
    BY <1>1, <1>8
  <2>6. Sum(w, n) = Sum(y, n) + Sum(d, n)
    BY <1>1, <2>1, <2>3, <2>5, SumOfSums
  <2> QED BY <2>4, <2>6
<1> QED BY <1>8, <1>9 DEF y

-----------------------------------------------------------------------------
(* The course of shared/pbear.ts, from its first iteration to its last.    *)

FundedIn(x, cs) == {c \in 1 .. Len(cs) : IsFunded(x, c)}

\* What a run keeps until it is done.
RunOK(n, cs, B, x) ==
  /\ IsPortRun(x) /\ x.weights \in [1 .. n -> Nat]
  /\ x.spent \in Nat /\ Sum(x.weights, n) + x.spent <= B
  /\ x.level \in 1 .. Len(cs) /\ x.funded \in Seq(1 .. Len(cs))
  /\ Cardinality(FundedIn(x, cs)) = Len(x.funded)

\* Iterations made so far, each of which funded a project or raised the level.
Steps(x) == Len(x.funded) + x.level - 1

LEMMA StepsBound ==
  ASSUME NEW n, NEW cs \in Seq(Nat \ {0}), NEW B, NEW x, RunOK(n, cs, B, x)
  PROVE  Steps(x) \in Nat /\ Steps(x) < 2 * Len(cs) /\ Len(cs) \in Nat
<1> DEFINE m == Len(cs)
           F == FundedIn(x, cs)
<1>1. m \in Nat /\ Len(x.funded) \in Nat /\ x.level \in 1 .. m /\ F \in SUBSET (1 .. m) /\ Cardinality(F) = Len(x.funded)
  BY DEF RunOK, FundedIn
<1>2. IsFiniteSet(1 .. m) /\ Cardinality(1 .. m) = m
  <2>1. 1 \in Int /\ m \in Int /\ ~(1 > m) /\ m - 1 + 1 = m
    BY <1>1
  <2> QED BY <2>1, FS_Interval
<1>3. Cardinality(F) <= m
  BY <1>1, <1>2, FS_Subset
<1> HIDE DEF F, m
<1>4. Steps(x) \in Nat /\ Steps(x) < 2 * m
  BY <1>1, <1>3 DEF Steps
<1> QED BY <1>1, <1>4 DEF m

LEMMA WeighsEnough ==
  ASSUME NEW n \in Nat, NEW w \in [1 .. n -> Nat], NEW S
  PROVE  SumOver(w, S) <= Sum(w, n) /\ SumOver(w, S) \in Nat /\ Sum(w, n) \in Nat
<1>1. OnFacts(n, w, S)
  BY OnTotals
<1>2. /\ On(w, S) \in [1 .. n -> Nat] /\ \A i \in 1 .. n : On(w, S)[i] <= w[i]
      /\ SumOver(w, S) = Sum(On(w, S), n) /\ SumOver(w, S) \in Nat
  BY <1>1 DEF OnFacts, Sum
<1> QED BY <1>2, SumBounds

\* An iteration that is not the last keeps all that and makes one step more.
LEMMA IterationKeeps ==
  ASSUME NEW n \in Nat, NEW ranks, DOMAIN ranks = 1 .. n, NEW cs \in Seq(Nat \ {0}), NEW B \in Nat,
         NEW x, RunOK(n, cs, B, x), NEW y, IsPortRun(y), Iterates(n, x, y, ranks, cs, B), ~y.done
  PROVE  RunOK(n, cs, B, y) /\ Steps(y) = Steps(x) + 1
<1> DEFINE m    == Len(cs)
           best == BestOf(x, ranks, cs)
           sup  == Backers(x, ranks, best)
<1>1. m \in Nat /\ x.weights \in [1 .. n -> Nat] /\ x.spent \in Nat /\ x.level \in 1 .. m
      /\ x.funded \in Seq(1 .. m) /\ Len(x.funded) \in Nat /\ Sum(x.weights, n) + x.spent <= B
  BY DEF RunOK
<1>2. ~(best = None /\ x.level >= m)
  BY DEF Iterates
<1>3. CASE best = None
  <2>1. y.weights = x.weights /\ y.funded = x.funded /\ y.spent = x.spent /\ y.level = x.level + 1
    BY <1>3 DEF Iterates
  <2>2. FundedIn(y, cs) = FundedIn(x, cs)
    BY <2>1 DEF FundedIn, IsFunded
  <2>3. y.level \in 1 .. m
    <3>1. m \in Nat /\ x.level \in 1 .. m /\ ~(x.level >= m)
      BY <1>1, <1>2, <1>3
    <3> HIDE DEF m, best
    <3> QED BY <2>1, <3>1
  <2>4. Steps(y) = Steps(x) + 1
    BY <1>1, <2>1 DEF Steps
  <2> QED BY <2>1, <2>2, <2>3, <2>4 DEF RunOK
<1>4. CASE best # None
  <2>1. /\ y.weights = Charged(n, x.weights, sup, cs[best])
        /\ y.funded = Append(x.funded, best) /\ y.spent = x.spent + cs[best]
        /\ y.level = x.level
    BY <1>4 DEF Iterates
  <2>2. PickFacts(n, x, ranks, cs)
    BY <1>1, PickIsSound
  <2>3. /\ best \in 1 .. m /\ ~IsFunded(x, best) /\ cs[best] \in Nat \ {0}
        /\ SumOver(x.weights, sup) \in Nat \ {0} /\ sup \subseteq 1 .. n
        /\ SumOver(x.weights, sup) >= cs[best]
    BY <1>4, <2>2 DEF PickFacts
  <2> HIDE DEF best, sup
  <2> DEFINE total == SumOver(x.weights, sup)
             thr   == cs[best]
  <2>4. /\ PaidRow(n, x.weights, sup, thr, total, 0) \in [1 .. n -> Nat]
        /\ Sum(PaidRow(n, x.weights, sup, thr, total, 0), n) + thr = Sum(x.weights, n)
    <3>1. CanPay(n, x.weights, sup, thr, total, 0) /\ thr <= total
      BY <1>1, <2>3 DEF CanPay
    <3>2. total = SumOver(x.weights, sup)
      OBVIOUS
    <3> HIDE DEF thr, total
    <3> QED BY <3>1, <3>2, PaidInFull
  <2>5. y.weights = PaidRow(n, x.weights, sup, thr, total, 0)
    BY <2>1 DEF Charged
  <2> HIDE DEF total
  <2>6. y.weights \in [1 .. n -> Nat] /\ Sum(y.weights, n) + thr = Sum(x.weights, n)
    BY <2>4, <2>5
  <2>7. Sum(y.weights, n) \in Nat /\ thr \in Nat
    BY <2>3, <2>6, SumNat
  <2>8. y.spent \in Nat /\ Sum(y.weights, n) + y.spent <= B
    <3>1. y.spent = x.spent + thr /\ x.spent \in Nat /\ Sum(x.weights, n) + x.spent <= B
      BY <1>1, <2>1
    <3> HIDE DEF thr
    <3> QED BY <2>6, <2>7, <3>1
  <2>9. y.funded \in Seq(1 .. m) /\ Len(y.funded) = Len(x.funded) + 1
    BY <1>1, <2>1, <2>3
  <2>10. Cardinality(FundedIn(y, cs)) = Len(y.funded)
    <3> DEFINE X == FundedIn(x, cs)
    <3>1. FundedIn(y, cs) = X \cup {best}
      <4>1. \A c : IsFunded(y, c) <=> IsFunded(x, c) \/ c = best
        <5> TAKE c
        <5>1. /\ DOMAIN y.funded = 1 .. (Len(x.funded) + 1) /\ DOMAIN x.funded = 1 .. Len(x.funded)
              /\ \A k \in 1 .. Len(x.funded) : y.funded[k] = x.funded[k]
              /\ y.funded[Len(x.funded) + 1] = best
          <6>1. PICK f \in Seq(1 .. m), d \in 1 .. m : f = x.funded /\ d = best
            BY <1>1, <2>3
          <6>2. y.funded = Append(f, d) /\ Len(f) \in Nat
            BY <2>1, <6>1
          <6>3. /\ DOMAIN Append(f, d) = 1 .. (Len(f) + 1) /\ DOMAIN f = 1 .. Len(f)
                /\ \A k \in 1 .. Len(f) : Append(f, d)[k] = f[k]
                /\ Append(f, d)[Len(f) + 1] = d
            BY ONLY f \in Seq(1 .. m), d \in 1 .. m
          <6> QED BY <6>1, <6>2, <6>3
        <5>2. PICK len \in Nat : len = Len(x.funded)
          BY <1>1
        <5>3. /\ \A k \in 1 .. (len + 1) : k \in 1 .. len \/ k = len + 1
              /\ \A k \in 1 .. len : k \in 1 .. (len + 1)
              /\ len + 1 \in 1 .. (len + 1)
          OBVIOUS
        <5> QED BY <5>1, <5>2, <5>3 DEF IsFunded
      <4> QED BY <2>3, <4>1 DEF FundedIn
    <3>2. best \notin X
      BY <2>3 DEF FundedIn
    <3>3. IsFiniteSet(X) /\ Cardinality(X) = Len(x.funded)
      <4>1. IsFiniteSet(1 .. m) /\ X \subseteq 1 .. m
        <5>1. 1 \in Int /\ m \in Int
          BY <1>1
        <5> QED BY <5>1, FS_Interval DEF FundedIn
      <4>2. Cardinality(X) = Len(x.funded)
        BY DEF RunOK
      <4> QED BY <4>1, <4>2, FS_Subset
    <3> HIDE DEF X
    <3>4. Cardinality(X \cup {best}) = Cardinality(X) + 1
      BY <3>2, <3>3, FS_AddElement
    <3> QED BY <2>9, <3>1, <3>3, <3>4
  <2>11. Steps(y) = Steps(x) + 1
    <3>1. PICK len, l \in Int : len = Len(x.funded) /\ l = x.level
      BY <1>1
    <3>2. (len + 1) + l - 1 = (len + l - 1) + 1
      OBVIOUS
    <3> QED BY <2>1, <2>9, <3>1, <3>2 DEF Steps
  <2> QED BY <1>1, <2>1, <2>6, <2>8, <2>9, <2>10, <2>11 DEF RunOK
<1> QED BY <1>3, <1>4

\* x[i] is what shared/pbear.ts has after i iterations, A being the public block.
IsTranscript(n, ranks, A, cs, B, x) ==
  /\ n \in Nat /\ DOMAIN ranks = 1 .. n /\ cs \in Seq(Nat \ {0}) /\ B \in Nat /\ A \subseteq 1 .. n
  /\ RunOK(n, cs, B, x[0]) /\ ~x[0].done /\ Steps(x[0]) = 0 /\ x[0].transcript = << >>
  /\ \A i \in 1 .. Bound(Len(cs)) : x[i] = TranscriptStep(x[i - 1], ranks, A, cs, B)

StepRecords(m) == [level : 1 .. m, pub : [1 .. m -> Nat], best : 0 .. m, total : Nat]

LEMMA WrittenIsStep ==
  ASSUME NEW n \in Nat, NEW ranks, DOMAIN ranks = 1 .. n, NEW A, NEW cs \in Seq(Nat \ {0}), NEW B,
         NEW x, RunOK(n, cs, B, x)
  PROVE  Written(x, ranks, A, cs) \in StepRecords(Len(cs))
<1> DEFINE m    == Len(cs)
           w    == x.weights
           best == BestOf(x, ranks, cs)
           pub  == SupportOf(x, ranks, A, cs)
           sup  == Backers(x, ranks, best)
           all  == IF best = None THEN 0 ELSE SumOver(w, sup)
<1>1. m \in Nat /\ w \in [1 .. n -> Nat] /\ x.level \in 1 .. m /\ DOMAIN cs = 1 .. m
  BY DEF RunOK
<1>2. \A S : SumOver(w, S) \in Nat
  BY <1>1, WeighsEnough
<1>3. pub \in [1 .. m -> Nat]
  BY <1>1, <1>2 DEF SupportOf
<1>4. best \in 0 .. m
  <2>1. PickFacts(n, x, ranks, cs)
    BY <1>1, PickIsSound
  <2>2. best # None => best \in 1 .. m
    BY <2>1 DEF PickFacts
  <2> HIDE DEF best
  <2> QED BY <1>1, <2>2 DEF None
<1>5. all \in Nat
  BY <1>2
<1>6. Written(x, ranks, A, cs) = [level |-> x.level, pub |-> pub, best |-> best, total |-> all]
  BY DEF Written
<1> HIDE DEF pub, best, all
<1> QED BY <1>1, <1>3, <1>4, <1>5, <1>6 DEF StepRecords

\* After i iterations: a step was written in each that left something to do.
Progress(n, ranks, A, cs, B, x, i) ==
  LET t == x[i].transcript
      l == Len(t)
  IN  /\ IsPortRun(x[i]) /\ t \in Seq(StepRecords(Len(cs))) /\ l <= i
      /\ \A k \in 1 .. l : /\ ~x[k - 1].done /\ ~Exhausted(x[k - 1], cs, B)
                           /\ t[k] = Written(x[k - 1], ranks, A, cs)
      /\ ~x[i].done => l = i /\ RunOK(n, cs, B, x[i]) /\ Steps(x[i]) = i
      /\ x[i].done => /\ x[l].done \/ Exhausted(x[l], cs, B)
                      /\ x[l].funded = x[i].funded /\ x[l].transcript = t

LEMMA ProgressOn ==
  ASSUME NEW n, NEW ranks, NEW A, NEW cs, NEW B, NEW x, IsTranscript(n, ranks, A, cs, B, x),
         NEW i \in Nat, i + 1 <= Bound(Len(cs)), Progress(n, ranks, A, cs, B, x, i)
  PROVE  Progress(n, ranks, A, cs, B, x, i + 1)
<1> DEFINE m == Len(cs)
           t == x[i].transcript
           u == x[i + 1].transcript
<1>1. /\ n \in Nat /\ DOMAIN ranks = 1 .. n /\ cs \in Seq(Nat \ {0}) /\ B \in Nat /\ A \subseteq 1 .. n
      /\ m \in Nat /\ i + 1 \in 1 .. Bound(m) /\ (i + 1) - 1 = i
  BY DEF IsTranscript, Bound
<1>2. x[i + 1] = TranscriptStep(x[i], ranks, A, cs, B)
  BY <1>1 DEF IsTranscript
<1>3. /\ IsPortRun(x[i]) /\ t \in Seq(StepRecords(m)) /\ Len(t) <= i /\ Len(t) \in Nat
      /\ \A k \in 1 .. Len(t) : /\ ~x[k - 1].done /\ ~Exhausted(x[k - 1], cs, B)
                                /\ t[k] = Written(x[k - 1], ranks, A, cs)
      /\ ~x[i].done => Len(t) = i /\ RunOK(n, cs, B, x[i]) /\ Steps(x[i]) = i
      /\ x[i].done => /\ x[Len(t)].done \/ Exhausted(x[Len(t)], cs, B)
                      /\ x[Len(t)].funded = x[i].funded /\ x[Len(t)].transcript = t
  BY DEF Progress
<1> HIDE DEF m
<1>4. CASE x[i].done
  <2>1. x[i + 1] = x[i]
    BY <1>2, <1>4 DEF TranscriptStep
  <2> QED BY <1>3, <1>4, <2>1 DEF Progress, m
<1>5. CASE ~x[i].done
  <2>1. /\ IsPortRun(x[i + 1]) /\ Iterates(n, x[i], x[i + 1], ranks, cs, B)
        /\ u = IF Exhausted(x[i], cs, B) THEN t ELSE Append(t, Written(x[i], ranks, A, cs))
    <3>1. InBlocks(n, x[i], ranks, A, cs, B)
      BY <1>1, <1>3, <1>5 DEF InBlocks, IsRound, RunOK
    <3> QED BY <1>2, <3>1, TranscriptIterates
  <2>2. Len(t) = i /\ RunOK(n, cs, B, x[i]) /\ Steps(x[i]) = i
    BY <1>3, <1>5
  <2>3. CASE Exhausted(x[i], cs, B)
    <3>1. x[i + 1].done /\ x[i + 1].funded = x[i].funded /\ u = t
      BY <2>1, <2>3 DEF Iterates
    <3> QED BY <1>3, <2>1, <2>2, <2>3, <3>1 DEF Progress, m
  <2>4. CASE ~Exhausted(x[i], cs, B)
    <3>1. Written(x[i], ranks, A, cs) \in StepRecords(m)
      BY <1>1, <2>2, WrittenIsStep DEF m
    <3>2. u = Append(t, Written(x[i], ranks, A, cs))
      BY <2>1, <2>4
    <3> DEFINE s == Written(x[i], ranks, A, cs)
    <3> HIDE DEF s
    <3>3. u \in Seq(StepRecords(m)) /\ Len(u) = i + 1 /\ u[i + 1] = s /\ \A k \in 1 .. i : u[k] = t[k]
      BY <1>3, <2>2, <3>1, <3>2 DEF s
    <3>4. ASSUME NEW k \in 1 .. i + 1
          PROVE  /\ ~x[k - 1].done /\ ~Exhausted(x[k - 1], cs, B)
                 /\ u[k] = Written(x[k - 1], ranks, A, cs)
      <4>1. CASE k = i + 1
        BY <1>1, <1>5, <2>4, <3>3, <4>1 DEF s
      <4>2. CASE k # i + 1
        <5>1. k \in 1 .. i
          BY <4>2
        <5> QED BY <1>3, <2>2, <3>3, <5>1
      <4> QED BY <4>1, <4>2
    <3>5. ~x[i + 1].done => RunOK(n, cs, B, x[i + 1]) /\ Steps(x[i + 1]) = i + 1
      BY <1>1, <2>1, <2>2, IterationKeeps
    <3> HIDE DEF u
    <3> QED BY <2>1, <3>3, <3>4, <3>5 DEF Progress, m, u
  <2> QED BY <2>3, <2>4
<1> QED BY <1>4, <1>5

\* The whole course: the states in which a step is written, and the state that
\* ends it, which is exhausted or was left at the last level.
Course(n, ranks, A, cs, B, x, t) ==
  LET end == x[Len(t)]
  IN  /\ t \in Seq(StepRecords(Len(cs))) /\ Len(t) <= 2 * Len(cs)
      /\ RunOK(n, cs, B, x[0]) /\ ~x[0].done
      /\ \A k \in 1 .. Len(t) :
           /\ IsRound(n, x[k - 1], ranks, cs, B) /\ RunOK(n, cs, B, x[k - 1])
           /\ ~Exhausted(x[k - 1], cs, B)
           /\ t[k] = Written(x[k - 1], ranks, A, cs)
           /\ Iterates(n, x[k - 1], x[k], ranks, cs, B)
           /\ x[k].transcript = Append(x[k - 1].transcript, t[k])
           /\ ~x[k].done => RunOK(n, cs, B, x[k])
      /\ end.done \/ Exhausted(end, cs, B)
      /\ end.transcript = t

LEMMA CourseEnds ==
  ASSUME NEW n, NEW ranks, NEW A, NEW cs, NEW B, NEW x, IsTranscript(n, ranks, A, cs, B, x)
  PROVE  LET last == x[Bound(Len(cs))]
         IN  /\ Course(n, ranks, A, cs, B, x, last.transcript)
             /\ x[Len(last.transcript)].funded = last.funded
<1> DEFINE m == Len(cs)
           b == Bound(m)
           t == x[b].transcript
           l == Len(t)
           G == {i \in 0 .. b : Progress(n, ranks, A, cs, B, x, i)}
<1>1. /\ n \in Nat /\ DOMAIN ranks = 1 .. n /\ cs \in Seq(Nat \ {0}) /\ B \in Nat /\ A \subseteq 1 .. n
      /\ m \in Nat /\ b \in Nat /\ b = 2 * m + 1
      /\ RunOK(n, cs, B, x[0]) /\ ~x[0].done /\ Steps(x[0]) = 0 /\ x[0].transcript = << >>
  BY DEF IsTranscript, Bound
<1> HIDE DEF m, b, t, l
<1>2. 0 \in G
  <2>1. Len(x[0].transcript) = 0 /\ x[0].transcript \in Seq(StepRecords(Len(cs)))
    BY <1>1
  <2>2. IsPortRun(x[0])
    BY <1>1 DEF RunOK
  <2> DEFINE e == x[0].transcript
  <2>3. Len(e) = 0 /\ e \in Seq(StepRecords(Len(cs)))
    BY <2>1
  <2> HIDE DEF e
  <2>4. \A k \in 1 .. Len(e) : FALSE
    BY <2>3
  <2>5. Progress(n, ranks, A, cs, B, x, 0)
    BY <1>1, <2>2, <2>3, <2>4 DEF Progress, e
  <2> QED BY <1>1, <2>5
<1>3. ASSUME NEW i \in G, i < b PROVE i + 1 \in G
  <2>1. i \in Nat /\ i + 1 \in 0 .. b /\ i + 1 <= Bound(Len(cs))
    BY <1>1, <1>3 DEF b, m
  <2> QED BY <2>1, ProgressOn
<1>4. \A i \in 0 .. b : Progress(n, ranks, A, cs, B, x, i)
  <2>1. 0 .. b \subseteq G
    <3>1. G \in SUBSET Nat
      BY <1>1
    <3> HIDE DEF G
    <3> QED BY <1>1, <1>2, <1>3, <3>1, InductionUpTo
  <2> QED BY <2>1
<1>5. \A i \in 0 .. b : ~x[i].done => i < 2 * m /\ RunOK(n, cs, B, x[i])
  <2> SUFFICES ASSUME NEW i \in 0 .. b, ~x[i].done PROVE i < 2 * m /\ RunOK(n, cs, B, x[i])
    OBVIOUS
  <2>1. RunOK(n, cs, B, x[i]) /\ Steps(x[i]) = i
    BY <1>4 DEF Progress
  <2> QED BY <1>1, <2>1, StepsBound DEF m
<1>6. b \in 0 .. b /\ x[b].done
  BY <1>1, <1>5
<1>7. /\ t \in Seq(StepRecords(m)) /\ l \in Nat /\ l <= b
      /\ \A k \in 1 .. l : /\ ~x[k - 1].done /\ ~Exhausted(x[k - 1], cs, B)
                           /\ t[k] = Written(x[k - 1], ranks, A, cs)
      /\ x[l].done \/ Exhausted(x[l], cs, B)
      /\ x[l].funded = x[b].funded /\ x[l].transcript = t
  <2>1. Progress(n, ranks, A, cs, B, x, b)
    BY <1>4, <1>6
  <2> QED BY <1>6, <2>1 DEF Progress, m, t, l
<1>8. l <= 2 * m
  <2>1. CASE l = 0
    BY <1>1, <2>1
  <2>2. CASE l # 0
    <3>1. l \in 1 .. l /\ l - 1 \in 0 .. b /\ l - 1 \in Nat
      BY <1>1, <1>7, <2>2
    <3>2. l - 1 < 2 * m
      BY <1>5, <1>7, <3>1
    <3> QED BY <1>1, <1>7, <3>2
  <2> QED BY <2>1, <2>2
<1>9. ASSUME NEW k \in 1 .. l
      PROVE  /\ IsRound(n, x[k - 1], ranks, cs, B) /\ RunOK(n, cs, B, x[k - 1])
             /\ ~Exhausted(x[k - 1], cs, B)
             /\ t[k] = Written(x[k - 1], ranks, A, cs)
             /\ Iterates(n, x[k - 1], x[k], ranks, cs, B)
             /\ x[k].transcript = Append(x[k - 1].transcript, t[k])
             /\ ~x[k].done => RunOK(n, cs, B, x[k])
  <2>1. k \in 1 .. b /\ k - 1 \in 0 .. b /\ k \in 0 .. b
    BY <1>1, <1>7
  <2>2. x[k] = TranscriptStep(x[k - 1], ranks, A, cs, B)
    BY <2>1 DEF IsTranscript, b, m
  <2>3. RunOK(n, cs, B, x[k - 1]) /\ ~x[k - 1].done /\ ~Exhausted(x[k - 1], cs, B)
        /\ t[k] = Written(x[k - 1], ranks, A, cs)
    BY <1>5, <1>7, <2>1
  <2>4. IsRound(n, x[k - 1], ranks, cs, B)
    BY <1>1, <2>3 DEF IsRound, RunOK
  <2>5. /\ Iterates(n, x[k - 1], x[k], ranks, cs, B)
        /\ x[k].transcript = Append(x[k - 1].transcript, t[k])
    <3>1. InBlocks(n, x[k - 1], ranks, A, cs, B)
      BY <1>1, <2>4 DEF InBlocks
    <3>2. PICK v, y : v = x[k - 1] /\ y = x[k]
      OBVIOUS
    <3>3. /\ Iterates(n, v, y, ranks, cs, B)
          /\ y.transcript = IF Exhausted(v, cs, B) THEN v.transcript
                            ELSE Append(v.transcript, Written(v, ranks, A, cs))
      BY <2>2, <3>1, <3>2, TranscriptIterates
    <3> QED BY <2>3, <3>2, <3>3
  <2>6. ~x[k].done => RunOK(n, cs, B, x[k])
    BY <1>5, <2>1
  <2> QED BY <2>3, <2>4, <2>5, <2>6
<1> QED BY <1>1, <1>7, <1>8, <1>9 DEF Course, m, b, t, l

-----------------------------------------------------------------------------
(* The audit of the public half.                                           *)

AuditStart(cs, P) == [NewRun(P) EXCEPT !.ok = AllValid(P, Len(cs))]

\* The loop of the audit.
LEMMA ReplayUnfold ==
  ASSUME NEW cs, NEW pub, NEW t, NEW B, Len(t) \in Nat
  PROVE  /\ ReplayRuns(cs, pub, t, B)[0] = AuditStart(cs, pub)
         /\ \A i \in 1 .. Len(t) : ReplayRuns(cs, pub, t, B)[i] = ReplayStep(ReplayRuns(cs, pub, t, B)[i - 1], t[i], RanksOf(pub), cs, B)
<1> DEFINE n == Len(t)
           After(x, i) == ReplayStep(x, t[i], RanksOf(pub), cs, B)
           IsLoop(p, k) == p = [i \in 0 .. k |-> IF i = 0 THEN AuditStart(cs, pub) ELSE After(p[i - 1], i)]
           G == {k \in Nat : \E p : IsLoop(p, k)}
<1>0. n \in Nat
  OBVIOUS
<1> HIDE DEF After
<1>1. 0 \in G
  <2> DEFINE p == [i \in 0 .. 0 |-> AuditStart(cs, pub)]
  <2>1. IsLoop(p, 0)
    OBVIOUS
  <2> HIDE DEF IsLoop
  <2> QED BY <2>1
<1>2. ASSUME NEW k \in G PROVE k + 1 \in G
  <2>1. PICK p : IsLoop(p, k)
    OBVIOUS
  <2> DEFINE q == [i \in 0 .. (k + 1) |-> IF i = k + 1 THEN After(p[k], k + 1) ELSE p[i]]
  <2>2. \A i \in 0 .. (k + 1) : q[i] = IF i = 0 THEN AuditStart(cs, pub) ELSE After(q[i - 1], i)
    <3> TAKE i \in 0 .. (k + 1)
    <3>1. CASE i = k + 1
      <4>1. q[i] = After(p[k], k + 1) /\ q[i - 1] = p[k] /\ i # 0
        BY <3>1
      <4> HIDE DEF q
      <4> QED BY <3>1, <4>1
    <3>2. CASE i # k + 1
      <4>1. i \in 0 .. k /\ q[i] = p[i] /\ (i # 0 => q[i - 1] = p[i - 1])
        BY <3>2
      <4>2. p[i] = IF i = 0 THEN AuditStart(cs, pub) ELSE After(p[i - 1], i)
        BY <4>1, <2>1
      <4> HIDE DEF q
      <4> QED BY <4>1, <4>2
    <3> QED BY <3>1, <3>2
  <2>3. IsLoop(q, k + 1)
    <3>1. q = [i \in 0 .. (k + 1) |-> q[i]]
      OBVIOUS
    <3> HIDE DEF q
    <3> QED BY <2>2, <3>1
  <2> HIDE DEF q, IsLoop
  <2> QED BY <2>3
<1>3. \E p : IsLoop(p, n)
  <2>1. G = Nat
    <3> HIDE DEF G
    <3> G \in SUBSET Nat
      BY DEF G
    <3> QED BY <1>1, <1>2, InductionOnSets
  <2> HIDE DEF IsLoop
  <2> QED BY <1>0, <2>1
<1> DEFINE loop == CHOOSE p : IsLoop(p, n)
<1>4. IsLoop(loop, n)
  <2> HIDE DEF IsLoop
  <2> QED BY <1>3
<1>5. ReplayRuns(cs, pub, t, B) = loop
  BY Zenon DEF ReplayRuns, After, AuditStart
<1> HIDE DEF loop
<1>6. loop[0] = AuditStart(cs, pub) /\ \A i \in 1 .. n : loop[i] = After(loop[i - 1], i)
  BY <1>0, <1>4
<1> QED BY <1>5, <1>6 DEF After

LEMMA MoreWeighMore ==
  ASSUME NEW n \in Nat, NEW w \in [1 .. n -> Nat], NEW S, NEW T, S \subseteq T
  PROVE  SumOver(w, S) <= SumOver(w, T)
<1>1. OnFacts(n, w, S) /\ OnFacts(n, w, T)
  BY OnTotals
<1>2. /\ On(w, S) \in [1 .. n -> Nat] /\ On(w, T) \in [1 .. n -> Nat]
      /\ SumOver(w, S) = Sum(On(w, S), n) /\ SumOver(w, T) = Sum(On(w, T), n)
      /\ \A i \in 1 .. n : On(w, S)[i] <= On(w, T)[i]
  <2>1. \A i \in 1 .. n : (IF i \in S THEN w[i] ELSE 0) <= (IF i \in T THEN w[i] ELSE 0)
    OBVIOUS
  <2> QED BY <1>1, <2>1 DEF OnFacts, Sum
<1> QED BY <1>2, SumBounds

\* When nothing is best, no project is affordable.
LEMMA NothingIsBest ==
  ASSUME NEW n \in Nat, NEW x, NEW ranks, DOMAIN ranks = 1 .. n,
         NEW cs \in Seq(Nat \ {0}), x.weights \in [1 .. n -> Nat], BestOf(x, ranks, cs) = None,
         NEW c \in 1 .. Len(cs), ~IsFunded(x, c)
  PROVE  SumOver(x.weights, Backers(x, ranks, c)) < cs[c]
<1> DEFINE sum == SupportOf(x, ranks, DOMAIN ranks, cs)
<1>1. sum \in [1 .. Len(cs) -> Nat] /\ sum[c] = SumOver(x.weights, Backers(x, ranks, c))
  <2>1. PickFacts(n, x, ranks, cs)
    BY PickIsSound
  <2> QED BY <2>1 DEF PickFacts
<1> HIDE DEF sum
<1>2. Len(cs) \in Nat /\ DOMAIN cs = 1 .. Len(cs) /\ cs \in Seq(Nat) /\ cs[c] \in Nat
  OBVIOUS
<1>3. Affordable(x, sum, cs) = {}
  <2> SUFFICES ASSUME Affordable(x, sum, cs) # {} PROVE FALSE
    OBVIOUS
  <2>1. BestOf(x, ranks, cs) \in Affordable(x, sum, cs)
    BY <1>1, <1>2, ArgmaxIsBest DEF BestOf, sum
  <2> QED BY <1>2, <2>1 DEF Affordable, None
<1>4. ~(sum[c] >= cs[c])
  BY <1>2, <1>3 DEF Affordable
<1>5. sum[c] \in Nat /\ cs[c] \in Nat
  BY <1>1, <1>2
<1>6. sum[c] < cs[c]
  BY ONLY <1>4, <1>5
<1> QED BY <1>1, <1>6

\* The first k of a row.
Front(w, k) == [i \in 1 .. k |-> w[i]]

LEMMA FrontWeighs ==
  ASSUME NEW n \in Nat, NEW w \in [1 .. n -> Nat], NEW k \in 0 .. n, NEW S
  PROVE  /\ Front(w, k) \in [1 .. k -> Nat] /\ k \in Nat
         /\ IsPart(k, On(Front(w, k), S), n, On(w, S), [j \in 0 .. k |-> j])
         /\ S \subseteq 1 .. k => SumOver(Front(w, k), S) = SumOver(w, S)
<1> DEFINE v == Front(w, k)
           e == [j \in 0 .. k |-> j]
<1>1. v \in [1 .. k -> Nat] /\ k \in Nat /\ k <= n /\ \A j \in 1 .. k : v[j] = w[j] /\ j \in 1 .. n
  BY DEF Front
<1> HIDE DEF v
<1>2. OnFacts(n, w, S) /\ OnFacts(k, v, S)
  BY <1>1, OnTotals
<1>3. /\ On(w, S) \in [1 .. n -> Nat] /\ On(v, S) \in [1 .. k -> Nat]
      /\ SumOver(w, S) = PrefixSum(On(w, S), n)[n] /\ SumOver(v, S) = PrefixSum(On(v, S), k)[k]
      /\ PrefixSum(On(w, S), n)[0] = 0
      /\ \A j \in 1 .. k : On(v, S)[j] = On(w, S)[j]
      /\ \A i \in 1 .. n : i \notin S => On(w, S)[i] = 0
  BY <1>1, <1>2 DEF OnFacts
<1>4. e \in [0 .. k -> 0 .. n] /\ \A j \in 1 .. k : e[j] = j /\ e[j - 1] = j - 1
  BY <1>1
<1>5. e[0] = 0 /\ e[k] = k
  BY <1>1
<1> HIDE DEF e
<1>6. IsPart(k, On(v, S), n, On(w, S), e)
  <2>1. \A j \in 1 .. k : j - 1 < j /\ \A i \in 1 .. n : ~(j - 1 < i /\ i < j)
    BY <1>1
  <2> DEFINE f == On(v, S)
             h == On(w, S)
  <2> HIDE DEF f, h
  <2>2. f \in [1 .. k -> Nat] /\ h \in [1 .. n -> Nat] /\ \A j \in 1 .. k : f[j] = h[j]
    BY <1>3 DEF f, h
  <2>3. ASSUME NEW j \in 1 .. k
        PROVE  /\ e[j - 1] < e[j] /\ f[j] = h[e[j]]
               /\ \A i \in 1 .. n : e[j - 1] < i /\ i < e[j] => h[i] = 0
    <3>1. e[j] = j /\ e[j - 1] = j - 1
      BY <1>4
    <3>2. j - 1 < j /\ (\A i \in 1 .. n : ~(j - 1 < i /\ i < j)) /\ f[j] = h[j]
      BY <2>1, <2>2
    <3>3. e[j - 1] < e[j] /\ f[j] = h[e[j]]
      BY ONLY <3>1, <3>2
    <3>4. \A i \in 1 .. n : ~(e[j - 1] < i /\ i < e[j])
      BY ONLY <3>1, <3>2
    <3> QED BY ONLY <3>3, <3>4
  <2>4. IsPart(k, f, n, h, e)
    BY <1>1, <1>4, <2>2, <2>3 DEF IsPart
  <2> QED BY <2>4 DEF f, h
<1>7. ASSUME S \subseteq 1 .. k PROVE SumOver(v, S) = SumOver(w, S)
  <2> DEFINE H == PrefixSum(On(w, S), n)
             F == PrefixSum(On(v, S), k)
  <2>1. k \in 0 .. k /\ k \in 0 .. n /\ n \in 0 .. n
    BY <1>1
  <2>2. H[n] = H[k]
    <3>1. \A i \in 1 .. n : k < i /\ i <= n => On(w, S)[i] = 0
      <4> TAKE i \in 1 .. n
      <4>1. k < i => i \notin 1 .. k
        BY <1>1
      <4> QED BY <1>3, <1>7, <4>1
    <3> QED BY <1>1, <1>3, <2>1, <3>1, NothingBetween
  <2>3. H[e[k]] = H[e[0]] + F[k] /\ F[k] \in Nat
    <3>1. PartFacts(k, On(v, S), n, On(w, S), e)
      BY <1>6, PartTotals
    <3> QED BY <2>1, <3>1 DEF PartFacts
  <2> HIDE DEF H, F
  <2>4. H[k] = F[k]
    BY <1>3, <1>5, <2>3 DEF H
  <2> QED BY <1>3, <2>2, <2>4 DEF H, F
<1> QED BY <1>1, <1>6, <1>7 DEF v, e

\* The ranks of the first np entries are also in `all`.
IsFront(np, n, front, all) ==
  /\ n \in Nat /\ np \in 0 .. n /\ DOMAIN front = 1 .. np /\ DOMAIN all = 1 .. n
  /\ \A i \in 1 .. np : front[i] = all[i]

\* What the audit holds when shared/pbear.ts holds x.
Audited(np, a, x) ==
  /\ IsPortRun(a) /\ a.ok
  /\ ~x.done => /\ a.weights = Front(x.weights, np) /\ a.funded = x.funded /\ a.spent = x.spent
                /\ a.level = x.level
  /\ x.done => a.level = None

\* The audit sees of each project the support of the public block.
LEMMA AuditSees ==
  ASSUME NEW np, NEW n, NEW front, NEW all, IsFront(np, n, front, all), NEW cs \in Seq(Nat \ {0}), NEW B,
         NEW x, RunOK(n, cs, B, x), ~x.done, NEW a, Audited(np, a, x)
  PROVE  /\ SupportOf(a, front, DOMAIN front, cs) = SupportOf(x, all, 1 .. np, cs)
         /\ Exhausted(a, cs, B) <=> Exhausted(x, cs, B)
         /\ \A c : IsFunded(a, c) <=> IsFunded(x, c)
         /\ \A c : Supporters(a, front, DOMAIN front, c) = Supporters(x, all, 1 .. np, c)
<1>1. /\ n \in Nat /\ np \in 0 .. n /\ DOMAIN front = 1 .. np /\ \A i \in 1 .. np : front[i] = all[i]
  BY DEF IsFront
<1>2. a.weights = Front(x.weights, np) /\ a.funded = x.funded /\ a.spent = x.spent /\ a.level = x.level
  BY DEF Audited
<1>3. x.weights \in [1 .. n -> Nat]
  BY DEF RunOK
<1>4. \A c : IsFunded(a, c) <=> IsFunded(x, c)
  BY <1>2 DEF IsFunded
<1>5. Exhausted(a, cs, B) <=> Exhausted(x, cs, B)
  BY <1>2, <1>4 DEF Exhausted
<1>6. \A i \in 1 .. np : a.weights[i] = x.weights[i]
  BY <1>2 DEF Front
<1>7. \A c : Supporters(a, front, DOMAIN front, c) = Supporters(x, all, 1 .. np, c)
  BY <1>1, <1>2, <1>6 DEF Supporters
<1>8. ASSUME NEW c PROVE SumOver(a.weights, Supporters(a, front, DOMAIN front, c))
                           = SumOver(x.weights, Supporters(x, all, 1 .. np, c))
  <2>1. Supporters(x, all, 1 .. np, c) \subseteq 1 .. np
    BY DEF Supporters
  <2>2. PICK T : T = Supporters(x, all, 1 .. np, c)
    OBVIOUS
  <2>3. PICK w : w = x.weights
    OBVIOUS
  <2>4. SumOver(Front(w, np), T) = SumOver(w, T)
    BY <1>1, <1>3, <2>1, <2>2, <2>3, FrontWeighs
  <2> QED BY <1>2, <1>7, <2>2, <2>3, <2>4
<1>9. SupportOf(a, front, DOMAIN front, cs) = SupportOf(x, all, 1 .. np, cs)
  BY <1>4, <1>8 DEF SupportOf
<1> QED BY <1>4, <1>5, <1>7, <1>9

\* It charges them what shared/pbear.ts charges them.
CanAudit(n, w, np, S, thr, total) ==
  n \in Nat /\ w \in [1 .. n -> Nat] /\ np \in 0 .. n /\ S \in SUBSET (1 .. n) /\ thr \in Nat /\ total \in Nat \ {0}

AuditsAlike(n, w, np, S, thr, total) ==
  PaidRow(np, Front(w, np), S \cap (1 .. np), thr, total, 0) = Front(PaidRow(n, w, S, thr, total, 0), np)

LEMMA AuditCharges ==
  ASSUME NEW n, NEW w, NEW np, NEW S, NEW thr, NEW total, CanAudit(n, w, np, S, thr, total)
  PROVE  AuditsAlike(n, w, np, S, thr, total)
<1>0. /\ n \in Nat /\ w \in [1 .. n -> Nat] /\ np \in 0 .. n /\ S \in SUBSET (1 .. n)
      /\ thr \in Nat /\ total \in Nat \ {0}
  BY DEF CanAudit
<1> DEFINE v == Front(w, np)
           T == S \cap (1 .. np)
           e == [j \in 0 .. np |-> j]
           p == PaidRow(np, v, T, thr, total, 0)
           q == PaidRow(n, w, S, thr, total, 0)
<1>1. v \in [1 .. np -> Nat] /\ np \in Nat /\ IsPart(np, On(v, S), n, On(w, S), e)
  BY <1>0, FrontWeighs
<1>2. On(v, T) = On(v, S)
  BY <1>0, <1>1 DEF On
<1>3. PrefixSum(On(w, S), n)[e[0]] = 0
  <2>1. OnFacts(n, w, S)
    BY <1>0, OnTotals
  <2>2. e[0] = 0
    BY <1>1
  <2> QED BY <2>1, <2>2 DEF OnFacts
<1>4. \A j \in 1 .. np : e[j - 1] = j - 1 /\ e[j] = j /\ j - 1 < j /\ v[j] = w[j]
  BY <1>0, <1>1 DEF Front
<1>5. DOMAIN p = 1 .. np /\ p = [j \in 1 .. np |-> p[j]]
  BY DEF PaidRow
<1> HIDE DEF v, T, e, p, q
<1>6. \A j \in 1 .. np : e[j - 1] < e[j] /\ v[j] = w[e[j]] => p[j] = q[e[j]]
  <2>1. PICK start : start = 0
    OBVIOUS
  <2>2. IsPart(np, On(v, T), n, On(w, S), e) /\ start = PrefixSum(On(w, S), n)[e[0]]
    BY <1>1, <1>2, <1>3, <2>1
  <2>3. \A j \in 1 .. np : e[j - 1] < e[j] /\ v[j] = w[e[j]]
          => PaidRow(np, v, T, thr, total, start)[j] = PaidRow(n, w, S, thr, total, 0)[e[j]]
    <3>1. PayTogether(np, v, T, n, w, S, e, thr, total, start)
      BY <1>0, <1>1, <2>2 DEF PayTogether
    <3>2. PayAlike(np, v, T, n, w, S, e, thr, total, start)
      BY <3>1, PartPays
    <3> QED BY <3>2 DEF PayAlike
  <2> QED BY <2>1, <2>3 DEF p, q
<1>7. \A j \in 1 .. np : p[j] = q[j]
  BY <1>0, <1>4, <1>6
<1>8. p = Front(q, np)
  BY <1>0, <1>5, <1>7 DEF Front
<1> QED BY <1>8 DEF AuditsAlike, p, q, v, T

\* One step of the audit follows one iteration: it never fails on the step that
\* was written, for an eligible project fits in the budget.
LEMMA AuditMoves ==
  ASSUME NEW np, NEW n, NEW front, NEW all, IsFront(np, n, front, all), NEW cs \in Seq(Nat \ {0}),
         NEW B \in Nat, NEW x, IsRound(n, x, all, cs, B), RunOK(n, cs, B, x), ~Exhausted(x, cs, B),
         NEW y, Iterates(n, x, y, all, cs, B), NEW a, Audited(np, a, x)
  PROVE  Audited(np, ReplayStep(a, Written(x, all, 1 .. np, cs), front, cs, B), y)
<1> DEFINE m    == Len(cs)
           b    == BestOf(x, all, cs)
           sup  == Backers(x, all, b)
           pub  == SupportOf(x, all, 1 .. np, cs)
           tot  == IF b = None THEN 0 ELSE SumOver(x.weights, sup)
           step == Written(x, all, 1 .. np, cs)
           z    == ReplayStep(a, step, front, cs, B)
<1>1. /\ n \in Nat /\ np \in 0 .. n /\ DOMAIN all = 1 .. n /\ 1 .. np \subseteq 1 .. n
      /\ m \in Nat /\ DOMAIN cs = 1 .. m /\ x.weights \in [1 .. n -> Nat] /\ ~x.done
      /\ x.level \in 1 .. m /\ x.spent \in Nat /\ Sum(x.weights, n) + x.spent <= B
  BY DEF IsFront, RunOK, IsRound
<1>2. /\ IsPortRun(a) /\ a.ok /\ a.weights = Front(x.weights, np) /\ a.funded = x.funded
      /\ a.spent = x.spent /\ a.level = x.level /\ a.level # None
  BY <1>1 DEF Audited, None
<1>3. /\ SupportOf(a, front, DOMAIN front, cs) = pub /\ ~Exhausted(a, cs, B)
      /\ \A c : IsFunded(a, c) <=> IsFunded(x, c)
      /\ \A c : Supporters(a, front, DOMAIN front, c) = Supporters(x, all, 1 .. np, c)
  BY <1>1, AuditSees
<1>4. step.level = x.level /\ step.pub = pub /\ step.best = b /\ step.total = tot
  <2>1. step = [level |-> x.level, pub |-> pub, best |-> b, total |-> tot]
    BY DEF Written
  <2> HIDE DEF pub, b, tot, step
  <2> QED BY <2>1
<1>5. \A c \in 1 .. m : /\ pub[c] = IF IsFunded(x, c) THEN 0 ELSE SumOver(x.weights, Supporters(x, all, 1 .. np, c))
                        /\ SumOver(x.weights, Supporters(x, all, 1 .. np, c)) <= SumOver(x.weights, Backers(x, all, c))
  <2> TAKE c \in 1 .. m
  <2>1. Supporters(x, all, 1 .. np, c) \subseteq Backers(x, all, c)
    BY <1>1 DEF Supporters, Backers
  <2>2. pub[c] = IF IsFunded(x, c) THEN 0 ELSE SumOver(x.weights, Supporters(x, all, 1 .. np, c))
    BY <1>1 DEF SupportOf
  <2> HIDE DEF pub
  <2> QED BY <1>1, <2>1, <2>2, MoreWeighMore
<1>6. \A S : SumOver(x.weights, S) \in Nat /\ SumOver(x.weights, S) <= Sum(x.weights, n) /\ Sum(x.weights, n) \in Nat
  BY <1>1, WeighsEnough
<1>7. z = IF (IF b = None THEN tot # 0 \/ ~(\A c \in 1 .. m : IsFunded(x, c) \/ pub[c] < cs[c])
                 ELSE ~(/\ b \in 1 .. m /\ ~IsFunded(x, b) /\ tot >= cs[b] /\ tot >= pub[b]
                        /\ x.spent + cs[b] <= B))
          THEN [a EXCEPT !.ok = FALSE]
          ELSE IF b = None THEN [a EXCEPT !.level = IF a.level >= m THEN None ELSE a.level + 1]
          ELSE Fund(a, Supporters(x, all, 1 .. np, b), b, cs, tot, 0)
  <2> HIDE DEF b, pub, tot, step
  <2> QED BY <1>1, <1>2, <1>3, <1>4 DEF ReplayStep, AuditStep, AuditReads
<1> HIDE DEF z, step, pub
<1>8. CASE b = None
  <2>1. \A c \in 1 .. m : IsFunded(x, c) \/ pub[c] < cs[c]
    <3> SUFFICES ASSUME NEW c \in 1 .. m, ~IsFunded(x, c) PROVE pub[c] < cs[c]
      OBVIOUS
    <3>1. SumOver(x.weights, Backers(x, all, c)) < cs[c]
      BY <1>1, <1>8, NothingIsBest
    <3>2. cs[c] \in Nat
      BY <1>1
    <3> QED BY <1>5, <1>6, <3>1, <3>2
  <2> DEFINE l == IF a.level >= m THEN None ELSE a.level + 1
  <2>2. z = [a EXCEPT !.level = l]
    BY <1>7, <1>8, <2>1
  <2> HIDE DEF l, b
  <2>3. z = Like(a, a.weights, a.funded, a.spent, l, a.done, a.transcript)
    <3>1. IsPortRun(a)
      BY <1>2
    <3>2. z = [weights |-> a.weights, funded |-> a.funded, spent |-> a.spent, level |-> l, done |-> a.done,
               transcript |-> a.transcript, ok |-> a.ok]
      BY <2>2, <3>1, RunFields, Zenon
    <3> QED BY <3>2 DEF Like
  <2>4. IsPortRun(z) /\ z.ok /\ z.weights = a.weights /\ z.funded = a.funded /\ z.spent = a.spent /\ z.level = l
    BY <1>2, <2>3, LikeFields
  <2>5. CASE x.level >= m
    <3>1. y.done
      BY <1>8, <2>5 DEF Iterates, b
    <3>2. l = None
      BY <1>2, <2>5 DEF l
    <3> QED BY <2>4, <3>1, <3>2 DEF Audited, z, step
  <2>6. CASE ~(x.level >= m)
    <3>1. ~y.done /\ y.weights = x.weights /\ y.funded = x.funded /\ y.spent = x.spent /\ y.level = x.level + 1
      BY <1>8, <2>6 DEF Iterates, b
    <3>2. l = x.level + 1
      BY <1>2, <2>6 DEF l
    <3> QED BY <1>2, <2>4, <3>1, <3>2 DEF Audited, z, step
  <2> QED BY <2>5, <2>6
<1>9. CASE b # None
  <2>1. PickFacts(n, x, all, cs)
    BY <1>1, PickIsSound
  <2>2. /\ b \in 1 .. m /\ ~IsFunded(x, b) /\ cs[b] \in Nat \ {0} /\ tot = SumOver(x.weights, sup)
        /\ tot \in Nat \ {0} /\ sup \in SUBSET (1 .. n) /\ tot >= cs[b]
    BY <1>9, <2>1 DEF PickFacts
  <2> HIDE DEF b, sup, tot
  <2>3. tot >= pub[b] /\ x.spent + cs[b] <= B
    <3>1. pub[b] <= tot
      BY <1>5, <2>2 DEF sup
    <3>2. pub[b] \in Nat
      BY <1>5, <1>6, <2>2
    <3>3. tot <= Sum(x.weights, n) /\ Sum(x.weights, n) \in Nat
      BY <1>6, <2>2
    <3> QED BY <1>1, <2>2, <3>1, <3>2, <3>3
  <2> DEFINE U == Supporters(x, all, 1 .. np, b)
  <2>4. z = Fund(a, U, b, cs, tot, 0)
    BY <1>7, <1>9, <2>2, <2>3
  <2>5. U = sup \cap (1 .. np)
    BY <1>1 DEF sup, Supporters, Backers
  <2> HIDE DEF U
  <2> DEFINE w == PaidRow(np, a.weights, U, cs[b], tot, 0)
             f == Append(a.funded, b)
             s == a.spent + cs[b]
  <2>6. z = Like(a, w, f, s, a.level, a.done, a.transcript)
    <3>1. a.weights \in [1 .. np -> Nat] /\ np \in Nat
      BY <1>1, <1>2 DEF Front
    <3>2. CanFund(np, a, U, b, cs, tot, 0)
      BY <1>1, <1>2, <2>2, <2>5, <3>1 DEF CanFund
    <3>3. FundFacts(np, a, U, b, cs, tot, 0)
      BY <3>2, FundLeaves
    <3>4. z = [weights |-> w, funded |-> f, spent |-> s, level |-> a.level, done |-> a.done,
               transcript |-> a.transcript, ok |-> a.ok]
      BY <2>4, <3>3, Zenon DEF FundFacts
    <3> HIDE DEF w, f, s
    <3> QED BY <3>4 DEF Like
  <2>7. w = Front(Charged(n, x.weights, sup, cs[b]), np)
    <3>1. CanAudit(n, x.weights, np, sup, cs[b], tot)
      BY <1>1, <2>2 DEF CanAudit
    <3>2. AuditsAlike(n, x.weights, np, sup, cs[b], tot)
      BY <3>1, AuditCharges
    <3> QED BY <1>2, <2>2, <2>5, <3>2 DEF AuditsAlike, Charged
  <2> HIDE DEF w, f, s
  <2>8. IsPortRun(z) /\ z.ok /\ z.weights = w /\ z.funded = f /\ z.spent = s /\ z.level = a.level
    BY <1>2, <2>6, LikeFields
  <2>9. /\ ~y.done /\ y.weights = Charged(n, x.weights, sup, cs[b])
        /\ y.funded = Append(x.funded, b) /\ y.spent = x.spent + cs[b] /\ y.level = x.level
    BY <1>9 DEF Iterates, b, sup
  <2> QED BY <1>2, <2>7, <2>8, <2>9 DEF Audited, z, step, f, s
<1> QED BY <1>8, <1>9

\* P is the public block of the course x that wrote t.
HasPublic(n, np, P, all, cs, B, x, t) ==
  /\ Course(n, all, 1 .. np, cs, B, x, t) /\ cs \in Seq(Nat \ {0}) /\ B \in Nat
  /\ IsFront(np, n, RanksOf(P), all) /\ AllValid(P, Len(cs))
  /\ NewRun(P).weights = Front(x[0].weights, np)
  /\ x[0].funded = << >> /\ x[0].spent = 0 /\ x[0].level = 1

\* u is where t begins.
Begins(u, t) == Len(u) \in 0 .. Len(t) /\ \A k \in 1 .. Len(u) : u[k] = t[k]

\* The audit reads as much of the transcript as there is.
LEMMA AuditFollows ==
  ASSUME NEW n, NEW np, NEW P, NEW all, NEW cs, NEW B, NEW x, NEW t,
         HasPublic(n, np, P, all, cs, B, x, t), NEW u, Begins(u, t)
  PROVE  \A k \in 0 .. Len(u) : Audited(np, ReplayRuns(cs, P, u, B)[k], x[k])
<1> DEFINE a == ReplayRuns(cs, P, u, B)
           l == Len(u)
           G == {k \in 0 .. l : Audited(np, a[k], x[k])}
<1>1. /\ cs \in Seq(Nat \ {0}) /\ B \in Nat /\ IsFront(np, n, RanksOf(P), all)
      /\ AllValid(P, Len(cs)) /\ NewRun(P).weights = Front(x[0].weights, np)
      /\ x[0].funded = << >> /\ x[0].spent = 0 /\ x[0].level = 1 /\ ~x[0].done
      /\ t \in Seq(StepRecords(Len(cs))) /\ Len(t) \in Nat
  BY DEF HasPublic, Course
<1>2. l \in 0 .. Len(t) /\ l \in Nat /\ \A k \in 1 .. l : u[k] = t[k] /\ k \in 1 .. Len(t)
  BY <1>1 DEF Begins
<1>3. /\ a[0] = AuditStart(cs, P)
      /\ \A k \in 1 .. l : a[k] = ReplayStep(a[k - 1], u[k], RanksOf(P), cs, B)
  <2>1. Len(u) \in Nat
    BY <1>2
  <2> QED BY <2>1, ReplayUnfold
<1> HIDE DEF a, l
<1>4. 0 \in G
  <2> DEFINE z == NewRun(P)
             v == AllValid(P, Len(cs))
  <2>1. /\ IsPortRun(z) /\ z.weights = Front(x[0].weights, np) /\ z.funded = << >> /\ z.spent = 0 /\ z.level = 1
    BY <1>1, FreshRun
  <2>2. a[0] = [z EXCEPT !.ok = v]
    BY <1>3, Zenon DEF AuditStart
  <2> HIDE DEF z, v
  <2>3. a[0] = [weights |-> z.weights, funded |-> z.funded, spent |-> z.spent,
                level |-> z.level, done |-> z.done, transcript |-> z.transcript, ok |-> v]
    BY <2>1, <2>2, RunFields
  <2>4. /\ a[0].weights = z.weights /\ a[0].funded = z.funded /\ a[0].spent = z.spent
        /\ a[0].level = z.level /\ a[0].ok = v /\ IsPortRun(a[0])
    BY <2>3 DEF IsPortRun
  <2>5. a[0].ok
    BY <1>1, <2>4 DEF v
  <2> QED BY <1>1, <1>2, <2>1, <2>4, <2>5 DEF Audited
<1>5. ASSUME NEW k \in G, k < l PROVE k + 1 \in G
  <2>1. k + 1 \in 1 .. l /\ k + 1 \in 0 .. l /\ (k + 1) - 1 = k /\ k + 1 \in 1 .. Len(t) /\ u[k + 1] = t[k + 1]
    BY <1>2, <1>5
  <2>2. a[k + 1] = ReplayStep(a[k], t[k + 1], RanksOf(P), cs, B)
    BY <1>3, <2>1
  <2>3. /\ IsRound(n, x[k], all, cs, B) /\ RunOK(n, cs, B, x[k])
        /\ ~Exhausted(x[k], cs, B)
        /\ t[k + 1] = Written(x[k], all, 1 .. np, cs)
        /\ Iterates(n, x[k], x[k + 1], all, cs, B)
    <3>1. \A j \in 1 .. Len(t) :
           /\ IsRound(n, x[j - 1], all, cs, B) /\ RunOK(n, cs, B, x[j - 1])
           /\ ~Exhausted(x[j - 1], cs, B)
           /\ t[j] = Written(x[j - 1], all, 1 .. np, cs)
           /\ Iterates(n, x[j - 1], x[j], all, cs, B)
      BY DEF HasPublic, Course
    <3> QED BY <2>1, <3>1
  <2>4. Audited(np, a[k], x[k])
    OBVIOUS
  <2>5. PICK v, y, b, z, f : v = x[k] /\ y = x[k + 1] /\ b = a[k] /\ z = a[k + 1] /\ f = RanksOf(P)
    OBVIOUS
  <2>6. Audited(np, ReplayStep(b, Written(v, all, 1 .. np, cs), f, cs, B), y)
    BY <1>1, <2>3, <2>4, <2>5, AuditMoves
  <2> QED BY <2>1, <2>2, <2>3, <2>5, <2>6
<1>6. 0 .. l \subseteq G
  <2>1. G \in SUBSET Nat
    BY <1>2
  <2> HIDE DEF G
  <2> QED BY <1>2, <1>4, <1>5, <2>1, InductionUpTo
<1> QED BY <1>6 DEF a, l

\* What shared/pbear.ts writes passes the audit.
LEMMA AuditPasses ==
  ASSUME NEW n, NEW np, NEW P, NEW all, NEW cs, NEW B, NEW x, NEW t,
         HasPublic(n, np, P, all, cs, B, x, t)
  PROVE  ReplayPublic(cs, P, t, B)
<1> DEFINE l == Len(t)
           a == ReplayRun(cs, P, t, B)
<1>1. /\ t \in Seq(StepRecords(Len(cs))) /\ l \in Nat /\ (x[l].done \/ Exhausted(x[l], cs, B))
      /\ cs \in Seq(Nat \ {0}) /\ IsFront(np, n, RanksOf(P), all)
  BY DEF HasPublic, Course
<1>2. Begins(t, t)
  BY <1>1 DEF Begins
<1>3. Audited(np, a, x[l])
  <2>1. l \in 0 .. l
    BY <1>1
  <2> QED BY <1>2, <2>1, AuditFollows DEF ReplayRun
<1> HIDE DEF a
<1>4. a.ok
  BY <1>3 DEF Audited
<1>5. CASE x[l].done
  <2>1. a.level = None
    BY <1>3, <1>5 DEF Audited
  <2> QED BY <1>4, <2>1 DEF ReplayPublic, a
<1>6. CASE ~x[l].done
  <2>1. Exhausted(a, cs, B)
    <3>1. a.funded = x[l].funded /\ a.spent = x[l].spent
      BY <1>3, <1>6 DEF Audited
    <3>2. Exhausted(x[l], cs, B)
      BY <1>1, <1>6
    <3> QED BY <3>1, <3>2 DEF Exhausted, IsFunded
  <2> QED BY <1>4, <2>1 DEF ReplayPublic, a
<1> QED BY <1>5, <1>6

-----------------------------------------------------------------------------
(* The chain of Noir proofs.                                               *)

\* What a Noir state holds of a row of weights: those of the sealed ballots
\* that could be read, which come after the first np.
Back(w, np, S) ==
  [i \in 1 .. NSealedMax |-> IF i <= Len(S) /\ S[i].ballot # << >> THEN w[np + i] ELSE 0]

\* The ranks of the ballots in S come after the first np in `all`.
IsBack(np, n, S, all) ==
  /\ np \in Nat /\ Len(S) \in Nat /\ n = np + Len(S) /\ NSealedMax \in Nat /\ Len(S) <= NSealedMax
  /\ DOMAIN all = 1 .. n
  /\ \A i \in 1 .. Len(S) :
       all[np + i] = IF S[i].ballot = << >> THEN << >> ELSE EffectiveRanks(S[i].ballot)

\* Where the i-th of a Noir state is in the whole row.
Place(np, S) == [j \in 0 .. NSealedMax |-> np + (IF j <= Len(S) THEN j ELSE Len(S))]

\* Those in T of whom a Noir state holds the weight.
Sealers(np, S, T) == {i \in 1 .. NSealedMax : i <= Len(S) /\ np + i \in T}

CanSeal(np, n, S, w, T) ==
  /\ np \in Nat /\ Len(S) \in Nat /\ n = np + Len(S) /\ NSealedMax \in Nat /\ Len(S) <= NSealedMax
  /\ w \in [1 .. n -> Nat] /\ T \in SUBSET (1 .. n)
  /\ \A i \in 1 .. Len(S) : np + i \in T => S[i].ballot # << >>

LEMMA BackIsPart ==
  ASSUME NEW np, NEW n, NEW S, NEW w, NEW T, CanSeal(np, n, S, w, T)
  PROVE  /\ Back(w, np, S) \in [1 .. NSealedMax -> Nat]
         /\ IsPart(NSealedMax, On(Back(w, np, S), Sealers(np, S, T)), n, On(w, T), Place(np, S))
<1> DEFINE N == NSealedMax
           l == Len(S)
           v == Back(w, np, S)
           U == Sealers(np, S, T)
           e == Place(np, S)
           f == On(v, U)
           h == On(w, T)
<1>1. /\ np \in Nat /\ l \in Nat /\ n = np + l /\ n \in Nat /\ N \in Nat /\ l <= N
      /\ w \in [1 .. n -> Nat] /\ T \in SUBSET (1 .. n)
      /\ \A i \in 1 .. l : np + i \in T => S[i].ballot # << >>
  BY DEF CanSeal
<1>2. v \in [1 .. N -> Nat] /\ \A i \in 1 .. l : np + i \in T => v[i] = w[np + i]
  <2>1. \A i \in 1 .. N : i <= l => np + i \in 1 .. n
    BY <1>1
  <2>2. \A i \in 1 .. N : (IF i <= l /\ S[i].ballot # << >> THEN w[np + i] ELSE 0) \in Nat
    BY <1>1, <2>1
  <2>3. \A i \in 1 .. l : i \in 1 .. N /\ i <= l
    BY <1>1
  <2> QED BY <1>1, <2>2, <2>3 DEF Back
<1>3. /\ e \in [0 .. N -> 0 .. n]
      /\ \A j \in 1 .. N : j <= l => e[j] = np + j /\ e[j - 1] = np + j - 1
      /\ \A j \in 1 .. N : ~(j <= l) => e[j] = e[j - 1]
  <2>1. \A j \in 0 .. N : np + (IF j <= l THEN j ELSE l) \in 0 .. n
    BY <1>1
  <2>2. \A j \in 1 .. N : j \in 0 .. N /\ j - 1 \in 0 .. N
    BY <1>1
  <2>3. e \in [0 .. N -> 0 .. n]
    BY <2>1 DEF Place
  <2>4. ASSUME NEW j \in 1 .. N, j <= l PROVE e[j] = np + j /\ e[j - 1] = np + j - 1
    <3>1. j - 1 <= l
      BY <1>1, <2>4
    <3>2. e[j] = np + j /\ e[j - 1] = np + (j - 1)
      BY <2>2, <2>4, <3>1 DEF Place
    <3> QED BY <1>1, <3>2
  <2>5. ASSUME NEW j \in 1 .. N, ~(j <= l) PROVE e[j] = e[j - 1]
    <3>1. e[j] = np + l
      BY <2>2, <2>5 DEF Place
    <3>2. j - 1 <= l => j - 1 = l
      BY <1>1, <2>5
    <3>3. e[j - 1] = np + (IF j - 1 <= l THEN j - 1 ELSE l)
      BY <2>2 DEF Place
    <3> QED BY <3>1, <3>2, <3>3
  <2> QED BY <2>3, <2>4, <2>5
<1>4. \A j \in 1 .. N : j \in U <=> j <= l /\ np + j \in T
  BY DEF Sealers
<1>5. f \in [1 .. N -> Nat] /\ \A j \in 1 .. N : f[j] = IF j \in U THEN v[j] ELSE 0
  BY <1>2 DEF On
<1>6. h \in [1 .. n -> Nat] /\ \A i \in 1 .. n : h[i] = IF i \in T THEN w[i] ELSE 0
  BY <1>1 DEF On
<1> HIDE DEF f, h, e, U, v, l, N
<1>7. ASSUME NEW j \in 1 .. N
      PROVE  \/ /\ e[j - 1] < e[j] /\ f[j] = h[e[j]]
                /\ \A i \in 1 .. n : e[j - 1] < i /\ i < e[j] => h[i] = 0
             \/ e[j - 1] = e[j] /\ f[j] = 0
  <2>1. CASE j <= l
    <3>0. e[j] = np + j /\ e[j - 1] = np + j - 1
      BY <1>3, <2>1
    <3>a. j \in Nat /\ j >= 1 /\ j \in 1 .. l
      BY <1>1, <2>1
    <3>b. np + j \in 1 .. n
      BY <1>1, <3>a
    <3>1. e[j] = np + j /\ e[j - 1] = np + j - 1 /\ j \in 1 .. l /\ np + j \in 1 .. n
      BY <3>0, <3>a, <3>b
    <3>2. f[j] = h[np + j]
      <4>1. CASE np + j \in T
        BY <1>2, <1>4, <1>5, <1>6, <2>1, <3>1, <4>1
      <4>2. CASE np + j \notin T
        BY <1>4, <1>5, <1>6, <2>1, <3>1, <4>2
      <4> QED BY <4>1, <4>2
    <3>3. np + j - 1 < np + j /\ \A i \in 1 .. n : ~(np + j - 1 < i /\ i < np + j)
      BY <1>1
    <3> QED BY <3>1, <3>2, <3>3
  <2>2. CASE ~(j <= l)
    BY <1>3, <1>4, <1>5, <2>2
  <2> QED BY <2>1, <2>2
<1>8. IsPart(N, f, n, h, e)
  BY <1>1, <1>3, <1>5, <1>6, <1>7 DEF IsPart
<1> QED BY <1>2, <1>8 DEF f, h, e, U, v, N

\* Those among the first k weigh in a row what they weigh in its front.
LEMMA FrontSum ==
  ASSUME NEW n \in Nat, NEW w \in [1 .. n -> Nat], NEW k \in 0 .. n, NEW S, S \subseteq 1 .. k
  PROVE  SumOver(Front(w, k), S) = SumOver(w, S)
BY FrontWeighs

\* Public and sealed support add up, and the public support is what stands
\* before the sealed one.
LEMMA HalvesAddUp ==
  ASSUME NEW np, NEW n, NEW S, NEW w, NEW T, CanSeal(np, n, S, w, T)
  PROVE  /\ SumOver(w, T \cap (1 .. np)) + SumOver(Back(w, np, S), Sealers(np, S, T)) = SumOver(w, T)
         /\ SumOver(w, T \cap (1 .. np)) = PrefixSum(On(w, T), n)[Place(np, S)[0]]
<1> DEFINE N == NSealedMax
           v == Back(w, np, S)
           U == Sealers(np, S, T)
           e == Place(np, S)
           F == PrefixSum(On(v, U), N)
           H == PrefixSum(On(w, T), n)
           A == T \cap (1 .. np)
<1>1. /\ np \in Nat /\ Len(S) \in Nat /\ n = np + Len(S) /\ n \in Nat /\ N \in Nat /\ Len(S) <= N
      /\ np \in 0 .. n /\ w \in [1 .. n -> Nat] /\ T \in SUBSET (1 .. n)
  BY DEF CanSeal
<1>2. v \in [1 .. N -> Nat] /\ IsPart(N, On(v, U), n, On(w, T), e)
  BY BackIsPart
<1>3. e[0] = np /\ e[N] = n
  <2>1. 0 \in 0 .. N /\ N \in 0 .. N /\ 0 <= Len(S)
    BY <1>1
  <2>2. e[0] = np + 0
    BY <2>1 DEF Place
  <2>3. e[N] = np + Len(S)
    <3>1. N <= Len(S) => N = Len(S)
      BY <1>1
    <3> QED BY <2>1, <3>1 DEF Place
  <2> QED BY <1>1, <2>2, <2>3
<1>4. H[n] = H[np] + F[N] /\ F[N] \in Nat /\ H[np] \in Nat
  <2>1. PartFacts(N, On(v, U), n, On(w, T), e)
    BY <1>2, PartTotals
  <2>2. N \in 0 .. N /\ np \in 0 .. n
    BY <1>1
  <2> QED BY <1>3, <2>1, <2>2 DEF PartFacts
<1>5. H[n] = SumOver(w, T) /\ F[N] = SumOver(v, U)
  <2>1. OnFacts(n, w, T) /\ OnFacts(N, v, U)
    BY <1>1, <1>2, OnTotals
  <2> QED BY <2>1 DEF OnFacts
<1>6. H[np] = SumOver(w, A)
  <2> DEFINE a == Front(w, np)
             i == [j \in 0 .. np |-> j]
             E == PrefixSum(On(a, T), np)
  <2>1. a \in [1 .. np -> Nat] /\ IsPart(np, On(a, T), n, On(w, T), i)
    BY <1>1, FrontWeighs
  <2>2. PartFacts(np, On(a, T), n, On(w, T), i)
    BY <2>1, PartTotals
  <2>3. np \in 0 .. np /\ i[0] = 0 /\ i[np] = np
    BY <1>1
  <2> HIDE DEF i
  <2>4. H[np] = H[0] + E[np] /\ E[np] \in Nat
    BY <2>2, <2>3 DEF PartFacts
  <2>5. H[0] = 0
    <3>1. OnFacts(n, w, T)
      BY <1>1, OnTotals
    <3> QED BY <3>1 DEF OnFacts
  <2>6. E[np] = SumOver(a, T)
    <3>1. OnFacts(np, a, T)
      BY <1>1, <2>1, OnTotals
    <3> QED BY <3>1 DEF OnFacts
  <2>7. On(a, T) = On(a, A)
    <3>1. DOMAIN a = 1 .. np
      BY DEF Front
    <3> HIDE DEF a
    <3> QED BY <3>1 DEF On
  <2>8. SumOver(a, T) = SumOver(a, A)
    BY <2>7 DEF SumOver
  <2>9. SumOver(a, A) = SumOver(w, A)
    <3>1. A \subseteq 1 .. np
      OBVIOUS
    <3> HIDE DEF A, a
    <3> QED BY <1>1, <3>1, FrontSum DEF a
  <2> QED BY <2>4, <2>5, <2>6, <2>8, <2>9
<1> HIDE DEF F, H, A, U, v, e
<1>7. SumOver(w, A) + SumOver(v, U) = SumOver(w, T)
  BY <1>4, <1>5, <1>6
<1> QED BY <1>3, <1>6, <1>7 DEF H, A, U, v, e

IsNoirState(s) ==
  s = [weights |-> s.weights, ballots |-> s.ballots, funded |-> s.funded, level |-> s.level,
       spent |-> s.spent, done |-> s.done, m |-> s.m, budget |-> s.budget, tHash |-> s.tHash,
       broken |-> s.broken]

\* A Noir state that differs from s in the fields named.
NoirLike(s, w, f, l, sp, d, t) ==
  [weights |-> w, ballots |-> s.ballots, funded |-> f, level |-> l, spent |-> sp, done |-> d,
   m |-> s.m, budget |-> s.budget, tHash |-> t, broken |-> s.broken]

LEMMA NoirLikeFields ==
  ASSUME NEW s, NEW w, NEW f, NEW l, NEW sp, NEW d, NEW t
  PROVE  LET y == NoirLike(s, w, f, l, sp, d, t)
         IN  /\ IsNoirState(y) /\ y.ballots = s.ballots /\ y.m = s.m /\ y.budget = s.budget
             /\ y.broken = s.broken /\ y.weights = w /\ y.funded = f /\ y.level = l /\ y.spent = sp
             /\ y.done = d /\ y.tHash = t
BY DEF NoirLike, IsNoirState

LEMMA NoirFields ==
  ASSUME NEW s, IsNoirState(s), NEW v
  PROVE  /\ [s EXCEPT !.done = v] = NoirLike(s, s.weights, s.funded, s.level, s.spent, v, s.tHash)
         /\ [s EXCEPT !.tHash = v] = NoirLike(s, s.weights, s.funded, s.level, s.spent, s.done, v)
         /\ [s EXCEPT !.level = v] = NoirLike(s, s.weights, s.funded, v, s.spent, s.done, s.tHash)
<1> DEFINE a == s.weights
           b == s.ballots
           c == s.funded
           d == s.level
           e == s.spent
           g == s.done
           h == s.m
           i == s.budget
           j == s.tHash
           k == s.broken
<1>1. s = [weights |-> a, ballots |-> b, funded |-> c, level |-> d, spent |-> e, done |-> g,
           m |-> h, budget |-> i, tHash |-> j, broken |-> k]
  BY DEF IsNoirState
<1> HIDE DEF a, b, c, d, e, g, h, i, j, k
<1>2. NoirLike(s, s.weights, s.funded, s.level, s.spent, v, s.tHash)
        = [weights |-> a, ballots |-> b, funded |-> c, level |-> d, spent |-> e, done |-> v,
           m |-> h, budget |-> i, tHash |-> j, broken |-> k]
  BY DEF NoirLike, a, b, c, d, e, g, h, i, j, k
<1>3. NoirLike(s, s.weights, s.funded, s.level, s.spent, s.done, v)
        = [weights |-> a, ballots |-> b, funded |-> c, level |-> d, spent |-> e, done |-> g,
           m |-> h, budget |-> i, tHash |-> v, broken |-> k]
  BY DEF NoirLike, a, b, c, d, e, g, h, i, j, k
<1>4. NoirLike(s, s.weights, s.funded, v, s.spent, s.done, s.tHash)
        = [weights |-> a, ballots |-> b, funded |-> c, level |-> v, spent |-> e, done |-> g,
           m |-> h, budget |-> i, tHash |-> j, broken |-> k]
  BY DEF NoirLike, a, b, c, d, e, g, h, i, j, k
<1>6. [s EXCEPT !.done = v]
        = [weights |-> a, ballots |-> b, funded |-> c, level |-> d, spent |-> e, done |-> v,
           m |-> h, budget |-> i, tHash |-> j, broken |-> k]
  BY <1>1
<1>7. [s EXCEPT !.tHash = v]
        = [weights |-> a, ballots |-> b, funded |-> c, level |-> d, spent |-> e, done |-> g,
           m |-> h, budget |-> i, tHash |-> v, broken |-> k]
  BY <1>1
<1>8. [s EXCEPT !.level = v]
        = [weights |-> a, ballots |-> b, funded |-> c, level |-> v, spent |-> e, done |-> g,
           m |-> h, budget |-> i, tHash |-> j, broken |-> k]
  BY <1>1
<1> QED BY <1>2, <1>3, <1>4, <1>6, <1>7, <1>8

\* The state that funding leaves.
LEMMA NoirCharged ==
  ASSUME NEW s, IsNoirState(s), NEW w, NEW f, NEW sp
  PROVE  [s EXCEPT !.weights = w, !.funded = f, !.spent = sp]
           = NoirLike(s, w, f, s.level, sp, s.done, s.tHash)
<1> DEFINE a == s.weights
           b == s.ballots
           c == s.funded
           d == s.level
           e == s.spent
           g == s.done
           h == s.m
           i == s.budget
           j == s.tHash
           k == s.broken
<1>1. s = [weights |-> a, ballots |-> b, funded |-> c, level |-> d, spent |-> e, done |-> g,
           m |-> h, budget |-> i, tHash |-> j, broken |-> k]
  BY DEF IsNoirState
<1> HIDE DEF a, b, c, d, e, g, h, i, j, k
<1>2. NoirLike(s, w, f, s.level, sp, s.done, s.tHash)
        = [weights |-> w, ballots |-> b, funded |-> f, level |-> d, spent |-> sp, done |-> g,
           m |-> h, budget |-> i, tHash |-> j, broken |-> k]
  BY DEF NoirLike, a, b, c, d, e, g, h, i, j, k
<1>3. [s EXCEPT !.weights = w, !.funded = f, !.spent = sp]
        = [weights |-> w, ballots |-> b, funded |-> f, level |-> d, spent |-> sp, done |-> g,
           m |-> h, budget |-> i, tHash |-> j, broken |-> k]
  <2> DEFINE p == [weights |-> w, ballots |-> b, funded |-> c, level |-> d, spent |-> e, done |-> g,
                   m |-> h, budget |-> i, tHash |-> j, broken |-> k]
             q == [weights |-> w, ballots |-> b, funded |-> f, level |-> d, spent |-> e, done |-> g,
                   m |-> h, budget |-> i, tHash |-> j, broken |-> k]
  <2>1. [s EXCEPT !.weights = w] = p
    BY <1>1
  <2>2. [p EXCEPT !.funded = f] = q
    OBVIOUS
  <2>3. [q EXCEPT !.spent = sp]
          = [weights |-> w, ballots |-> b, funded |-> f, level |-> d, spent |-> sp, done |-> g,
             m |-> h, budget |-> i, tHash |-> j, broken |-> k]
    OBVIOUS
  <2> HIDE DEF p, q
  <2>4. [s EXCEPT !.weights = w, !.funded = f, !.spent = sp]
          = [[[s EXCEPT !.weights = w] EXCEPT !.funded = f] EXCEPT !.spent = sp]
    OBVIOUS
  <2> QED BY <2>1, <2>2, <2>3, <2>4
<1> QED BY <1>2, <1>3

\* The ranks that a Noir state counts with.
SealedRanks(s) ==
  [i \in DOMAIN s.weights |-> IF s.weights[i] = 0 THEN << >> ELSE EffectiveRanks(s.ballots[i])]

Padded(S) == [i \in 1 .. NSealedMax |-> IF i <= Len(S) THEN S[i].ballot ELSE << >>]

\* What a Noir state shares with x while the tally goes on.
Mirrors(np, n, S, all, s, x) ==
  /\ IsBack(np, n, S, all) /\ x.weights \in [1 .. n -> Nat]
  /\ s.weights = Back(x.weights, np, S) /\ s.ballots = Padded(S) /\ s.level = x.level
  /\ s.funded = x.funded

\* The sealed supporters of a project are those that the state counts.
LEMMA SealedBackers ==
  ASSUME NEW np, NEW n, NEW S, NEW all, NEW s, NEW x, Mirrors(np, n, S, all, s, x), NEW c
  PROVE  /\ CanSeal(np, n, S, x.weights, Backers(x, all, c))
         /\ DOMAIN SealedRanks(s) = 1 .. NSealedMax
         /\ Supporters(s, SealedRanks(s), DOMAIN SealedRanks(s), c) = Sealers(np, S, Backers(x, all, c))
         /\ Supporters(x, all, 1 .. np, c) = Backers(x, all, c) \cap (1 .. np)
<1> DEFINE w == x.weights
           T == Backers(x, all, c)
           N == NSealedMax
           l == Len(S)
<1>1. /\ np \in Nat /\ l \in Nat /\ n = np + l /\ N \in Nat /\ l <= N /\ n \in Nat
      /\ DOMAIN all = 1 .. n /\ w \in [1 .. n -> Nat]
      /\ \A i \in 1 .. l : all[np + i] = IF S[i].ballot = << >> THEN << >> ELSE EffectiveRanks(S[i].ballot)
  BY DEF Mirrors, IsBack
<1>2. T = {i \in 1 .. n : all[i] # << >> /\ w[i] # 0 /\ all[i][c] <= x.level}
  BY <1>1 DEF Backers, Supporters
<1>3. \A i \in 1 .. l : i \in 1 .. N /\ i <= l /\ np + i \in 1 .. n
  <2> TAKE i \in 1 .. l
  <2>1. i \in Nat /\ i >= 1 /\ i <= l
    BY <1>1
  <2> QED BY <1>1, <2>1
<1>4. CanSeal(np, n, S, w, T)
  <2>1. \A i \in 1 .. l : np + i \in T => S[i].ballot # << >>
    BY <1>1, <1>2, <1>3
  <2>2. T \in SUBSET (1 .. n)
    BY <1>2
  <2> QED BY <1>1, <2>1, <2>2 DEF CanSeal
<1>5. /\ DOMAIN s.weights = 1 .. N /\ s.level = x.level
      /\ \A i \in 1 .. N : /\ s.weights[i] = IF i <= l /\ S[i].ballot # << >> THEN w[np + i] ELSE 0
                           /\ s.ballots[i] = IF i <= l THEN S[i].ballot ELSE << >>
  BY DEF Mirrors, Back, Padded
<1>6. DOMAIN SealedRanks(s) = 1 .. N
  BY <1>5 DEF SealedRanks
<1>7. \A i \in 1 .. N : SealedRanks(s)[i] = IF s.weights[i] = 0 THEN << >> ELSE EffectiveRanks(s.ballots[i])
  BY <1>5 DEF SealedRanks
<1>8. Supporters(s, SealedRanks(s), DOMAIN SealedRanks(s), c)
        = {i \in 1 .. N : SealedRanks(s)[i] # << >> /\ s.weights[i] # 0 /\ SealedRanks(s)[i][c] <= x.level}
  BY <1>5, <1>6 DEF Supporters
<1>9. ASSUME NEW i \in 1 .. N
      PROVE  SealedRanks(s)[i] # << >> /\ s.weights[i] # 0 /\ SealedRanks(s)[i][c] <= x.level
               <=> i <= l /\ np + i \in T
  <2>1. CASE i <= l
    <3>1. i \in 1 .. l
      BY <1>1, <2>1
    <3>2. np + i \in 1 .. n
      BY <1>3, <3>1
    <3>3. CASE S[i].ballot = << >>
      BY <1>1, <1>2, <1>5, <3>1, <3>3
    <3>4. CASE S[i].ballot # << >>
      <4>1. s.weights[i] = w[np + i] /\ s.ballots[i] = S[i].ballot
        BY <1>5, <2>1, <3>4
      <4>2. all[np + i] = EffectiveRanks(S[i].ballot)
        BY <1>1, <3>1, <3>4
      <4>3. CASE w[np + i] = 0
        BY <1>2, <4>1, <4>3
      <4>4. CASE w[np + i] # 0
        <5>1. SealedRanks(s)[i] = all[np + i]
          BY <1>7, <4>1, <4>2, <4>4
        <5> QED BY <1>2, <2>1, <3>2, <4>1, <4>4, <5>1
      <4> QED BY <4>3, <4>4
    <3> QED BY <3>3, <3>4
  <2>2. CASE ~(i <= l)
    BY <1>5, <2>2
  <2> QED BY <2>1, <2>2
<1> HIDE DEF T, N, l
<1>10. Supporters(s, SealedRanks(s), DOMAIN SealedRanks(s), c) = Sealers(np, S, T)
  BY <1>8, <1>9 DEF Sealers, N, l
<1>11. Supporters(x, all, 1 .. np, c) = T \cap (1 .. np)
  <2>1. \A i \in 1 .. np : i \in 1 .. n
    BY <1>1
  <2> QED BY <1>2, <2>1 DEF Supporters
<1> QED BY <1>4, <1>6, <1>10, <1>11 DEF T, N

\* The best project depends on a run only in what it has funded.
LEMMA ArgmaxSame ==
  ASSUME NEW s, NEW x, s.funded = x.funded, NEW sum, NEW cs, Len(cs) \in Nat
  PROVE  Argmax(s, sum, cs) = Argmax(x, sum, cs)
<1> DEFINE n == Len(cs)
           p == BestUpTo(s, sum, cs)
           q == BestUpTo(x, sum, cs)
           G == {c \in Nat : c <= n => p[c] = q[c]}
<1>1. /\ p[0] = q[0]
      /\ \A c \in 1 .. n : p[c] = IF Displaces(s, sum, cs, c, p[c - 1]) THEN c ELSE p[c - 1]
      /\ \A c \in 1 .. n : q[c] = IF Displaces(x, sum, cs, c, q[c - 1]) THEN c ELSE q[c - 1]
  BY BestUnfold
<1>2. \A c, b : Displaces(s, sum, cs, c, b) <=> Displaces(x, sum, cs, c, b)
  BY DEF Displaces, IsFunded, Better
<1> HIDE DEF p, q
<1>3. 0 \in G
  BY <1>1
<1>4. ASSUME NEW c \in G PROVE c + 1 \in G
  <2>1. c \in Nat /\ (c <= n => p[c] = q[c])
    OBVIOUS
  <2> SUFFICES ASSUME c + 1 <= n PROVE p[c + 1] = q[c + 1]
    BY <2>1
  <2>2. c + 1 \in 1 .. n /\ (c + 1) - 1 = c /\ c <= n
    BY <2>1
  <2>3. PICK d : d = c + 1
    OBVIOUS
  <2>4. /\ p[d] = IF Displaces(s, sum, cs, d, p[c]) THEN d ELSE p[c]
        /\ q[d] = IF Displaces(x, sum, cs, d, q[c]) THEN d ELSE q[c]
    BY <1>1, <2>2, <2>3
  <2> QED BY <1>2, <2>1, <2>2, <2>3, <2>4
<1>5. G = Nat
  <2> HIDE DEF G
  <2>1. G \in SUBSET Nat
    BY DEF G
  <2> QED BY <1>3, <1>4, <2>1, InductionOnSets
<1>6. p[n] = q[n]
  BY <1>5
<1> QED BY <1>6 DEF p, q, Argmax

\* A Noir state that funds.
CanNoirFund(s, S, c, cs, total, start) ==
  IsNoirState(s) /\ CanPay(NSealedMax, s.weights, S, cs[c], total, start)

NoirFundFacts(s, S, c, cs, total, start) ==
  Fund(s, S, c, cs, total, start)
    = NoirLike(s, PaidRow(NSealedMax, s.weights, S, cs[c], total, start), Append(s.funded, c),
               s.level, s.spent + cs[c], s.done, s.tHash)

LEMMA NoirFunds ==
  ASSUME NEW s, NEW S, NEW c, NEW cs, NEW total, NEW start, CanNoirFund(s, S, c, cs, total, start)
  PROVE  NoirFundFacts(s, S, c, cs, total, start)
<1> DEFINE w == s.weights
           N == NSealedMax
           D == Deduct(w, Ordered(N, S), CumulativeDeductions(w, Ordered(N, S), cs[c], total, start))
           y == Fund(s, S, c, cs, total, start)
           f == Append(s.funded, c)
           p == s.spent + cs[c]
<1>0. IsNoirState(s) /\ CanPay(N, w, S, cs[c], total, start)
  BY DEF CanNoirFund
<1>1. D = PaidRow(N, w, S, cs[c], total, start)
  BY <1>0, ListedCharge
<1>2. Len(w) = N
  <2>1. N \in Nat /\ w \in [1 .. N -> Nat]
    BY <1>0 DEF CanPay
  <2> QED BY <2>1
<1>3. y = [s EXCEPT !.weights = D, !.funded = f, !.spent = p]
  BY <1>2 DEF Fund
<1> HIDE DEF D, f, p, y
<1>4. y = NoirLike(s, D, f, s.level, p, s.done, s.tHash)
  <2>1. [s EXCEPT !.weights = D, !.funded = f, !.spent = p] = NoirLike(s, D, f, s.level, p, s.done, s.tHash)
    BY <1>0, NoirCharged
  <2> QED BY <1>3, <2>1
<1> QED BY <1>1, <1>4 DEF f, p, y, NoirFundFacts

\* What the state of the proofs is when shared/pbear.ts holds x.
Proven(np, S, cs, B, s, x) ==
  /\ IsNoirState(s) /\ ~s.broken /\ s.m = Len(cs) /\ s.budget = B /\ s.tHash = x.transcript
  /\ s.ballots = Padded(S) /\ s.funded = x.funded
  /\ ~x.done => s.weights = Back(x.weights, np, S) /\ s.spent = x.spent /\ s.level = x.level
  /\ x.done => s.done
  /\ s.done => x.done \/ Exhausted(x, cs, B)

\* A state of the proofs that a step is put to, while shared/pbear.ts holds x.
Judges(np, n, S, all, cs, B, s, x) ==
  /\ Mirrors(np, n, S, all, s, x) /\ IsRound(n, x, all, cs, B) /\ ~Exhausted(x, cs, B)
  /\ IsNoirState(s) /\ s.m = Len(cs) /\ s.budget = B /\ ~s.done /\ s.spent = x.spent

SeesWhole(np, all, cs, s, x) ==
  LET sealed == SupportOf(s, SealedRanks(s), DOMAIN SealedRanks(s), cs)
  IN  [c \in 1 .. s.m |-> SupportOf(x, all, 1 .. np, cs)[c] + sealed[c]]
        = SupportOf(x, all, DOMAIN all, cs)

\* The step of a proof sees the support that shared/pbear.ts saw, once the
\* public support in the step is added.
LEMMA ProofSees ==
  ASSUME NEW np, NEW n, NEW S, NEW all, NEW cs, NEW B, NEW s, NEW x, Judges(np, n, S, all, cs, B, s, x)
  PROVE  SeesWhole(np, all, cs, s, x)
<1> DEFINE sealed == SupportOf(s, SealedRanks(s), DOMAIN SealedRanks(s), cs)
           pub    == SupportOf(x, all, 1 .. np, cs)
           sum    == SupportOf(x, all, DOMAIN all, cs)
<1>0. /\ Mirrors(np, n, S, all, s, x) /\ IsRound(n, x, all, cs, B) /\ s.m = Len(cs)
      /\ cs \in Seq(Nat \ {0})
  BY DEF Judges, IsRound
<1>1. DOMAIN cs = 1 .. Len(cs) /\ Len(cs) \in Nat
  BY <1>0
<1>2. ASSUME NEW c \in 1 .. Len(cs) PROVE pub[c] + sealed[c] = sum[c]
  <2> DEFINE T == Backers(x, all, c)
             w == x.weights
  <2>1. IsFunded(s, c) <=> IsFunded(x, c)
    BY <1>0 DEF IsFunded, Mirrors
  <2>2. /\ pub[c] = IF IsFunded(x, c) THEN 0 ELSE SumOver(w, Supporters(x, all, 1 .. np, c))
        /\ sum[c] = IF IsFunded(x, c) THEN 0 ELSE SumOver(w, T)
    BY <1>1 DEF SupportOf, Backers
  <2>3. sealed[c] = IF IsFunded(s, c) THEN 0
                    ELSE SumOver(s.weights, Supporters(s, SealedRanks(s), DOMAIN SealedRanks(s), c))
    BY <1>1 DEF SupportOf
  <2>4. /\ CanSeal(np, n, S, w, T)
        /\ Supporters(s, SealedRanks(s), DOMAIN SealedRanks(s), c) = Sealers(np, S, T)
        /\ Supporters(x, all, 1 .. np, c) = T \cap (1 .. np)
    BY <1>0, SealedBackers
  <2>5. s.weights = Back(w, np, S)
    BY <1>0 DEF Mirrors
  <2> HIDE DEF T, w, pub, sum, sealed
  <2>6. SumOver(w, T \cap (1 .. np)) + SumOver(Back(w, np, S), Sealers(np, S, T)) = SumOver(w, T)
    BY <2>4, HalvesAddUp
  <2>7. CASE IsFunded(x, c)
    <3>1. pub[c] = 0 /\ sealed[c] = 0 /\ sum[c] = 0
      BY <2>1, <2>2, <2>3, <2>7
    <3> QED BY <3>1
  <2>8. CASE ~IsFunded(x, c)
    <3>1. /\ pub[c] = SumOver(w, T \cap (1 .. np)) /\ sum[c] = SumOver(w, T)
          /\ sealed[c] = SumOver(Back(w, np, S), Sealers(np, S, T))
      BY <2>1, <2>2, <2>3, <2>4, <2>5, <2>8
    <3> QED BY <2>6, <3>1
  <2> QED BY <2>7, <2>8
<1>3. sum = [c \in 1 .. Len(cs) |-> sum[c]]
  BY <1>1 DEF SupportOf
<1> HIDE DEF pub, sum, sealed
<1>4. [c \in 1 .. s.m |-> pub[c] + sealed[c]] = sum
  BY <1>0, <1>2, <1>3
<1> QED BY <1>4 DEF SeesWhole, pub, sum, sealed

\* What a step must say, its public support aside.
SaysTrue(step, x, all, cs) ==
  /\ step.level = x.level /\ step.best = BestOf(x, all, cs)
  /\ step.total = IF step.best = None THEN 0 ELSE SumOver(x.weights, Backers(x, all, step.best))

Taken(s, step) == [s EXCEPT !.tHash = Append(s.tHash, step)]

FundsWith(np, S, s, cs, step, sup) ==
  Fund(Taken(s, step), Sealers(np, S, sup), step.best, cs, step.total, step.pub[step.best])

\* What the proof of a step makes of it when its public support is right.
Verdict(np, S, all, cs, B, s, x, step) ==
  LET funds == FundsWith(np, S, s, cs, step, Backers(x, all, step.best))
  IN  IF ~SaysTrue(step, x, all, cs) THEN [s EXCEPT !.broken = TRUE]
      ELSE IF step.best = None
        THEN IF x.level >= Len(cs) THEN [Taken(s, step) EXCEPT !.done = TRUE]
             ELSE [Taken(s, step) EXCEPT !.level = @ + 1]
      ELSE [funds EXCEPT !.done = Exhausted(funds, cs, B)]

LEMMA ProofReads ==
  ASSUME NEW np, NEW n, NEW S, NEW all, NEW cs, NEW B, NEW s, NEW x,
         Judges(np, n, S, all, cs, B, s, x), NEW step, step.pub = SupportOf(x, all, 1 .. np, cs)
  PROVE  TallyStep(s, cs, step) = Verdict(np, S, all, cs, B, s, x, step)
<1> DEFINE ranks  == SealedRanks(s)
           sealed == SupportOf(s, ranks, DOMAIN ranks, cs)
           sum    == [c \in 1 .. s.m |-> step.pub[c] + sealed[c]]
           whole  == SupportOf(x, all, DOMAIN all, cs)
           b      == step.best
           total  == IF b = None THEN 0 ELSE sum[b]
           funds  == Fund(Taken(s, step), Supporters(s, ranks, DOMAIN ranks, b), b, cs, step.total, step.pub[b])
           best   == BestOf(x, all, cs)
<1>1. /\ Mirrors(np, n, S, all, s, x) /\ IsRound(n, x, all, cs, B) /\ ~Exhausted(x, cs, B)
      /\ IsNoirState(s) /\ s.m = Len(cs) /\ s.budget = B /\ ~s.done /\ s.spent = x.spent
  BY DEF Judges
<1>2. /\ n \in Nat /\ DOMAIN all = 1 .. n /\ cs \in Seq(Nat \ {0}) /\ x.weights \in [1 .. n -> Nat]
      /\ Len(cs) \in Nat /\ DOMAIN cs = 1 .. Len(cs) /\ s.level = x.level /\ s.funded = x.funded
  BY <1>1 DEF IsRound, Mirrors
<1>3. sum = whole
  <2>1. sum = [c \in 1 .. s.m |-> SupportOf(x, all, 1 .. np, cs)[c] + sealed[c]]
    OBVIOUS
  <2>2. SeesWhole(np, all, cs, s, x)
    BY ProofSees
  <2> QED BY <2>1, <2>2 DEF SeesWhole
<1>4. Argmax(s, sum, cs) = best
  <2> HIDE DEF sum, whole
  <2> QED BY <1>2, <1>3, ArgmaxSame DEF BestOf, whole, best
<1>5. ~Exhausted(s, cs, s.budget)
  <2>1. \A c : IsFunded(s, c) <=> IsFunded(x, c)
    BY <1>2 DEF IsFunded
  <2> QED BY <1>1, <2>1 DEF Exhausted
<1>6. TallyStep(s, cs, step) =
        IF step.level # s.level \/ b # Argmax(s, sum, cs) \/ step.total # total
          THEN [s EXCEPT !.broken = TRUE]
        ELSE IF b = None
          THEN IF s.level >= s.m THEN [Taken(s, step) EXCEPT !.done = TRUE]
               ELSE [Taken(s, step) EXCEPT !.level = @ + 1]
        ELSE [funds EXCEPT !.done = Exhausted(funds, cs, s.budget)]
  <2>1. TallyStep(s, cs, step) =
        IF s.done THEN s
        ELSE IF Exhausted(s, cs, s.budget) THEN [s EXCEPT !.done = TRUE]
        ELSE IF step.level # s.level \/ b # Argmax(s, sum, cs) \/ step.total # total
          THEN [s EXCEPT !.broken = TRUE]
        ELSE IF b = None
          THEN IF s.level >= s.m THEN [Taken(s, step) EXCEPT !.done = TRUE]
               ELSE [Taken(s, step) EXCEPT !.level = @ + 1]
        ELSE [funds EXCEPT !.done = Exhausted(funds, cs, s.budget)]
    BY Zenon DEF TallyStep, SealedRanks, Taken
  <2> HIDE DEF sum, funds, total
  <2> QED BY <1>1, <1>5, <2>1
<1>7. funds = FundsWith(np, S, s, cs, step, Backers(x, all, b))
  <2>1. Supporters(s, ranks, DOMAIN ranks, b) = Sealers(np, S, Backers(x, all, b))
    BY <1>1, SealedBackers
  <2> QED BY <2>1 DEF FundsWith
<1>8. b = best /\ b # None => total = SumOver(x.weights, Backers(x, all, b))
  <2>1. PickFacts(n, x, all, cs)
    BY <1>2, PickIsSound
  <2>2. best # None => whole[best] = SumOver(x.weights, Backers(x, all, best))
    BY <2>1 DEF PickFacts
  <2> HIDE DEF sum, whole, best, b
  <2> QED BY <1>3, <2>2
<1>9. step.level # s.level \/ b # Argmax(s, sum, cs) \/ step.total # total <=> ~SaysTrue(step, x, all, cs)
  <2> HIDE DEF sum
  <2>1. b = None => total = 0
    OBVIOUS
  <2> HIDE DEF total
  <2> QED BY <1>2, <1>4, <1>8, <2>1 DEF SaysTrue
<1> HIDE DEF sum, funds, total
<1> QED BY <1>1, <1>2, <1>6, <1>7, <1>9 DEF Verdict

\* The proofs charge those they hold what shared/pbear.ts charges them.
LEMMA SealedPay ==
  ASSUME NEW np, NEW n, NEW S, NEW w, NEW T, CanSeal(np, n, S, w, T), NEW thr \in Nat, NEW total \in Nat \ {0}
  PROVE  PaidRow(NSealedMax, Back(w, np, S), Sealers(np, S, T), thr, total, SumOver(w, T \cap (1 .. np)))
           = Back(PaidRow(n, w, T, thr, total, 0), np, S)
<1> DEFINE N == NSealedMax
           l == Len(S)
           v == Back(w, np, S)
           U == Sealers(np, S, T)
           e == Place(np, S)
           start == SumOver(w, T \cap (1 .. np))
           p == PaidRow(N, v, U, thr, total, start)
           q == PaidRow(n, w, T, thr, total, 0)
<1>1. /\ np \in Nat /\ l \in Nat /\ n = np + l /\ n \in Nat /\ N \in Nat /\ l <= N
      /\ w \in [1 .. n -> Nat]
  BY DEF CanSeal
<1>2. v \in [1 .. N -> Nat] /\ IsPart(N, On(v, U), n, On(w, T), e)
  BY BackIsPart
<1>3. start = PrefixSum(On(w, T), n)[e[0]]
  BY HalvesAddUp
<1>4. \A j \in 1 .. N : v[j] = IF j <= l /\ S[j].ballot # << >> THEN w[np + j] ELSE 0
  BY DEF Back
<1>5. \A j \in 1 .. N : On(v, U)[j] = IF j \in U THEN v[j] ELSE 0
  BY <1>2 DEF On
<1>6. \A j \in 1 .. N : j <= l => e[j] = np + j /\ e[j - 1] < e[j]
  <2> TAKE j \in 1 .. N
  <2> HAVE j <= l
  <2>1. j \in 0 .. N /\ j - 1 \in 0 .. N /\ j - 1 <= l /\ np + (j - 1) < np + j
    BY <1>1
  <2>2. e[j] = np + j /\ e[j - 1] = np + (j - 1)
    BY <2>1 DEF Place
  <2> QED BY <2>1, <2>2
<1>7. p = [j \in 1 .. N |-> p[j]]
  BY DEF PaidRow
<1>8. Back(q, np, S) = [j \in 1 .. N |-> IF j <= l /\ S[j].ballot # << >> THEN q[np + j] ELSE 0]
  BY DEF Back
<1> HIDE DEF v, U, e, start
<1>9. PayAlike(N, v, U, n, w, T, e, thr, total, start)
  <2>1. PayTogether(N, v, U, n, w, T, e, thr, total, start)
    BY <1>1, <1>2, <1>3 DEF PayTogether
  <2> QED BY <2>1, PartPays
<1>10. /\ \A j \in 1 .. N : e[j - 1] < e[j] /\ v[j] = w[e[j]] => p[j] = q[e[j]]
       /\ \A j \in 1 .. N : On(v, U)[j] = 0 => p[j] = v[j]
  BY <1>9 DEF PayAlike
<1> HIDE DEF p, q, N, l
<1>11. ASSUME NEW j \in 1 .. N
       PROVE  p[j] = IF j <= l /\ S[j].ballot # << >> THEN q[np + j] ELSE 0
  <2>1. CASE j <= l /\ S[j].ballot # << >>
    <3>1. e[j] = np + j /\ e[j - 1] < e[j] /\ v[j] = w[np + j]
      BY <1>4, <1>6, <2>1
    <3>2. v[j] = w[e[j]]
      BY <3>1
    <3>3. p[j] = q[e[j]]
      BY <1>10, <3>1, <3>2
    <3> QED BY <2>1, <3>1, <3>3
  <2>2. CASE ~(j <= l /\ S[j].ballot # << >>)
    <3>1. v[j] = 0
      BY <1>4, <2>2
    <3>2. On(v, U)[j] = 0
      BY <1>5, <3>1
    <3> QED BY <1>10, <2>2, <3>1, <3>2
  <2> QED BY <2>1, <2>2
<1> QED BY <1>7, <1>8, <1>11 DEF p, q, N, l, v, U, start

LEMMA ProofJudges ==
  ASSUME NEW np, NEW n, NEW S, NEW all, NEW cs, NEW B, NEW s, NEW x, IsBack(np, n, S, all),
         Proven(np, S, cs, B, s, x), IsRound(n, x, all, cs, B), ~Exhausted(x, cs, B)
  PROVE  Judges(np, n, S, all, cs, B, s, x)
<1>1. x.weights \in [1 .. n -> Nat] /\ ~x.done
  BY DEF IsRound
<1>2. /\ IsNoirState(s) /\ s.m = Len(cs) /\ s.budget = B /\ s.ballots = Padded(S) /\ s.funded = x.funded
      /\ s.weights = Back(x.weights, np, S) /\ s.spent = x.spent /\ s.level = x.level /\ ~s.done
  BY <1>1 DEF Proven
<1>3. Mirrors(np, n, S, all, s, x)
  BY <1>1, <1>2 DEF Mirrors
<1> QED BY <1>2, <1>3 DEF Judges

\* What is taken into the hash leaves the rest.
LEMMA TakenFields ==
  ASSUME NEW s, IsNoirState(s), NEW step
  PROVE  LET y == Taken(s, step)
         IN  /\ IsNoirState(y) /\ y.ballots = s.ballots /\ y.m = s.m /\ y.budget = s.budget
             /\ y.broken = s.broken /\ y.weights = s.weights /\ y.funded = s.funded
             /\ y.level = s.level /\ y.spent = s.spent /\ y.done = s.done
             /\ y.tHash = Append(s.tHash, step)
<1> DEFINE h == Append(s.tHash, step)
<1>1. Taken(s, step) = [s EXCEPT !.tHash = h]
  BY DEF Taken
<1> HIDE DEF h
<1>2. Taken(s, step) = NoirLike(s, s.weights, s.funded, s.level, s.spent, s.done, h)
  BY <1>1, NoirFields
<1> DEFINE y == Taken(s, step)
<1>3. y = NoirLike(s, s.weights, s.funded, s.level, s.spent, s.done, h)
  BY <1>2
<1> HIDE DEF y
<1>4. /\ IsNoirState(y) /\ y.ballots = s.ballots /\ y.m = s.m /\ y.budget = s.budget
      /\ y.broken = s.broken /\ y.weights = s.weights /\ y.funded = s.funded
      /\ y.level = s.level /\ y.spent = s.spent /\ y.done = s.done /\ y.tHash = h
  BY <1>3, NoirLikeFields
<1> QED BY <1>4 DEF h, y

\* Every step that shared/pbear.ts wrote can be proved.
LEMMA ProofTakes ==
  ASSUME NEW np, NEW n, NEW S, NEW all, NEW cs, NEW B, NEW s, NEW x, NEW y, IsBack(np, n, S, all),
         Proven(np, S, cs, B, s, x), IsRound(n, x, all, cs, B), ~Exhausted(x, cs, B),
         Iterates(n, x, y, all, cs, B),
         y.transcript = Append(x.transcript, Written(x, all, 1 .. np, cs))
  PROVE  Proven(np, S, cs, B, TallyStep(s, cs, Written(x, all, 1 .. np, cs)), y)
<1> DEFINE step == Written(x, all, 1 .. np, cs)
           z == TallyStep(s, cs, step)
           t == Taken(s, step)
           b == BestOf(x, all, cs)
           T == Backers(x, all, b)
           w == x.weights
<1>1. Judges(np, n, S, all, cs, B, s, x)
  BY ProofJudges
<1>2. /\ IsNoirState(s) /\ ~s.broken /\ s.m = Len(cs) /\ s.budget = B /\ s.tHash = x.transcript
      /\ s.ballots = Padded(S) /\ s.funded = x.funded /\ ~s.done /\ ~x.done
      /\ s.weights = Back(w, np, S) /\ s.spent = x.spent /\ s.level = x.level
  BY <1>1 DEF Proven, IsRound, Judges
<1>3. /\ n \in Nat /\ DOMAIN all = 1 .. n /\ cs \in Seq(Nat \ {0}) /\ w \in [1 .. n -> Nat]
  BY DEF IsRound
<1>4. /\ step.level = x.level /\ step.pub = SupportOf(x, all, 1 .. np, cs) /\ step.best = b
      /\ step.total = IF b = None THEN 0 ELSE SumOver(w, T)
  BY DEF Written
<1> HIDE DEF step, z
<1>5. SaysTrue(step, x, all, cs)
  BY <1>4 DEF SaysTrue
<1>6. z = IF b = None
          THEN IF x.level >= Len(cs) THEN [t EXCEPT !.done = TRUE] ELSE [t EXCEPT !.level = @ + 1]
          ELSE LET funds == FundsWith(np, S, s, cs, step, T)
               IN  [funds EXCEPT !.done = Exhausted(funds, cs, B)]
  <2>1. z = Verdict(np, S, all, cs, B, s, x, step)
    BY <1>1, <1>4, ProofReads DEF z
  <2> QED BY <1>4, <1>5, <2>1 DEF Verdict
<1>7. /\ IsNoirState(t) /\ t.ballots = s.ballots /\ t.m = s.m /\ t.budget = s.budget
      /\ t.broken = s.broken /\ t.weights = s.weights /\ t.funded = s.funded
      /\ t.level = s.level /\ t.spent = s.spent /\ t.done = s.done
      /\ t.tHash = y.transcript
  BY <1>2, TakenFields DEF step
<1> HIDE DEF t, b, T, w
<1>8. CASE b = None /\ x.level >= Len(cs)
  <2>1. y.done /\ y.funded = x.funded
    BY <1>8 DEF Iterates, b
  <2> DEFINE yes == TRUE
  <2>2. z = [t EXCEPT !.done = yes]
    BY <1>6, <1>8
  <2> HIDE DEF yes
  <2>3. z = NoirLike(t, t.weights, t.funded, t.level, t.spent, yes, t.tHash)
    BY <1>7, <2>2, NoirFields
  <2>4. /\ IsNoirState(z) /\ z.ballots = t.ballots /\ z.m = t.m /\ z.budget = t.budget
        /\ z.broken = t.broken /\ z.funded = t.funded /\ z.done = yes /\ z.tHash = t.tHash
    BY <2>3, NoirLikeFields
  <2>5. z.done
    BY <2>4 DEF yes
  <2> QED BY <1>2, <1>7, <2>1, <2>4, <2>5 DEF Proven, z, step
<1>9. CASE b = None /\ ~(x.level >= Len(cs))
  <2>1. /\ ~y.done /\ y.weights = w /\ y.funded = x.funded /\ y.spent = x.spent /\ y.level = x.level + 1
    BY <1>9 DEF Iterates, b, w
  <2>2. z = [t EXCEPT !.level = t.level + 1]
    BY <1>6, <1>9
  <2>3. z = NoirLike(t, t.weights, t.funded, t.level + 1, t.spent, t.done, t.tHash)
    BY <1>7, <2>2, NoirFields
  <2>4. /\ IsNoirState(z) /\ z.ballots = t.ballots /\ z.m = t.m /\ z.budget = t.budget
        /\ z.broken = t.broken /\ z.funded = t.funded /\ z.done = t.done /\ z.tHash = t.tHash
        /\ z.weights = t.weights /\ z.level = t.level + 1 /\ z.spent = t.spent
    BY <2>3, NoirLikeFields
  <2> QED BY <1>2, <1>7, <2>1, <2>4 DEF Proven, z, step
<1>10. CASE b # None
  <2> DEFINE thr == cs[b]
             total == SumOver(w, T)
             start == SumOver(w, T \cap (1 .. np))
             U == Sealers(np, S, T)
             v == PaidRow(NSealedMax, s.weights, U, thr, total, start)
             f == Append(s.funded, b)
             sp == s.spent + thr
             funds == FundsWith(np, S, s, cs, step, T)
  <2>1. /\ b \in 1 .. Len(cs) /\ ~IsFunded(x, b) /\ thr \in Nat /\ total \in Nat \ {0}
    <3>1. PickFacts(n, x, all, cs)
      BY <1>3, PickIsSound DEF w
    <3> QED BY <1>10, <3>1 DEF PickFacts, b, T, w
  <2>2. ~y.done /\ y.weights = PaidRow(n, w, T, thr, total, 0) /\ y.funded = f /\ y.spent = sp /\ y.level = x.level
    BY <1>2, <1>10 DEF Iterates, b, T, w, Charged
  <2>3. CanSeal(np, n, S, w, T) /\ Supporters(x, all, 1 .. np, b) = T \cap (1 .. np)
    <3>1. Mirrors(np, n, S, all, s, x)
      BY <1>1 DEF Judges
    <3> QED BY <3>1, SealedBackers DEF T, w
  <2>4. step.pub[b] = start /\ step.best = b /\ step.total = total
    <3>1. step.pub[b] = SumOver(w, Supporters(x, all, 1 .. np, b))
      BY <1>3, <1>4, <2>1 DEF SupportOf, w
    <3> QED BY <1>4, <1>10, <2>3, <3>1
  <2>5. start \in Nat /\ U \in SUBSET (1 .. NSealedMax)
    <3>1. SumOver(w, T \cap (1 .. np)) \in Nat
      <4>1. OnFacts(n, w, T \cap (1 .. np))
        BY <1>3, OnTotals
      <4> QED BY <4>1 DEF OnFacts
    <3> QED BY <3>1 DEF Sealers
  <2>6. s.weights \in [1 .. NSealedMax -> Nat]
    BY <1>2, <2>3, BackIsPart
  <2>7. CanPay(NSealedMax, t.weights, U, thr, total, start)
    BY <1>7, <2>1, <2>3, <2>5, <2>6 DEF CanPay, CanSeal
  <2>8. funds = NoirLike(t, v, f, t.level, sp, t.done, t.tHash)
    <3>1. funds = Fund(t, U, b, cs, total, start)
      BY <2>4 DEF FundsWith, t
    <3> HIDE DEF funds, total, start, U
    <3>2. CanNoirFund(t, U, b, cs, total, start)
      BY <1>7, <2>7 DEF CanNoirFund
    <3>3. NoirFundFacts(t, U, b, cs, total, start)
      BY <3>2, NoirFunds
    <3> QED BY <1>7, <3>1, <3>3 DEF NoirFundFacts
  <2>9. v = Back(y.weights, np, S)
    <3>1. v = Back(PaidRow(n, w, T, thr, total, 0), np, S)
      <4> HIDE DEF thr, total
      <4>1. PaidRow(NSealedMax, Back(w, np, S), Sealers(np, S, T), thr, total, SumOver(w, T \cap (1 .. np)))
              = Back(PaidRow(n, w, T, thr, total, 0), np, S)
        BY <2>1, <2>3, SealedPay
      <4> QED BY <1>2, <4>1
    <3> QED BY <2>2, <3>1
  <2> DEFINE d == Exhausted(funds, cs, B)
  <2>10. z = [funds EXCEPT !.done = d]
    BY <1>6, <1>10
  <2> HIDE DEF d, funds, v, f, sp
  <2>11. /\ IsNoirState(funds) /\ funds.ballots = t.ballots /\ funds.m = t.m /\ funds.budget = t.budget
         /\ funds.broken = t.broken /\ funds.weights = v /\ funds.funded = f /\ funds.level = t.level
         /\ funds.spent = sp /\ funds.tHash = t.tHash
    BY <2>8, NoirLikeFields
  <2>12. z = NoirLike(funds, funds.weights, funds.funded, funds.level, funds.spent, d, funds.tHash)
    BY <2>10, <2>11, NoirFields
  <2>13. /\ IsNoirState(z) /\ z.ballots = funds.ballots /\ z.m = funds.m /\ z.budget = funds.budget
         /\ z.broken = funds.broken /\ z.funded = funds.funded /\ z.done = d /\ z.tHash = funds.tHash
         /\ z.weights = funds.weights /\ z.level = funds.level /\ z.spent = funds.spent
    BY <2>12, NoirLikeFields
  <2>14. d => Exhausted(y, cs, B)
    <3>1. \A c : IsFunded(funds, c) <=> IsFunded(y, c)
      BY <2>2, <2>11 DEF IsFunded
    <3>2. funds.spent = y.spent
      BY <2>2, <2>11
    <3> QED BY <3>1, <3>2 DEF Exhausted, d
  <2>15. z.done => Exhausted(y, cs, B)
    BY <2>13, <2>14
  <2> QED BY <1>2, <1>7, <2>2, <2>9, <2>11, <2>13, <2>15 DEF Proven, z, step
<1> QED BY <1>8, <1>9, <1>10

\* S is the sealed block of the course x that wrote t.
HasSealed(n, np, S, all, cs, B, x, t) ==
  /\ Course(n, all, 1 .. np, cs, B, x, t) /\ cs \in Seq(Nat \ {0}) /\ B \in Nat
  /\ IsBack(np, n, S, all) /\ x[0].transcript = << >>

\* After k iterations k steps were written.
LEMMA CourseWrites ==
  ASSUME NEW n, NEW np, NEW S, NEW all, NEW cs, NEW B, NEW x, NEW t,
         HasSealed(n, np, S, all, cs, B, x, t), NEW k \in 0 .. Len(t)
  PROVE  x[k].transcript \in Seq(StepRecords(Len(cs))) /\ Len(x[k].transcript) = k
<1> DEFINE R == StepRecords(Len(cs))
           w(i) == x[i].transcript
           G == {i \in Nat : i <= Len(t) => w(i) \in Seq(R) /\ Len(w(i)) = i}
<1>1. /\ t \in Seq(R) /\ Len(t) \in Nat /\ w(0) = << >>
      /\ \A i \in 1 .. Len(t) : w(i) = Append(w(i - 1), t[i])
  BY DEF HasSealed, Course
<1> HIDE DEF R, w
<1>2. 0 \in G
  <2>1. << >> \in Seq(R) /\ Len(<< >>) = 0
    OBVIOUS
  <2>2. w(0) \in Seq(R) /\ Len(w(0)) = 0
    BY <1>1, <2>1
  <2> QED BY <2>2
<1>3. ASSUME NEW i \in G PROVE i + 1 \in G
  <2>1. i \in Nat /\ (i <= Len(t) => w(i) \in Seq(R) /\ Len(w(i)) = i)
    OBVIOUS
  <2> SUFFICES ASSUME i + 1 <= Len(t) PROVE w(i + 1) \in Seq(R) /\ Len(w(i + 1)) = i + 1
    BY <2>1
  <2>2. i + 1 \in 1 .. Len(t) /\ (i + 1) - 1 = i /\ i <= Len(t)
    BY <1>1, <2>1
  <2>3. w(i + 1) = Append(w(i), t[i + 1]) /\ t[i + 1] \in R
    <3>1. PICK d \in 1 .. Len(t) : d = i + 1
      BY <2>2
    <3>2. w(d) = Append(w(d - 1), t[d]) /\ t[d] \in R
      BY <1>1
    <3> QED BY <2>2, <3>1, <3>2
  <2> QED BY <2>1, <2>2, <2>3
<1>4. G = Nat
  <2> HIDE DEF G
  <2>1. G \in SUBSET Nat
    BY DEF G
  <2> QED BY <1>2, <1>3, <2>1, InductionOnSets
<1>5. k \in Nat /\ k <= Len(t)
  BY <1>1
<1>6. w(k) \in Seq(R) /\ Len(w(k)) = k
  BY <1>4, <1>5
<1> QED BY <1>6 DEF w, R

\* The proofs follow the transcript.
LEMMA ProofFollows ==
  ASSUME NEW n, NEW np, NEW S, NEW all, NEW cs, NEW B, NEW x, NEW t,
         HasSealed(n, np, S, all, cs, B, x, t), NEW k \in 1 .. Len(t), NEW s,
         Proven(np, S, cs, B, s, x[k - 1])
  PROVE  Proven(np, S, cs, B, TallyStep(s, cs, t[k]), x[k])
<1>1. PICK p, q : p = x[k - 1] /\ q = x[k]
  OBVIOUS
<1>2. /\ IsRound(n, p, all, cs, B) /\ ~Exhausted(p, cs, B)
      /\ t[k] = Written(p, all, 1 .. np, cs) /\ Iterates(n, p, q, all, cs, B)
      /\ q.transcript = Append(p.transcript, t[k]) /\ IsBack(np, n, S, all)
  BY <1>1 DEF HasSealed, Course
<1>3. Proven(np, S, cs, B, s, p)
  BY <1>1
<1>4. Proven(np, S, cs, B, TallyStep(s, cs, Written(p, all, 1 .. np, cs)), q)
  BY <1>2, <1>3, ProofTakes
<1> QED BY <1>1, <1>2, <1>4

\* Where the course ends no further step is taken: the state is done or will
\* say so at the next step.
LEMMA ProofStays ==
  ASSUME NEW np, NEW S, NEW cs, NEW B, NEW s, NEW x, Proven(np, S, cs, B, s, x),
         x.done \/ Exhausted(x, cs, B), NEW step
  PROVE  LET z == TallyStep(s, cs, step)
         IN  Proven(np, S, cs, B, z, x) /\ z.done /\ z.tHash = s.tHash
<1> DEFINE z == TallyStep(s, cs, step)
<1>1. CASE s.done
  BY <1>1 DEF TallyStep
<1>2. CASE ~s.done
  <2>1. ~x.done /\ Exhausted(x, cs, B)
    BY <1>2 DEF Proven
  <2>2. s.funded = x.funded /\ s.spent = x.spent /\ s.budget = B /\ IsNoirState(s)
    BY <2>1 DEF Proven
  <2>3. Exhausted(s, cs, s.budget)
    <3>1. \A c : IsFunded(s, c) <=> IsFunded(x, c)
      BY <2>2 DEF IsFunded
    <3> QED BY <2>1, <2>2, <3>1 DEF Exhausted
  <2> DEFINE yes == TRUE
  <2>4. z = [s EXCEPT !.done = yes]
    BY <1>2, <2>3 DEF TallyStep
  <2> HIDE DEF yes, z
  <2>5. z = NoirLike(s, s.weights, s.funded, s.level, s.spent, yes, s.tHash)
    BY <2>2, <2>4, NoirFields
  <2>6. /\ IsNoirState(z) /\ z.ballots = s.ballots /\ z.m = s.m /\ z.budget = s.budget
        /\ z.broken = s.broken /\ z.weights = s.weights /\ z.funded = s.funded
        /\ z.level = s.level /\ z.spent = s.spent /\ z.done = yes /\ z.tHash = s.tHash
    BY <2>5, NoirLikeFields
  <2>7. z.done
    BY <2>6 DEF yes
  <2>8. Proven(np, S, cs, B, z, x)
    BY <2>1, <2>6, <2>7 DEF Proven
  <2> QED BY <2>6, <2>7, <2>8 DEF z
<1> QED BY <1>1, <1>2

-----------------------------------------------------------------------------
(* From batch to batch and group to group.                                 *)

\* The loops of the chain of proofs.
LEMMA GroupUnfold ==
  ASSUME NEW s, NEW cs, NEW t
  PROVE  /\ TallyGroup(s, cs, t)[0] = s
         /\ \A i \in 1 .. K : TallyGroup(s, cs, t)[i] = GroupStep(TallyGroup(s, cs, t)[i - 1], i, cs, t)
<1> DEFINE n == K
           After(x, i) == GroupStep(x, i, cs, t)
           IsLoop(p, k) == p = [i \in 0 .. k |-> IF i = 0 THEN s ELSE After(p[i - 1], i)]
           G == {k \in Nat : \E p : IsLoop(p, k)}
<1>0. n \in Nat
  BY ProfileAssumption
<1> HIDE DEF After
<1>1. 0 \in G
  <2> DEFINE p == [i \in 0 .. 0 |-> s]
  <2>1. IsLoop(p, 0)
    OBVIOUS
  <2> HIDE DEF IsLoop
  <2> QED BY <2>1
<1>2. ASSUME NEW k \in G PROVE k + 1 \in G
  <2>1. PICK p : IsLoop(p, k)
    OBVIOUS
  <2> DEFINE q == [i \in 0 .. (k + 1) |-> IF i = k + 1 THEN After(p[k], k + 1) ELSE p[i]]
  <2>2. \A i \in 0 .. (k + 1) : q[i] = IF i = 0 THEN s ELSE After(q[i - 1], i)
    <3> TAKE i \in 0 .. (k + 1)
    <3>1. CASE i = k + 1
      <4>1. q[i] = After(p[k], k + 1) /\ q[i - 1] = p[k] /\ i # 0
        BY <3>1
      <4> HIDE DEF q
      <4> QED BY <3>1, <4>1
    <3>2. CASE i # k + 1
      <4>1. i \in 0 .. k /\ q[i] = p[i] /\ (i # 0 => q[i - 1] = p[i - 1])
        BY <3>2
      <4>2. p[i] = IF i = 0 THEN s ELSE After(p[i - 1], i)
        BY <4>1, <2>1
      <4> HIDE DEF q
      <4> QED BY <4>1, <4>2
    <3> QED BY <3>1, <3>2
  <2>3. IsLoop(q, k + 1)
    <3>1. q = [i \in 0 .. (k + 1) |-> q[i]]
      OBVIOUS
    <3> HIDE DEF q
    <3> QED BY <2>2, <3>1
  <2> HIDE DEF q, IsLoop
  <2> QED BY <2>3
<1>3. \E p : IsLoop(p, n)
  <2>1. G = Nat
    <3> HIDE DEF G
    <3> G \in SUBSET Nat
      BY DEF G
    <3> QED BY <1>1, <1>2, InductionOnSets
  <2> HIDE DEF IsLoop
  <2> QED BY <1>0, <2>1
<1> DEFINE loop == CHOOSE p : IsLoop(p, n)
<1>4. IsLoop(loop, n)
  <2> HIDE DEF IsLoop
  <2> QED BY <1>3
<1>5. TallyGroup(s, cs, t) = loop
  BY Zenon DEF TallyGroup, After
<1> HIDE DEF loop
<1>6. loop[0] = s /\ \A i \in 1 .. n : loop[i] = After(loop[i - 1], i)
  BY <1>0, <1>4
<1> QED BY <1>5, <1>6 DEF After

\* From one proof to the next.
LEMMA ChainUnfold ==
  ASSUME NEW s, NEW cs, NEW t, Len(cs) \in Nat
  PROVE  /\ TallyChain(s, cs, t)[0] = s
         /\ \A i \in 1 .. Bound(Len(cs)) : TallyChain(s, cs, t)[i] = NextGroup(TallyChain(s, cs, t)[i - 1], cs, t)
<1> DEFINE n == Bound(Len(cs))
           After(x, i) == NextGroup(x, cs, t)
           IsLoop(p, k) == p = [i \in 0 .. k |-> IF i = 0 THEN s ELSE After(p[i - 1], i)]
           G == {k \in Nat : \E p : IsLoop(p, k)}
<1>0. n \in Nat
  BY DEF Bound
<1> HIDE DEF After
<1>1. 0 \in G
  <2> DEFINE p == [i \in 0 .. 0 |-> s]
  <2>1. IsLoop(p, 0)
    OBVIOUS
  <2> HIDE DEF IsLoop
  <2> QED BY <2>1
<1>2. ASSUME NEW k \in G PROVE k + 1 \in G
  <2>1. PICK p : IsLoop(p, k)
    OBVIOUS
  <2> DEFINE q == [i \in 0 .. (k + 1) |-> IF i = k + 1 THEN After(p[k], k + 1) ELSE p[i]]
  <2>2. \A i \in 0 .. (k + 1) : q[i] = IF i = 0 THEN s ELSE After(q[i - 1], i)
    <3> TAKE i \in 0 .. (k + 1)
    <3>1. CASE i = k + 1
      <4>1. q[i] = After(p[k], k + 1) /\ q[i - 1] = p[k] /\ i # 0
        BY <3>1
      <4> HIDE DEF q
      <4> QED BY <3>1, <4>1
    <3>2. CASE i # k + 1
      <4>1. i \in 0 .. k /\ q[i] = p[i] /\ (i # 0 => q[i - 1] = p[i - 1])
        BY <3>2
      <4>2. p[i] = IF i = 0 THEN s ELSE After(p[i - 1], i)
        BY <4>1, <2>1
      <4> HIDE DEF q
      <4> QED BY <4>1, <4>2
    <3> QED BY <3>1, <3>2
  <2>3. IsLoop(q, k + 1)
    <3>1. q = [i \in 0 .. (k + 1) |-> q[i]]
      OBVIOUS
    <3> HIDE DEF q
    <3> QED BY <2>2, <3>1
  <2> HIDE DEF q, IsLoop
  <2> QED BY <2>3
<1>3. \E p : IsLoop(p, n)
  <2>1. G = Nat
    <3> HIDE DEF G
    <3> G \in SUBSET Nat
      BY DEF G
    <3> QED BY <1>1, <1>2, InductionOnSets
  <2> HIDE DEF IsLoop
  <2> QED BY <1>0, <2>1
<1> DEFINE loop == CHOOSE p : IsLoop(p, n)
<1>4. IsLoop(loop, n)
  <2> HIDE DEF IsLoop
  <2> QED BY <1>3
<1>5. TallyChain(s, cs, t) = loop
  BY Zenon DEF TallyChain, After
<1> HIDE DEF loop
<1>6. loop[0] = s /\ \A i \in 1 .. n : loop[i] = After(loop[i - 1], i)
  BY <1>0, <1>4
<1> QED BY <1>5, <1>6 DEF After

\* The state s has taken j steps, or all there are.
Reached(np, S, cs, B, x, t, s, j) ==
  \E k \in 0 .. Len(t) : /\ Proven(np, S, cs, B, s, x[k]) /\ (k >= j \/ k = Len(t))
                         /\ j > Len(t) => s.done

\* The course has an end, and nothing before is one.
LEMMA CourseGoesOn ==
  ASSUME NEW n, NEW np, NEW S, NEW all, NEW cs, NEW B, NEW x, NEW t,
         HasSealed(n, np, S, all, cs, B, x, t)
  PROVE  /\ Len(t) \in Nat /\ Len(t) <= 2 * Len(cs) /\ Len(cs) \in Nat
         /\ x[Len(t)].done \/ Exhausted(x[Len(t)], cs, B)
         /\ \A k \in 0 .. Len(t) : k # Len(t) => ~x[k].done /\ ~Exhausted(x[k], cs, B)
<1>1. /\ t \in Seq(StepRecords(Len(cs))) /\ Len(t) <= 2 * Len(cs) /\ cs \in Seq(Nat \ {0})
      /\ x[Len(t)].done \/ Exhausted(x[Len(t)], cs, B)
      /\ \A k \in 1 .. Len(t) : IsRound(n, x[k - 1], all, cs, B) /\ ~Exhausted(x[k - 1], cs, B)
  BY DEF HasSealed, Course
<1>2. Len(t) \in Nat /\ Len(cs) \in Nat
  BY <1>1
<1>3. ASSUME NEW k \in 0 .. Len(t), k # Len(t) PROVE ~x[k].done /\ ~Exhausted(x[k], cs, B)
  <2>1. k + 1 \in 1 .. Len(t) /\ (k + 1) - 1 = k
    BY <1>2, <1>3
  <2>2. IsRound(n, x[k], all, cs, B) /\ ~Exhausted(x[k], cs, B)
    BY <1>1, <2>1
  <2> QED BY <2>2 DEF IsRound
<1> QED BY <1>1, <1>2, <1>3

\* A state that is done has taken all.
LEMMA DoneIsEnd ==
  ASSUME NEW n, NEW np, NEW S, NEW all, NEW cs, NEW B, NEW x, NEW t,
         HasSealed(n, np, S, all, cs, B, x, t), NEW s, s.done,
         NEW k \in 0 .. Len(t), Proven(np, S, cs, B, s, x[k])
  PROVE  k = Len(t) /\ \A j : Reached(np, S, cs, B, x, t, s, j)
<1>1. x[k].done \/ Exhausted(x[k], cs, B)
  BY DEF Proven
<1>2. k = Len(t)
  BY <1>1, CourseGoesOn
<1> QED BY <1>2 DEF Reached

LEMMA GroupStepReaches ==
  ASSUME NEW n, NEW np, NEW S, NEW all, NEW cs, NEW B, NEW x, NEW t,
         HasSealed(n, np, S, all, cs, B, x, t), NEW s, NEW j \in Nat,
         Reached(np, S, cs, B, x, t, s, j), NEW i
  PROVE  Reached(np, S, cs, B, x, t, GroupStep(s, i, cs, t), j + 1)
<1>1. PICK k \in 0 .. Len(t) : /\ Proven(np, S, cs, B, s, x[k]) /\ (k >= j \/ k = Len(t))
                               /\ j > Len(t) => s.done
  BY DEF Reached
<1>2. Len(t) \in Nat /\ (x[Len(t)].done \/ Exhausted(x[Len(t)], cs, B)) /\ k \in Nat
  BY CourseGoesOn
<1>3. ~s.broken /\ s.tHash = x[k].transcript /\ Len(s.tHash) = k
  <2>1. ~s.broken /\ s.tHash = x[k].transcript
    BY <1>1 DEF Proven
  <2> QED BY <2>1, CourseWrites
<1> DEFINE z == GroupStep(s, i, cs, t)
<1>4. z = TallyStep(s, cs, StepAt(s, i, t))
  BY <1>3 DEF GroupStep
<1> HIDE DEF z
<1>5. CASE k < Len(t)
  <2>1. k + 1 \in 1 .. Len(t) /\ (k + 1) - 1 = k /\ k + 1 \in 0 .. Len(t) /\ k + 1 >= j + 1 /\ ~(j + 1 > Len(t))
    BY <1>1, <1>2, <1>5
  <2>2. StepAt(s, i, t) = t[k + 1]
    BY <1>3, <2>1 DEF StepAt
  <2>3. PICK l \in 1 .. Len(t) : l = k + 1
    BY <2>1
  <2>4. Proven(np, S, cs, B, s, x[l - 1])
    BY <1>1, <2>1, <2>3
  <2>5. Proven(np, S, cs, B, TallyStep(s, cs, t[l]), x[l])
    BY <2>4, ProofFollows
  <2> QED BY <1>4, <2>1, <2>2, <2>3, <2>5 DEF Reached, z
<1>6. CASE ~(k < Len(t))
  <2>1. k = Len(t)
    BY <1>2, <1>6
  <2>2. Proven(np, S, cs, B, z, x[k]) /\ z.done
    <3>1. PICK p : p = x[k]
      OBVIOUS
    <3>2. Proven(np, S, cs, B, s, p) /\ (p.done \/ Exhausted(p, cs, B))
      BY <1>1, <1>2, <2>1, <3>1
    <3>3. Proven(np, S, cs, B, z, p) /\ z.done
      BY <1>4, <3>2, ProofStays
    <3> QED BY <3>1, <3>3
  <2> QED BY <2>1, <2>2 DEF Reached, z
<1> QED BY <1>5, <1>6

LEMMA GroupReaches ==
  ASSUME NEW n, NEW np, NEW S, NEW all, NEW cs, NEW B, NEW x, NEW t,
         HasSealed(n, np, S, all, cs, B, x, t), NEW s, NEW j \in Nat,
         Reached(np, S, cs, B, x, t, s, j)
  PROVE  Reached(np, S, cs, B, x, t, NextGroup(s, cs, t), j + 1)
<1> DEFINE Has(r, i) == Reached(np, S, cs, B, x, t, r, i)
           g == TallyGroup(s, cs, t)
           G == {i \in Nat : i <= K => Has(g[i], j + i)}
<1>0. K \in Nat /\ 1 <= K
  BY ProfileAssumption
<1>1. PICK k \in 0 .. Len(t) : Proven(np, S, cs, B, s, x[k])
  BY DEF Reached
<1>2. CASE s.done \/ s.broken
  <2>1. ~s.broken
    BY <1>1 DEF Proven
  <2>2. s.done /\ NextGroup(s, cs, t) = s
    BY <1>2, <2>1 DEF NextGroup
  <2>3. \A l : Reached(np, S, cs, B, x, t, s, l)
    BY <1>1, <2>2, DoneIsEnd
  <2> QED BY <2>2, <2>3
<1>3. CASE ~(s.done \/ s.broken)
  <2>1. g[0] = s /\ \A i \in 1 .. K : g[i] = GroupStep(g[i - 1], i, cs, t)
    BY GroupUnfold
  <2>2. NextGroup(s, cs, t) = g[K]
    BY <1>3 DEF NextGroup
  <2> HIDE DEF g
  <2>3. \A r, i, l : i \in Nat /\ Has(r, i) => Has(GroupStep(r, l, cs, t), i + 1)
    BY GroupStepReaches
  <2>4. Has(s, j + 0)
    OBVIOUS
  <2> HIDE DEF Has
  <2>5. 0 \in G
    BY <2>1, <2>4
  <2>6. ASSUME NEW i \in G PROVE i + 1 \in G
    <3>1. i \in Nat /\ (i <= K => Has(g[i], j + i))
      OBVIOUS
    <3> SUFFICES ASSUME i + 1 <= K PROVE Has(g[i + 1], j + (i + 1))
      BY <3>1
    <3>2. i + 1 \in 1 .. K /\ (i + 1) - 1 = i /\ i <= K /\ j + (i + 1) = (j + i) + 1 /\ j + i \in Nat
      BY <1>0, <3>1
    <3>3. g[i + 1] = GroupStep(g[i], i + 1, cs, t)
      BY <2>1, <3>2
    <3>4. Has(GroupStep(g[i], i + 1, cs, t), (j + i) + 1)
      BY <2>3, <3>1, <3>2
    <3> QED BY <3>2, <3>3, <3>4
  <2>7. G = Nat
    <3> HIDE DEF G
    <3>1. G \in SUBSET Nat
      BY DEF G
    <3> QED BY <2>5, <2>6, <3>1, InductionOnSets
  <2>8. Has(g[K], j + K)
    BY <1>0, <2>7
  <2>9. Has(g[K], j + 1)
    <3>1. PICK l \in 0 .. Len(t) : /\ Proven(np, S, cs, B, g[K], x[l]) /\ (l >= j + K \/ l = Len(t))
                                   /\ j + K > Len(t) => g[K].done
      BY <2>8 DEF Has, Reached
    <3>2. Len(t) \in Nat /\ l \in Nat
      BY CourseGoesOn
    <3>3. (l >= j + 1 \/ l = Len(t)) /\ (j + 1 > Len(t) => j + K > Len(t))
      BY <1>0, <3>1, <3>2
    <3> QED BY <3>1, <3>3 DEF Has, Reached
  <2> QED BY <2>2, <2>9 DEF Has
<1> QED BY <1>2, <1>3

\* The chain of proofs takes every step of the transcript and is done with the last.
LEMMA ChainEnds ==
  ASSUME NEW n, NEW np, NEW S, NEW all, NEW cs, NEW B, NEW x, NEW t,
         HasSealed(n, np, S, all, cs, B, x, t), NEW s, Proven(np, S, cs, B, s, x[0])
  PROVE  LET end == TallyChain(s, cs, t)[Bound(Len(cs))]
         IN  end.done /\ ~end.broken /\ end.tHash = t /\ end.funded = x[Len(t)].funded
<1> DEFINE Has(r, i) == Reached(np, S, cs, B, x, t, r, i)
           b == Bound(Len(cs))
           g == TallyChain(s, cs, t)
           G == {i \in Nat : i <= b => Has(g[i], i)}
<1>0. Len(t) \in Nat /\ Len(t) <= 2 * Len(cs) /\ Len(cs) \in Nat /\ b \in Nat /\ b > Len(t)
  BY CourseGoesOn DEF Bound
<1>1. g[0] = s /\ \A i \in 1 .. b : g[i] = NextGroup(g[i - 1], cs, t)
  BY <1>0, ChainUnfold
<1>2. Has(s, 0)
  BY <1>0 DEF Reached
<1>3. \A r, i : i \in Nat /\ Has(r, i) => Has(NextGroup(r, cs, t), i + 1)
  BY GroupReaches
<1> HIDE DEF Has, g, b
<1>4. 0 \in G
  BY <1>1, <1>2
<1>5. ASSUME NEW i \in G PROVE i + 1 \in G
  <2>1. i \in Nat /\ (i <= b => Has(g[i], i))
    OBVIOUS
  <2> SUFFICES ASSUME i + 1 <= b PROVE Has(g[i + 1], i + 1)
    BY <2>1
  <2>2. i + 1 \in 1 .. b /\ (i + 1) - 1 = i /\ i <= b
    BY <1>0, <2>1
  <2>3. g[i + 1] = NextGroup(g[i], cs, t)
    BY <1>1, <2>2
  <2> QED BY <1>3, <2>1, <2>2, <2>3
<1>6. G = Nat
  <2> HIDE DEF G
  <2>1. G \in SUBSET Nat
    BY DEF G
  <2> QED BY <1>4, <1>5, <2>1, InductionOnSets
<1>7. Has(g[b], b)
  BY <1>0, <1>6
<1>8. PICK k \in 0 .. Len(t) : /\ Proven(np, S, cs, B, g[b], x[k]) /\ (k >= b \/ k = Len(t))
                               /\ b > Len(t) => g[b].done
  BY <1>7 DEF Has, Reached
<1>9. k = Len(t)
  BY <1>0, <1>8
<1>10. /\ g[b].done /\ ~g[b].broken /\ g[b].tHash = x[k].transcript /\ g[b].funded = x[k].funded
  BY <1>0, <1>8 DEF Proven
<1>11. x[Len(t)].transcript = t
  BY DEF HasSealed, Course
<1> QED BY <1>9, <1>10, <1>11 DEF g, b

\* The batches have room for all.
LEMMA NumBatchesEnough ==
  ASSUME NEW n \in Nat
  PROVE  NumBatches(n) \in Nat /\ n <= NumBatches(n) * Batch
<1>1. Batch \in Nat \ {0}
  BY ProfileAssumption
<1>2. CASE n = 0
  BY <1>1, <1>2 DEF NumBatches
<1>3. CASE n # 0
  <2> DEFINE a == n + Batch - 1
             q == a \div Batch
  <2>1. a \in Nat
    BY <1>1, <1>3
  <2>2. q \in Nat /\ a < (q + 1) * Batch
    BY <1>1, <2>1, Quotient
  <2>3. NumBatches(n) = q
    BY <1>3 DEF NumBatches
  <2> HIDE DEF q
  <2>4. q * Batch \in Nat /\ (q + 1) * Batch = q * Batch + Batch
    BY <1>1, <2>2
  <2>5. n <= q * Batch
    BY <1>1, <2>2, <2>4
  <2> QED BY <2>2, <2>3, <2>5
<1> QED BY <1>2, <1>3

\* From batch to batch.
LEMMA IngestUnfold ==
  ASSUME NEW m, NEW B, NEW S, Len(S) \in Nat
  PROVE  /\ IngestChain(m, B, S)[0] = EmptyState(m, B)
         /\ \A i \in 1 .. NumBatches(Len(S)) : IngestChain(m, B, S)[i] = IngestBatch(IngestChain(m, B, S)[i - 1], i - 1, S)
<1> DEFINE n == NumBatches(Len(S))
           After(x, i) == IngestBatch(x, i - 1, S)
           IsLoop(p, k) == p = [i \in 0 .. k |-> IF i = 0 THEN EmptyState(m, B) ELSE After(p[i - 1], i)]
           G == {k \in Nat : \E p : IsLoop(p, k)}
<1>0. n \in Nat
  BY NumBatchesEnough
<1> HIDE DEF After
<1>1. 0 \in G
  <2> DEFINE p == [i \in 0 .. 0 |-> EmptyState(m, B)]
  <2>1. IsLoop(p, 0)
    OBVIOUS
  <2> HIDE DEF IsLoop
  <2> QED BY <2>1
<1>2. ASSUME NEW k \in G PROVE k + 1 \in G
  <2>1. PICK p : IsLoop(p, k)
    OBVIOUS
  <2> DEFINE q == [i \in 0 .. (k + 1) |-> IF i = k + 1 THEN After(p[k], k + 1) ELSE p[i]]
  <2>2. \A i \in 0 .. (k + 1) : q[i] = IF i = 0 THEN EmptyState(m, B) ELSE After(q[i - 1], i)
    <3> TAKE i \in 0 .. (k + 1)
    <3>1. CASE i = k + 1
      <4>1. q[i] = After(p[k], k + 1) /\ q[i - 1] = p[k] /\ i # 0
        BY <3>1
      <4> HIDE DEF q
      <4> QED BY <3>1, <4>1
    <3>2. CASE i # k + 1
      <4>1. i \in 0 .. k /\ q[i] = p[i] /\ (i # 0 => q[i - 1] = p[i - 1])
        BY <3>2
      <4>2. p[i] = IF i = 0 THEN EmptyState(m, B) ELSE After(p[i - 1], i)
        BY <4>1, <2>1
      <4> HIDE DEF q
      <4> QED BY <4>1, <4>2
    <3> QED BY <3>1, <3>2
  <2>3. IsLoop(q, k + 1)
    <3>1. q = [i \in 0 .. (k + 1) |-> q[i]]
      OBVIOUS
    <3> HIDE DEF q
    <3> QED BY <2>2, <3>1
  <2> HIDE DEF q, IsLoop
  <2> QED BY <2>3
<1>3. \E p : IsLoop(p, n)
  <2>1. G = Nat
    <3> HIDE DEF G
    <3> G \in SUBSET Nat
      BY DEF G
    <3> QED BY <1>1, <1>2, InductionOnSets
  <2> HIDE DEF IsLoop
  <2> QED BY <1>0, <2>1
<1> DEFINE loop == CHOOSE p : IsLoop(p, n)
<1>4. IsLoop(loop, n)
  <2> HIDE DEF IsLoop
  <2> QED BY <1>3
<1>5. IngestChain(m, B, S) = loop
  BY Zenon DEF IngestChain, After
<1> HIDE DEF loop
<1>6. loop[0] = EmptyState(m, B) /\ \A i \in 1 .. n : loop[i] = After(loop[i - 1], i)
  BY <1>0, <1>4
<1> QED BY <1>5, <1>6 DEF After

\* The state once the first b sealed ballots were taken in.
WeighedTo(S, b) ==
  [i \in 1 .. NSealedMax |-> IF i <= Len(S) /\ i <= b /\ S[i].ballot # << >> THEN S[i].weight ELSE 0]

FilledTo(S, b) == [i \in 1 .. NSealedMax |-> IF i <= Len(S) /\ i <= b THEN S[i].ballot ELSE << >>]

Holding(S, m, B, b) ==
  [weights |-> WeighedTo(S, b), ballots |-> FilledTo(S, b), funded |-> << >>, level |-> 1, spent |-> 0,
   done |-> FALSE, m |-> m, budget |-> B, tHash |-> << >>, broken |-> FALSE]

\* A batch goes on where the last one ended.
LEMMA BatchFills ==
  ASSUME NEW S, Len(S) \in Nat, DOMAIN S = 1 .. Len(S), Len(S) <= NSealedMax, NEW m, NEW B, NEW k \in Nat
  PROVE  IngestBatch(Holding(S, m, B, k * Batch), k, S) = Holding(S, m, B, (k + 1) * Batch)
<1> DEFINE N == NSealedMax
           l == Len(S)
           a == k * Batch
           b == (k + 1) * Batch
           no == FALSE
           s == Holding(S, m, B, a)
           now == {i \in DOMAIN S : a < i /\ i <= b}
           w == [i \in 1 .. N |-> IF i \notin now THEN WeighedTo(S, a)[i]
                                  ELSE IF S[i].ballot = << >> THEN 0 ELSE S[i].weight]
           v == [i \in 1 .. N |-> IF i \in now THEN S[i].ballot ELSE FilledTo(S, a)[i]]
<1>1. N \in Nat /\ a \in Nat /\ b \in Nat /\ a <= b /\ l \in Nat
  <2>1. Batch \in Nat \ {0} /\ N \in Nat
    BY ProfileAssumption
  <2>2. a \in Nat
    BY <2>1
  <2>3. b = a + Batch
    BY <2>1
  <2> QED BY <2>1, <2>2, <2>3
<1>2. s = [weights |-> WeighedTo(S, a), ballots |-> FilledTo(S, a), funded |-> << >>, level |-> 1,
           spent |-> 0, done |-> no, m |-> m, budget |-> B, tHash |-> << >>, broken |-> no]
  BY DEF Holding
<1>3. Holding(S, m, B, b) = [weights |-> WeighedTo(S, b), ballots |-> FilledTo(S, b), funded |-> << >>, level |-> 1,
           spent |-> 0, done |-> no, m |-> m, budget |-> B, tHash |-> << >>, broken |-> no]
  BY DEF Holding
<1>4. /\ WeighedTo(S, b) = [i \in 1 .. N |-> IF i <= l /\ i <= b /\ S[i].ballot # << >> THEN S[i].weight ELSE 0]
      /\ FilledTo(S, b) = [i \in 1 .. N |-> IF i <= l /\ i <= b THEN S[i].ballot ELSE << >>]
      /\ DOMAIN WeighedTo(S, a) = 1 .. N /\ DOMAIN FilledTo(S, a) = 1 .. N
      /\ \A i \in 1 .. N :
           /\ WeighedTo(S, a)[i] = IF i <= l /\ i <= a /\ S[i].ballot # << >> THEN S[i].weight ELSE 0
           /\ FilledTo(S, a)[i] = IF i <= l /\ i <= a THEN S[i].ballot ELSE << >>
  BY DEF WeighedTo, FilledTo
<1> HIDE DEF a, b, no, s
<1>5. IngestBatch(s, k, S) = [s EXCEPT !.weights = w, !.ballots = v]
  <2>1. s.weights = WeighedTo(S, a) /\ s.ballots = FilledTo(S, a)
    BY <1>2
  <2>2. IngestBatch(s, k, S) =
          [s EXCEPT
             !.weights = [i \in DOMAIN s.weights |-> IF i \notin now THEN s.weights[i]
                                             ELSE IF S[i].ballot = << >> THEN 0
                                             ELSE S[i].weight],
             !.ballots = [i \in DOMAIN s.ballots |-> IF i \in now THEN S[i].ballot ELSE s.ballots[i]]]
    BY Zenon DEF IngestBatch, a, b
  <2>3. /\ w = [i \in DOMAIN s.weights |-> IF i \notin now THEN s.weights[i]
                                             ELSE IF S[i].ballot = << >> THEN 0
                                             ELSE S[i].weight]
        /\ v = [i \in DOMAIN s.ballots |-> IF i \in now THEN S[i].ballot ELSE s.ballots[i]]
    <3> HIDE DEF now
    <3> QED BY <1>4, <2>1
  <2> HIDE DEF w, v, now
  <2> QED BY <2>2, <2>3
<1>6. ASSUME NEW i \in 1 .. N PROVE i \in now <=> i <= l /\ a < i /\ i <= b
  BY <1>1
<1> HIDE DEF now
<1>7. w = WeighedTo(S, b)
  <2>1. ASSUME NEW i \in 1 .. N
        PROVE  w[i] = IF i <= l /\ i <= b /\ S[i].ballot # << >> THEN S[i].weight ELSE 0
    <3>1. i \in Nat
      BY <1>1
    <3>2. CASE i \in now
      BY <1>6, <3>2
    <3>3. CASE i \notin now
      <4>1. i <= l /\ i <= a <=> i <= l /\ i <= b
        BY <1>1, <1>6, <3>1, <3>3
      <4> QED BY <1>4, <3>3, <4>1
    <3> QED BY <3>2, <3>3
  <2>2. w = [i \in 1 .. N |-> w[i]]
    OBVIOUS
  <2> HIDE DEF w
  <2> QED BY <1>4, <2>1, <2>2
<1>8. v = FilledTo(S, b)
  <2>1. ASSUME NEW i \in 1 .. N
        PROVE  v[i] = IF i <= l /\ i <= b THEN S[i].ballot ELSE << >>
    <3>1. i \in Nat
      BY <1>1
    <3>2. CASE i \in now
      BY <1>6, <3>2
    <3>3. CASE i \notin now
      <4>1. i <= l /\ i <= a <=> i <= l /\ i <= b
        BY <1>1, <1>6, <3>1, <3>3
      <4> QED BY <1>4, <3>3, <4>1
    <3> QED BY <3>2, <3>3
  <2>2. v = [i \in 1 .. N |-> v[i]]
    OBVIOUS
  <2> HIDE DEF v
  <2> QED BY <1>4, <2>1, <2>2
<1> HIDE DEF w, v
<1>9. [s EXCEPT !.weights = w, !.ballots = v]
        = [weights |-> w, ballots |-> v, funded |-> << >>, level |-> 1,
           spent |-> 0, done |-> no, m |-> m, budget |-> B, tHash |-> << >>, broken |-> no]
  <2> DEFINE W == WeighedTo(S, a)
             V == FilledTo(S, a)
             nil == << >>
             p == [weights |-> w, ballots |-> V, funded |-> nil, level |-> 1,
                   spent |-> 0, done |-> no, m |-> m, budget |-> B, tHash |-> nil, broken |-> no]
  <2>1. s = [weights |-> W, ballots |-> V, funded |-> nil, level |-> 1,
             spent |-> 0, done |-> no, m |-> m, budget |-> B, tHash |-> nil, broken |-> no]
    BY <1>2
  <2> HIDE DEF W, V, nil
  <2>2. [s EXCEPT !.weights = w] = p
    BY <2>1
  <2>3. [p EXCEPT !.ballots = v]
          = [weights |-> w, ballots |-> v, funded |-> nil, level |-> 1,
             spent |-> 0, done |-> no, m |-> m, budget |-> B, tHash |-> nil, broken |-> no]
    OBVIOUS
  <2> HIDE DEF p
  <2>4. [s EXCEPT !.weights = w, !.ballots = v] = [[s EXCEPT !.weights = w] EXCEPT !.ballots = v]
    OBVIOUS
  <2> QED BY <2>2, <2>3, <2>4 DEF nil
<1> QED BY <1>3, <1>5, <1>7, <1>8, <1>9 DEF s, a, b

\* All sealed ballots are in the state that the tally proofs start from.
LEMMA IngestedHolds ==
  ASSUME NEW S, Len(S) \in Nat, DOMAIN S = 1 .. Len(S), Len(S) <= NSealedMax, NEW m, NEW B
  PROVE  \E b \in Nat : Len(S) <= b /\ Ingested(m, B, S) = Holding(S, m, B, b)
<1> DEFINE q == NumBatches(Len(S))
           c == IngestChain(m, B, S)
           G == {k \in Nat : k <= q => c[k] = Holding(S, m, B, k * Batch)}
<1>0. q \in Nat /\ Len(S) <= q * Batch /\ Batch \in Nat
  BY NumBatchesEnough, ProfileAssumption
<1>1. c[0] = EmptyState(m, B) /\ \A k \in 1 .. q : c[k] = IngestBatch(c[k - 1], k - 1, S)
  BY IngestUnfold
<1> HIDE DEF c, q
<1>2. 0 \in G
  <2>1. EmptyState(m, B) = Holding(S, m, B, 0)
    <3> DEFINE no == FALSE
    <3>1. /\ WeighedTo(S, 0) = [i \in 1 .. NSealedMax |-> 0]
          /\ FilledTo(S, 0) = [i \in 1 .. NSealedMax |-> << >>]
      <4>1. NSealedMax \in Nat
        BY ProfileAssumption
      <4>2. \A i \in 1 .. NSealedMax : ~(i <= 0)
        BY <4>1
      <4> QED BY <4>2 DEF WeighedTo, FilledTo
    <3>2. EmptyState(m, B) =
            [weights |-> [i \in 1 .. NSealedMax |-> 0], ballots |-> [i \in 1 .. NSealedMax |-> << >>],
             funded |-> << >>, level |-> 1, spent |-> 0, done |-> no,
             m |-> m, budget |-> B, tHash |-> << >>, broken |-> no]
      BY DEF EmptyState
    <3>3. Holding(S, m, B, 0) =
            [weights |-> WeighedTo(S, 0), ballots |-> FilledTo(S, 0),
             funded |-> << >>, level |-> 1, spent |-> 0, done |-> no,
             m |-> m, budget |-> B, tHash |-> << >>, broken |-> no]
      BY DEF Holding
    <3> HIDE DEF no
    <3> QED BY <3>1, <3>2, <3>3
  <2>2. 0 * Batch = 0
    BY <1>0
  <2> QED BY <1>1, <2>1, <2>2
<1>3. ASSUME NEW k \in G PROVE k + 1 \in G
  <2>1. k \in Nat /\ (k <= q => c[k] = Holding(S, m, B, k * Batch))
    OBVIOUS
  <2> SUFFICES ASSUME k + 1 <= q PROVE c[k + 1] = Holding(S, m, B, (k + 1) * Batch)
    BY <2>1
  <2>2. k + 1 \in 1 .. q /\ (k + 1) - 1 = k /\ k <= q
    BY <1>0, <2>1
  <2>3. c[k + 1] = IngestBatch(c[k], k, S)
    <3>1. c[k + 1] = IngestBatch(c[(k + 1) - 1], (k + 1) - 1, S)
      BY <1>1, <2>2
    <3> QED BY <2>2, <3>1
  <2>4. IngestBatch(Holding(S, m, B, k * Batch), k, S) = Holding(S, m, B, (k + 1) * Batch)
    BY <2>1, BatchFills
  <2> QED BY <2>1, <2>2, <2>3, <2>4
<1>4. G = Nat
  <2> HIDE DEF G
  <2>1. G \in SUBSET Nat
    BY DEF G
  <2> QED BY <1>2, <1>3, <2>1, InductionOnSets
<1>5. c[q] = Holding(S, m, B, q * Batch)
  BY <1>0, <1>4
<1>6. q * Batch \in Nat
  BY <1>0
<1>7. Ingested(m, B, S) = c[q]
  BY DEF Ingested, c, q
<1> QED BY <1>0, <1>5, <1>6, <1>7

\* What the sealed block of x starts from.
StartsSealed(np, S, cs, w, x) ==
  /\ Len(S) \in Nat /\ DOMAIN S = 1 .. Len(S) /\ Len(S) <= NSealedMax
  /\ \A i \in 1 .. Len(S) : w[np + i] = S[i].weight
  /\ x.weights = w /\ x.funded = << >> /\ x.spent = 0 /\ x.level = 1 /\ ~x.done /\ x.transcript = << >>

LEMMA ProofStarts ==
  ASSUME NEW np, NEW S, NEW cs, NEW w, NEW x, NEW B, StartsSealed(np, S, cs, w, x)
  PROVE  Proven(np, S, cs, B, Ingested(Len(cs), B, S), x)
<1>1. /\ Len(S) \in Nat /\ DOMAIN S = 1 .. Len(S) /\ Len(S) <= NSealedMax
      /\ \A i \in 1 .. Len(S) : w[np + i] = S[i].weight
      /\ x.weights = w /\ x.funded = << >> /\ x.spent = 0 /\ x.level = 1 /\ ~x.done /\ x.transcript = << >>
  BY DEF StartsSealed
<1>2. PICK b \in Nat : Len(S) <= b /\ Ingested(Len(cs), B, S) = Holding(S, Len(cs), B, b)
  BY <1>1, IngestedHolds
<1> DEFINE no == FALSE
           s == Ingested(Len(cs), B, S)
           m == Len(cs)
<1>3. s = [weights |-> WeighedTo(S, b), ballots |-> FilledTo(S, b), funded |-> << >>, level |-> 1,
           spent |-> 0, done |-> no, m |-> m, budget |-> B, tHash |-> << >>, broken |-> no]
  BY <1>2 DEF Holding
<1>4. NSealedMax \in Nat
  BY ProfileAssumption
<1>5. FilledTo(S, b) = Padded(S)
  <2>1. \A i \in 1 .. NSealedMax : i <= Len(S) => i <= b
    BY <1>1, <1>2, <1>4
  <2> QED BY <2>1 DEF FilledTo, Padded
<1>6. WeighedTo(S, b) = Back(w, np, S)
  <2>1. \A i \in 1 .. NSealedMax : i <= Len(S) => i <= b /\ w[np + i] = S[i].weight
    BY <1>1, <1>2, <1>4
  <2> QED BY <2>1 DEF WeighedTo, Back
<1> HIDE DEF s, m, no
<1>7. /\ s.weights = WeighedTo(S, b) /\ s.ballots = FilledTo(S, b) /\ s.funded = << >> /\ s.level = 1
      /\ s.spent = 0 /\ s.done = no /\ s.m = m /\ s.budget = B /\ s.tHash = << >> /\ s.broken = no
  BY <1>3
<1>8. IsNoirState(s)
  BY <1>3, <1>7 DEF IsNoirState
<1>9. ~s.done /\ ~s.broken
  BY <1>7 DEF no
<1> QED BY <1>1, <1>5, <1>6, <1>7, <1>8, <1>9 DEF Proven, s, m

-----------------------------------------------------------------------------
(* A list of some members of a list.                                       *)

\* A list names its members in order.
InOrder(n, S) ==
  LET L == ListedUpTo(n, S)
  IN  /\ \A a \in S, b \in S : a < b <=> Len(L[a]) < Len(L[b])
      /\ Ordered(n, S) = L[n] /\ Len(L[n]) \in Nat
      /\ \A a \in S : /\ Len(L[a]) \in 1 .. Len(L[n]) /\ L[n][Len(L[a])] = a /\ a \in 1 .. n
      /\ \A k \in 1 .. Len(L[n]) : L[n][k] \in S /\ Len(L[L[n][k]]) = k

LEMMA ListedOrder ==
  ASSUME NEW n \in Nat, NEW S \in SUBSET (1 .. n)
  PROVE  InOrder(n, S)
<1> DEFINE L == ListedUpTo(n, S)
           l(i) == Len(L[i])
           G == {j \in Nat : \A a \in 0 .. n : a + j <= n => l(a) <= l(a + j)}
<1>1. /\ L[0] = << >>
      /\ \A i \in 1 .. n : L[i] = IF i \in S THEN Append(L[i - 1], i) ELSE L[i - 1]
  BY ListedUnfold
<1>2. /\ \A i \in 0 .. n : L[i] \in Seq(Nat)
      /\ \A k \in 1 .. Len(L[n]) : L[n][k] \in S /\ Len(L[L[n][k]]) = k
      /\ \A s \in 1 .. n : s \in S => Len(L[s]) \in 1 .. Len(L[n]) /\ L[n][Len(L[s])] = s
  <2>1. n \in 0 .. n
    OBVIOUS
  <2> QED BY <2>1, ListedMembers
<1>3. Ordered(n, S) = L[n]
  BY DEF Ordered
<1> HIDE DEF L
<1>4. \A i \in 0 .. n : l(i) \in Nat
  BY <1>2
<1>5. ASSUME NEW i \in 1 .. n
      PROVE  l(i - 1) <= l(i) /\ (i \in S => l(i - 1) < l(i))
  <2>1. i - 1 \in 0 .. n
    OBVIOUS
  <2>2. L[i - 1] \in Seq(Nat)
    BY <1>2, <2>1
  <2>3. i \in S => l(i) = l(i - 1) + 1
    <3>1. i \in S => L[i] = Append(L[i - 1], i)
      BY <1>1
    <3>2. Len(Append(L[i - 1], i)) = Len(L[i - 1]) + 1
      BY <2>2
    <3> QED BY <3>1, <3>2
  <2>4. i \notin S => l(i) = l(i - 1)
    BY <1>1
  <2>5. l(i - 1) \in Nat
    BY <1>4, <2>1
  <2> QED BY <2>3, <2>4, <2>5
<1> HIDE DEF l
<1>6. 0 \in G
  BY <1>4
<1>7. ASSUME NEW j \in G PROVE j + 1 \in G
  <2> SUFFICES ASSUME NEW a \in 0 .. n, a + (j + 1) <= n PROVE l(a) <= l(a + (j + 1))
    OBVIOUS
  <2>1. a + j \in 0 .. n /\ a + j <= n /\ a + (j + 1) \in 1 .. n /\ a + (j + 1) \in 0 .. n /\ (a + (j + 1)) - 1 = a + j
    OBVIOUS
  <2>2. l(a) <= l(a + j)
    BY <2>1
  <2>3. PICK i \in 1 .. n : i = a + (j + 1)
    BY <2>1
  <2>4. l(i - 1) <= l(i)
    BY <1>5
  <2>5. l(a + j) <= l(a + (j + 1))
    BY <2>1, <2>3, <2>4
  <2> QED BY <1>4, <2>1, <2>2, <2>5
<1>8. G = Nat
  <2> HIDE DEF G
  <2>1. G \in SUBSET Nat
    BY DEF G
  <2> QED BY <1>6, <1>7, <2>1, InductionOnSets
<1>9. ASSUME NEW a \in S, NEW b \in S, a < b PROVE l(a) < l(b)
  <2>1. b - 1 - a \in Nat /\ a + (b - 1 - a) = b - 1 /\ b - 1 <= n /\ a \in 0 .. n /\ b - 1 \in 0 .. n /\ b \in 1 .. n /\ b \in 0 .. n
    BY <1>9
  <2>2. l(a) <= l(b - 1)
    <3>1. PICK j \in Nat : j = b - 1 - a
      BY <2>1
    <3>2. l(a) <= l(a + j)
      BY <1>8, <2>1, <3>1
    <3> QED BY <2>1, <3>1, <3>2
  <2>3. l(b - 1) < l(b)
    BY <1>5, <2>1
  <2> QED BY <1>4, <2>1, <2>2, <2>3
<1>10. ASSUME NEW a \in S, NEW b \in S, l(a) < l(b) PROVE a < b
  <2>1. a \in 1 .. n /\ b \in 1 .. n /\ a \in 0 .. n /\ b \in 0 .. n
    OBVIOUS
  <2>2. b < a => l(b) < l(a)
    BY <1>9
  <2>3. b = a => l(b) = l(a)
    OBVIOUS
  <2>4. l(a) \in Nat /\ l(b) \in Nat
    BY <1>4, <2>1
  <2> QED BY <1>10, <2>1, <2>2, <2>3, <2>4
<1>11. \A a \in S, b \in S : a < b <=> Len(L[a]) < Len(L[b])
  BY <1>9, <1>10 DEF l
<1>12. Len(L[n]) \in Nat
  <2>1. n \in 0 .. n
    OBVIOUS
  <2> QED BY <1>4, <2>1 DEF l
<1>13. /\ \A a \in S : /\ Len(L[a]) \in 1 .. Len(L[n]) /\ L[n][Len(L[a])] = a /\ a \in 1 .. n
       /\ \A k \in 1 .. Len(L[n]) : L[n][k] \in S /\ Len(L[L[n][k]]) = k
  BY <1>2
<1> QED BY <1>3, <1>11, <1>12, <1>13 DEF InOrder, L

\* Where the members of V are in the list of S.
SubPlace(n, V, S) ==
  [k \in 0 .. Len(Ordered(n, V)) |-> IF k = 0 THEN 0 ELSE Len(ListedUpTo(n, S)[Ordered(n, V)[k]])]

\* Nobody in V is passed over.
Sublisted(n, V, S) ==
  LET p == SubPlace(n, V, S)
      k == Len(Ordered(n, V))
      l == Len(Ordered(n, S))
  IN  /\ k \in Nat /\ l \in Nat /\ p \in [0 .. k -> 0 .. l] /\ p[0] = 0
      /\ \A j \in 1 .. k : /\ p[j - 1] < p[j] /\ Ordered(n, S)[p[j]] = Ordered(n, V)[j] /\ Ordered(n, V)[j] \in V
                           /\ \A g \in 1 .. l : p[j - 1] < g /\ g < p[j] => Ordered(n, S)[g] \notin V
      /\ \A g \in 1 .. l : Ordered(n, S)[g] \in S /\ (p[k] < g => Ordered(n, S)[g] \notin V)

LEMMA SublistPlaces ==
  ASSUME NEW n \in Nat, NEW S \in SUBSET (1 .. n), NEW V \in SUBSET S
  PROVE  Sublisted(n, V, S)
<1> DEFINE L == ListedUpTo(n, S)
           M == ListedUpTo(n, V)
           O == Ordered(n, S)
           Q == Ordered(n, V)
           p == SubPlace(n, V, S)
           k == Len(Q)
           l == Len(O)
<1>1. /\ \A a \in S, b \in S : a < b <=> Len(L[a]) < Len(L[b])
      /\ l \in Nat
      /\ \A a \in S : Len(L[a]) \in 1 .. l /\ O[Len(L[a])] = a /\ a \in 1 .. n
      /\ \A i \in 1 .. l : O[i] \in S /\ Len(L[O[i]]) = i
  <2>1. InOrder(n, S)
    BY ListedOrder
  <2> QED BY <2>1 DEF InOrder
<1>2. /\ \A a \in V, b \in V : a < b <=> Len(M[a]) < Len(M[b])
      /\ k \in Nat
      /\ \A a \in V : Len(M[a]) \in 1 .. k /\ Q[Len(M[a])] = a /\ a \in 1 .. n
      /\ \A i \in 1 .. k : Q[i] \in V /\ Len(M[Q[i]]) = i
  <2>1. V \in SUBSET (1 .. n)
    OBVIOUS
  <2>2. InOrder(n, V)
    BY <2>1, ListedOrder
  <2> QED BY <2>2 DEF InOrder
<1>3. p = [i \in 0 .. k |-> IF i = 0 THEN 0 ELSE Len(L[Q[i]])]
  BY DEF SubPlace
<1> HIDE DEF L, M, O, Q, p, k, l
<1>4. p[0] = 0 /\ \A i \in 1 .. k : p[i] = Len(L[Q[i]]) /\ Q[i] \in V /\ Q[i] \in S /\ O[p[i]] = Q[i] /\ p[i] \in 1 .. l
  <2>1. p[0] = 0
    BY <1>2, <1>3
  <2>2. ASSUME NEW i \in 1 .. k
        PROVE  p[i] = Len(L[Q[i]]) /\ Q[i] \in V /\ Q[i] \in S /\ O[p[i]] = Q[i] /\ p[i] \in 1 .. l
    <3>1. p[i] = Len(L[Q[i]])
      BY <1>2, <1>3
    <3>2. Q[i] \in V /\ Q[i] \in S
      BY <1>2
    <3> QED BY <1>1, <3>1, <3>2
  <2> QED BY <2>1, <2>2
<1>5. p \in [0 .. k -> 0 .. l]
  <2>1. \A i \in 0 .. k : (IF i = 0 THEN 0 ELSE Len(L[Q[i]])) \in 0 .. l
    <3> TAKE i \in 0 .. k
    <3>1. CASE i = 0
      BY <1>1, <3>1
    <3>2. CASE i # 0
      <4>1. i \in 1 .. k
        BY <1>2, <3>2
      <4> QED BY <1>1, <1>4, <3>2, <4>1
    <3> QED BY <3>1, <3>2
  <2> QED BY <1>3, <2>1
<1>6. ASSUME NEW j \in 1 .. k, NEW i \in 1 .. k PROVE j < i <=> p[j] < p[i]
  <2>1. j < i <=> Q[j] < Q[i]
    <3>1. Q[j] \in V /\ Q[i] \in V /\ Len(M[Q[j]]) = j /\ Len(M[Q[i]]) = i
      BY <1>2
    <3>2. PICK a \in V, b \in V : a = Q[j] /\ b = Q[i]
      BY <3>1
    <3>3. a < b <=> Len(M[a]) < Len(M[b])
      BY <1>2
    <3> QED BY <3>1, <3>2, <3>3
  <2>2. Q[j] < Q[i] <=> p[j] < p[i]
    <3>1. PICK a \in S, b \in S : a = Q[j] /\ b = Q[i]
      BY <1>4
    <3>2. a < b <=> Len(L[a]) < Len(L[b])
      BY <1>1
    <3>3. p[j] = Len(L[a]) /\ p[i] = Len(L[b])
      BY <1>4, <3>1
    <3> QED BY <3>1, <3>2, <3>3
  <2> QED BY <2>1, <2>2
<1>7. ASSUME NEW g \in 1 .. l, O[g] \in V PROVE \E i \in 1 .. k : p[i] = g
  <2>1. Len(M[O[g]]) \in 1 .. k /\ Q[Len(M[O[g]])] = O[g]
    BY <1>2, <1>7
  <2>2. PICK i \in 1 .. k : Q[i] = O[g]
    BY <2>1
  <2>3. p[i] = Len(L[O[g]])
    BY <1>4, <2>2
  <2> QED BY <1>1, <2>3
<1>8. ASSUME NEW j \in 1 .. k PROVE p[j - 1] < p[j]
  <2>1. CASE j = 1
    <3>1. p[j - 1] = 0 /\ p[j] \in 1 .. l
      BY <1>4, <2>1
    <3> QED BY <1>1, <3>1
  <2>2. CASE j # 1
    <3>1. j - 1 \in 1 .. k /\ j - 1 < j
      BY <1>2, <2>2
    <3> QED BY <1>6, <3>1
  <2> QED BY <2>1, <2>2
<1>9. ASSUME NEW j \in 1 .. k, NEW g \in 1 .. l, p[j - 1] < g, g < p[j] PROVE O[g] \notin V
  <2> SUFFICES ASSUME O[g] \in V PROVE FALSE
    OBVIOUS
  <2>1. PICK i \in 1 .. k : p[i] = g
    BY <1>7
  <2>2. i < j
    BY <1>6, <1>9, <2>1
  <2>3. CASE j = 1
    BY <1>2, <2>2, <2>3
  <2>4. CASE j # 1
    <3>1. j - 1 \in 1 .. k
      BY <1>2, <2>4
    <3>2. j - 1 < i
      BY <1>6, <1>9, <2>1, <3>1
    <3> QED BY <1>2, <2>2, <3>2
  <2> QED BY <2>3, <2>4
<1>10. ASSUME NEW g \in 1 .. l, p[k] < g PROVE O[g] \notin V
  <2> SUFFICES ASSUME O[g] \in V PROVE FALSE
    OBVIOUS
  <2>1. PICK i \in 1 .. k : p[i] = g
    BY <1>7
  <2>2. k \in 1 .. k /\ i <= k
    BY <1>2
  <2>3. k < i
    BY <1>6, <1>10, <2>1, <2>2
  <2> QED BY <1>2, <2>2, <2>3
<1> QED BY <1>1, <1>2, <1>4, <1>5, <1>8, <1>9, <1>10 DEF Sublisted, O, Q, p, k, l

-----------------------------------------------------------------------------
(* The guest leaves out the ballots that it could not decrypt.             *)

\* `few` is `all` without entries that have no ballot, few[j] being all[e[j]].
Thinned(k, n, e, few, all) ==
  /\ k \in Nat /\ n \in Nat /\ e \in [0 .. k -> 0 .. n] /\ e[0] = 0
  /\ DOMAIN few = 1 .. k /\ DOMAIN all = 1 .. n
  /\ \A j \in 1 .. k : /\ e[j - 1] < e[j] /\ few[j] = all[e[j]]
                       /\ \A i \in 1 .. n : e[j - 1] < i /\ i < e[j] => all[i] = << >>
  /\ \A i \in 1 .. n : e[k] < i => all[i] = << >>

\* A run on the few that has come as far as x.
Alike(k, n, e, y, x) ==
  /\ y.weights \in [1 .. k -> Nat] /\ x.weights \in [1 .. n -> Nat]
  /\ \A j \in 1 .. k : y.weights[j] = x.weights[e[j]]
  /\ y.funded = x.funded /\ y.spent = x.spent /\ y.level = x.level

LEMMA FewSee ==
  ASSUME NEW k, NEW n, NEW e, NEW few, NEW all, Thinned(k, n, e, few, all),
         NEW y, NEW x, Alike(k, n, e, y, x), NEW c
  PROVE  /\ IsPart(k, On(y.weights, Backers(y, few, c)), n, On(x.weights, Backers(x, all, c)), e)
         /\ SumOver(y.weights, Backers(y, few, c)) = SumOver(x.weights, Backers(x, all, c))
         /\ \A j \in 1 .. k : e[j] \in 1 .. n
<1> DEFINE U == Backers(y, few, c)
           T == Backers(x, all, c)
           f == On(y.weights, U)
           h == On(x.weights, T)
           F == PrefixSum(f, k)
           H == PrefixSum(h, n)
<1>1. /\ k \in Nat /\ n \in Nat /\ e \in [0 .. k -> 0 .. n] /\ e[0] = 0
      /\ DOMAIN few = 1 .. k /\ DOMAIN all = 1 .. n
      /\ \A j \in 1 .. k : /\ e[j - 1] < e[j] /\ few[j] = all[e[j]]
                           /\ \A i \in 1 .. n : e[j - 1] < i /\ i < e[j] => all[i] = << >>
      /\ \A i \in 1 .. n : e[k] < i => all[i] = << >>
  BY DEF Thinned
<1>2. /\ y.weights \in [1 .. k -> Nat] /\ x.weights \in [1 .. n -> Nat]
      /\ \A j \in 1 .. k : y.weights[j] = x.weights[e[j]]
      /\ y.level = x.level
  BY DEF Alike
<1>3. \A j \in 1 .. k : e[j] \in 1 .. n
  <2> TAKE j \in 1 .. k
  <2>1. j \in 0 .. k /\ j - 1 \in 0 .. k
    BY <1>1
  <2>2. e[j] \in 0 .. n /\ e[j - 1] \in 0 .. n /\ e[j - 1] < e[j]
    BY <1>1, <2>1
  <2> QED BY <1>1, <2>2
<1>4. /\ U = {j \in 1 .. k : few[j] # << >> /\ y.weights[j] # 0 /\ few[j][c] <= x.level}
      /\ T = {i \in 1 .. n : all[i] # << >> /\ x.weights[i] # 0 /\ all[i][c] <= x.level}
  BY <1>1, <1>2 DEF Backers, Supporters
<1>5. OnFacts(k, y.weights, U) /\ OnFacts(n, x.weights, T)
  BY <1>1, <1>2, OnTotals
<1>6. /\ f \in [1 .. k -> Nat] /\ \A j \in 1 .. k : f[j] = IF j \in U THEN y.weights[j] ELSE 0
      /\ h \in [1 .. n -> Nat] /\ \A i \in 1 .. n : h[i] = IF i \in T THEN x.weights[i] ELSE 0
      /\ SumOver(y.weights, U) = F[k] /\ SumOver(x.weights, T) = H[n]
      /\ F[k] \in Nat /\ H[n] \in Nat /\ H[0] = 0
  BY <1>5 DEF OnFacts
<1> HIDE DEF f, h, F, H
<1>7. \A i \in 1 .. n : all[i] = << >> => h[i] = 0
  BY <1>4, <1>6
<1>8. \A j \in 1 .. k : f[j] = h[e[j]]
  <2> TAKE j \in 1 .. k
  <2>1. e[j] \in 1 .. n /\ few[j] = all[e[j]] /\ y.weights[j] = x.weights[e[j]]
    BY <1>1, <1>2, <1>3
  <2>2. j \in U <=> e[j] \in T
    BY <1>4, <2>1
  <2> HIDE DEF U, T
  <2> QED BY <1>6, <2>1, <2>2
<1> HIDE DEF U, T
<1>9. IsPart(k, f, n, h, e)
  BY <1>1, <1>6, <1>7, <1>8 DEF IsPart
<1>10. H[n] = F[k]
  <2>1. PartFacts(k, f, n, h, e)
    BY <1>9, PartTotals
  <2>2. k \in 0 .. k /\ 0 \in 0 .. k
    BY <1>1
  <2>3. e[k] \in 0 .. n /\ H[e[k]] = H[e[0]] + F[k]
    BY <2>1, <2>2 DEF PartFacts, H, F
  <2>4. H[e[k]] = F[k]
    BY <1>1, <1>6, <2>3
  <2>5. PICK a \in 0 .. n, b \in 0 .. n : a = e[k] /\ b = n
    BY <1>1, <2>3
  <2>6. a <= b /\ \A i \in 1 .. n : a < i /\ i <= b => h[i] = 0
    BY <1>1, <1>7, <2>5
  <2>7. PrefixSum(h, n)[b] = PrefixSum(h, n)[a]
    <3>1. n \in Nat /\ h \in [1 .. n -> Nat]
      BY <1>1, <1>6
    <3> QED BY <2>6, <3>1, NothingBetween
  <2> QED BY <2>4, <2>5, <2>7 DEF H
<1> QED BY <1>3, <1>6, <1>9, <1>10 DEF f, h, U, T

\* They choose the same project.
LEMMA FewBest ==
  ASSUME NEW k, NEW n, NEW e, NEW few, NEW all, Thinned(k, n, e, few, all),
         NEW y, NEW x, Alike(k, n, e, y, x), NEW cs \in Seq(Nat \ {0}), NEW B
  PROVE  /\ BestOf(y, few, cs) = BestOf(x, all, cs)
         /\ Exhausted(y, cs, B) <=> Exhausted(x, cs, B)
<1> DEFINE p == SupportOf(y, few, DOMAIN few, cs)
           q == SupportOf(x, all, DOMAIN all, cs)
<1>1. y.funded = x.funded /\ y.spent = x.spent
  BY DEF Alike
<1>2. \A c : IsFunded(y, c) <=> IsFunded(x, c)
  BY <1>1 DEF IsFunded
<1>3. /\ p = [c \in DOMAIN cs |-> IF IsFunded(y, c) THEN 0 ELSE SumOver(y.weights, Backers(y, few, c))]
      /\ q = [c \in DOMAIN cs |-> IF IsFunded(x, c) THEN 0 ELSE SumOver(x.weights, Backers(x, all, c))]
  BY DEF SupportOf, Backers
<1>4. \A c : SumOver(y.weights, Backers(y, few, c)) = SumOver(x.weights, Backers(x, all, c))
  BY FewSee
<1> HIDE DEF p, q
<1>5. p = q
  BY <1>2, <1>3, <1>4
<1>6. Argmax(y, p, cs) = Argmax(x, p, cs)
  <2>1. Len(cs) \in Nat
    OBVIOUS
  <2> QED BY <1>1, <2>1, ArgmaxSame
<1>7. BestOf(y, few, cs) = BestOf(x, all, cs)
  BY <1>5, <1>6 DEF BestOf, p, q
<1> QED BY <1>1, <1>2, <1>7 DEF Exhausted

\* In one iteration they do the same.
LEMMA FewIterate ==
  ASSUME NEW k, NEW n, NEW e, NEW few, NEW all, Thinned(k, n, e, few, all),
         NEW y, NEW x, Alike(k, n, e, y, x), NEW cs \in Seq(Nat \ {0}), NEW B,
         NEW v, NEW w, Iterates(k, y, v, few, cs, B), Iterates(n, x, w, all, cs, B)
  PROVE  /\ v.done <=> w.done
         /\ v.funded = w.funded
         /\ ~w.done => Alike(k, n, e, v, w)
<1> DEFINE b == BestOf(x, all, cs)
           T == Backers(x, all, b)
           U == Backers(y, few, b)
<1>1. BestOf(y, few, cs) = b /\ (Exhausted(y, cs, B) <=> Exhausted(x, cs, B))
  BY FewBest
<1>2. /\ y.weights \in [1 .. k -> Nat] /\ x.weights \in [1 .. n -> Nat]
      /\ \A j \in 1 .. k : y.weights[j] = x.weights[e[j]]
      /\ y.funded = x.funded /\ y.spent = x.spent /\ y.level = x.level
  BY DEF Alike
<1>3. k \in Nat /\ n \in Nat /\ DOMAIN all = 1 .. n /\ \A j \in 1 .. k : e[j - 1] < e[j]
  BY DEF Thinned
<1> HIDE DEF b
<1>4. CASE Exhausted(x, cs, B) \/ (b = None /\ x.level >= Len(cs))
  BY <1>1, <1>2, <1>4 DEF Iterates, b
<1>5. CASE ~Exhausted(x, cs, B) /\ b = None /\ ~(x.level >= Len(cs))
  <2>1. ~v.done /\ v.weights = y.weights /\ v.funded = y.funded /\ v.spent = y.spent /\ v.level = y.level + 1
    BY <1>1, <1>2, <1>5 DEF Iterates
  <2>2. ~w.done /\ w.weights = x.weights /\ w.funded = x.funded /\ w.spent = x.spent /\ w.level = x.level + 1
    BY <1>5 DEF Iterates, b
  <2> QED BY <1>2, <2>1, <2>2 DEF Alike
<1>6. CASE ~Exhausted(x, cs, B) /\ b # None
  <2> DEFINE thr == cs[b]
             total == SumOver(x.weights, T)
             p == PaidRow(k, y.weights, U, thr, total, 0)
             q == PaidRow(n, x.weights, T, thr, total, 0)
  <2>1. /\ IsPart(k, On(y.weights, U), n, On(x.weights, T), e)
        /\ SumOver(y.weights, U) = total /\ \A j \in 1 .. k : e[j] \in 1 .. n
    BY FewSee
  <2>2. /\ ~v.done /\ v.weights = p /\ v.funded = Append(y.funded, b)
        /\ v.spent = y.spent + cs[b] /\ v.level = y.level
    <3>1. /\ ~v.done /\ v.weights = Charged(k, y.weights, U, cs[b]) /\ v.funded = Append(y.funded, b)
          /\ v.spent = y.spent + cs[b] /\ v.level = y.level
      BY <1>1, <1>6 DEF Iterates
    <3>2. Charged(k, y.weights, U, cs[b]) = p
      BY <2>1 DEF Charged
    <3> QED BY <3>1, <3>2
  <2>3. /\ ~w.done /\ w.weights = q /\ w.funded = Append(x.funded, b)
        /\ w.spent = x.spent + cs[b] /\ w.level = x.level
    BY <1>6 DEF Iterates, b, Charged
  <2>4. thr \in Nat /\ total \in Nat \ {0} /\ thr <= total /\ T \subseteq 1 .. n
    <3>1. PickFacts(n, x, all, cs)
      BY <1>2, <1>3, PickIsSound
    <3> QED BY <1>6, <3>1 DEF PickFacts, b
  <2>5. U \subseteq 1 .. k
    BY DEF Backers, Supporters, Thinned
  <2> HIDE DEF thr, total, T, U
  <2>6. p \in [1 .. k -> Nat] /\ q \in [1 .. n -> Nat]
    <3>1. CanPay(k, y.weights, U, thr, total, 0) /\ CanPay(n, x.weights, T, thr, total, 0)
      BY <1>2, <1>3, <2>4, <2>5 DEF CanPay
    <3> QED BY <2>4, <3>1, PaidInFull
  <2>7. \A j \in 1 .. k : p[j] = q[e[j]]
    <3> DEFINE start == PrefixSum(On(x.weights, T), n)[e[0]]
    <3>1. start = 0
      <4>1. OnFacts(n, x.weights, T)
        BY <1>2, <1>3, OnTotals
      <4> QED BY <4>1 DEF OnFacts, Thinned
    <3> HIDE DEF start
    <3>2. PayTogether(k, y.weights, U, n, x.weights, T, e, thr, total, start)
      BY <1>2, <2>1, <2>4 DEF PayTogether, start
    <3>3. PayAlike(k, y.weights, U, n, x.weights, T, e, thr, total, start)
      BY <3>2, PartPays
    <3> QED BY <1>2, <1>3, <3>1, <3>3 DEF PayAlike
  <2> HIDE DEF p, q
  <2> QED BY <1>2, <2>2, <2>3, <2>6, <2>7 DEF Alike
<1> QED BY <1>4, <1>5, <1>6

\* x is what shared/pbear.ts has after each iteration, y what the Rust crate
\* has on the few.
RunTogether(k, n, e, few, all, A, cs, B, y, x) ==
  /\ Thinned(k, n, e, few, all) /\ cs \in Seq(Nat \ {0}) /\ A \subseteq 1 .. n
  /\ IsPortRun(x[0]) /\ IsPortRun(y[0]) /\ ~x[0].done /\ ~y[0].done /\ Alike(k, n, e, y[0], x[0])
  /\ \A i \in 1 .. Bound(Len(cs)) : /\ x[i] = TranscriptStep(x[i - 1], all, A, cs, B)
                                    /\ y[i] = OneBlockStep(y[i - 1], few, cs, B)

FewAt(k, n, e, y, x) ==
  /\ IsPortRun(x) /\ IsPortRun(y) /\ (y.done <=> x.done) /\ y.funded = x.funded
  /\ ~x.done => Alike(k, n, e, y, x)

LEMMA FewStep ==
  ASSUME NEW k, NEW n, NEW e, NEW few, NEW all, Thinned(k, n, e, few, all), NEW A, A \subseteq 1 .. n,
         NEW cs \in Seq(Nat \ {0}), NEW B, NEW y, NEW x, FewAt(k, n, e, y, x)
  PROVE  FewAt(k, n, e, OneBlockStep(y, few, cs, B), TranscriptStep(x, all, A, cs, B))
<1> DEFINE v == OneBlockStep(y, few, cs, B)
           w == TranscriptStep(x, all, A, cs, B)
<1>1. CASE x.done
  <2>1. y.done
    BY <1>1 DEF FewAt
  <2>2. v = y
    BY <2>1 DEF OneBlockStep
  <2>3. w = x
    BY <1>1 DEF TranscriptStep
  <2> HIDE DEF v, w
  <2> QED BY <2>2, <2>3 DEF v, w
<1>2. CASE ~x.done
  <2>1. IsPortRun(x) /\ IsPortRun(y) /\ ~y.done /\ Alike(k, n, e, y, x)
    BY <1>2 DEF FewAt
  <2>2. IsRound(n, x, all, cs, B) /\ IsRound(k, y, few, cs, B)
    BY <1>2, <2>1 DEF IsRound, Alike, Thinned
  <2>3. IsPortRun(v) /\ Iterates(k, y, v, few, cs, B)
    BY <2>2, OneBlockIterates
  <2>4. IsPortRun(w) /\ Iterates(n, x, w, all, cs, B)
    <3>1. InBlocks(n, x, all, A, cs, B)
      BY <2>2 DEF InBlocks
    <3> QED BY <3>1, TranscriptIterates
  <2> HIDE DEF v, w
  <2>5. (v.done <=> w.done) /\ v.funded = w.funded /\ (~w.done => Alike(k, n, e, v, w))
    BY <2>1, <2>3, <2>4, FewIterate
  <2>6. FewAt(k, n, e, v, w)
    BY <2>3, <2>4, <2>5 DEF FewAt
  <2> QED BY <2>6 DEF v, w
<1> QED BY <1>1, <1>2

LEMMA FewEnd ==
  ASSUME NEW k, NEW n, NEW e, NEW few, NEW all, NEW A, NEW cs, NEW B, NEW y, NEW x,
         RunTogether(k, n, e, few, all, A, cs, B, y, x)
  PROVE  y[Bound(Len(cs))].funded = x[Bound(Len(cs))].funded
<1> DEFINE b == Bound(Len(cs))
           G == {i \in Nat : i <= b => FewAt(k, n, e, y[i], x[i])}
<1>1. /\ Thinned(k, n, e, few, all) /\ cs \in Seq(Nat \ {0}) /\ A \subseteq 1 .. n
      /\ IsPortRun(x[0]) /\ IsPortRun(y[0]) /\ ~x[0].done /\ ~y[0].done /\ Alike(k, n, e, y[0], x[0])
      /\ \A i \in 1 .. b : /\ x[i] = TranscriptStep(x[i - 1], all, A, cs, B)
                           /\ y[i] = OneBlockStep(y[i - 1], few, cs, B)
  BY DEF RunTogether
<1>2. b \in Nat
  <2>1. Len(cs) \in Nat
    BY <1>1
  <2> QED BY <2>1 DEF Bound
<1>3. 0 \in G
  <2>1. PICK v, w : v = y[0] /\ w = x[0]
    OBVIOUS
  <2>2. FewAt(k, n, e, v, w)
    BY <1>1, <2>1 DEF FewAt, Alike
  <2> QED BY <2>1, <2>2
<1> HIDE DEF b
<1>4. ASSUME NEW i \in G PROVE i + 1 \in G
  <2>1. i \in Nat /\ (i <= b => FewAt(k, n, e, y[i], x[i]))
    OBVIOUS
  <2> SUFFICES ASSUME i + 1 <= b PROVE FewAt(k, n, e, y[i + 1], x[i + 1])
    BY <2>1
  <2>2. i + 1 \in 1 .. b /\ (i + 1) - 1 = i /\ i <= b
    BY <1>2, <2>1
  <2>3. PICK v, w : v = y[i] /\ w = x[i]
    OBVIOUS
  <2>4. x[i + 1] = TranscriptStep(w, all, A, cs, B) /\ y[i + 1] = OneBlockStep(v, few, cs, B)
    BY <1>1, <2>2, <2>3
  <2>5. FewAt(k, n, e, v, w)
    BY <2>1, <2>2, <2>3
  <2>6. FewAt(k, n, e, OneBlockStep(v, few, cs, B), TranscriptStep(w, all, A, cs, B))
    BY <1>1, <2>5, FewStep
  <2> QED BY <2>4, <2>6
<1>5. G = Nat
  <2> HIDE DEF G
  <2>1. G \in SUBSET Nat
    BY DEF G
  <2> QED BY <1>3, <1>4, <2>1, InductionOnSets
<1>6. FewAt(k, n, e, y[b], x[b])
  BY <1>2, <1>5
<1> QED BY <1>6 DEF FewAt, b

-----------------------------------------------------------------------------
(* A public and a sealed block.                                            *)

EntryRecords == [weight : Nat, ballot : Seq(Nat)]

\* What shared/pbear.ts does not refuse and a Noir state has room for.
IsCount(P, S, cs, B) ==
  /\ cs \in Seq(Nat \ {0}) /\ cs # << >> /\ B \in Nat
  /\ P \in Seq(EntryRecords) /\ S \in Seq(EntryRecords) /\ Len(S) <= NSealedMax
  /\ AllValid(P \o S, Len(cs))
  /\ SumOver(NewRun(P \o S).weights, DOMAIN (P \o S)) <= B

\* Both blocks, one after the other.
JoinFacts(P, S) ==
  LET E == P \o S
      n == Len(P) + Len(S)
  IN  /\ Len(P) \in Nat /\ Len(S) \in Nat /\ n \in Nat /\ Len(E) = n /\ DOMAIN E = 1 .. n
      /\ DOMAIN P = 1 .. Len(P) /\ DOMAIN S = 1 .. Len(S)
      /\ \A i \in 1 .. Len(P) : E[i] = P[i] /\ i \in 1 .. n
      /\ \A i \in 1 .. Len(S) : E[Len(P) + i] = S[i] /\ Len(P) + i \in 1 .. n
      /\ \A i \in 1 .. n : E[i].weight \in Nat
      /\ NewRun(E).weights \in [1 .. n -> Nat]
      /\ \A i \in 1 .. n : NewRun(E).weights[i] = E[i].weight

LEMMA Joined ==
  ASSUME NEW P \in Seq(EntryRecords), NEW S \in Seq(EntryRecords)
  PROVE  JoinFacts(P, S)
<1> DEFINE E == P \o S
           n == Len(P) + Len(S)
<1>1. /\ Len(P) \in Nat /\ Len(S) \in Nat /\ n \in Nat /\ Len(E) = n /\ DOMAIN E = 1 .. n
      /\ DOMAIN P = 1 .. Len(P) /\ DOMAIN S = 1 .. Len(S) /\ E \in Seq(EntryRecords)
  OBVIOUS
<1>2. ASSUME NEW i \in 1 .. Len(P) PROVE E[i] = P[i] /\ i \in 1 .. n
  BY <1>1
<1>3. ASSUME NEW i \in 1 .. Len(S) PROVE E[Len(P) + i] = S[i] /\ Len(P) + i \in 1 .. n
  <2>1. i \in Nat /\ i >= 1 /\ i <= Len(S)
    BY <1>1
  <2>2. Len(P) + i \in 1 .. n /\ Len(P) + i > Len(P) /\ (Len(P) + i) - Len(P) = i
    BY <1>1, <2>1
  <2> QED BY <1>1, <2>1, <2>2
<1>4. ASSUME NEW i \in 1 .. n PROVE E[i].weight \in Nat
  <2>1. E[i] \in EntryRecords
    BY <1>1
  <2> QED BY <2>1 DEF EntryRecords
<1> HIDE DEF E
<1>5. NewRun(E).weights = [i \in 1 .. n |-> E[i].weight]
  BY <1>1, FreshRun
<1>6. NewRun(E).weights \in [1 .. n -> Nat] /\ \A i \in 1 .. n : NewRun(E).weights[i] = E[i].weight
  BY <1>4, <1>5
<1> QED BY <1>1, <1>2, <1>3, <1>4, <1>6 DEF JoinFacts, E

\* What shared/pbear.ts makes of them.
CountFacts(P, S, cs, B) ==
  LET n    == Len(P) + Len(S)
      all  == RanksOf(P \o S)
      x    == TranscriptRuns(cs, P, S, B)
      last == x[Bound(Len(cs))]
      t    == last.transcript
  IN  /\ HasPublic(n, Len(P), P, all, cs, B, x, t) /\ HasSealed(n, Len(P), S, all, cs, B, x, t)
      /\ StartsSealed(Len(P), S, cs, x[0].weights, x[0])
      /\ x[Len(t)].funded = last.funded
      /\ PbearTranscript(cs, P, S, B) = last

LEMMA Counts ==
  ASSUME NEW P, NEW S, NEW cs, NEW B, IsCount(P, S, cs, B)
  PROVE  CountFacts(P, S, cs, B)
<1> DEFINE E    == P \o S
           np   == Len(P)
           n    == np + Len(S)
           all  == RanksOf(E)
           x    == TranscriptRuns(cs, P, S, B)
           b    == Bound(Len(cs))
           last == x[b]
           t    == last.transcript
           w    == NewRun(E).weights
<1>1. /\ cs \in Seq(Nat \ {0}) /\ cs # << >> /\ B \in Nat
      /\ P \in Seq(EntryRecords) /\ S \in Seq(EntryRecords) /\ Len(S) <= NSealedMax
      /\ AllValid(E, Len(cs)) /\ SumOver(w, DOMAIN E) <= B
  BY DEF IsCount
<1>2. Len(cs) \in Nat /\ 1 <= Len(cs)
  BY <1>1
<1>3. JoinFacts(P, S)
  BY <1>1, Joined
<1> HIDE DEF E, w
<1>4. /\ np \in Nat /\ Len(S) \in Nat /\ n \in Nat /\ Len(E) = n /\ DOMAIN E = 1 .. n
      /\ DOMAIN P = 1 .. np /\ DOMAIN S = 1 .. Len(S)
      /\ \A i \in 1 .. np : E[i] = P[i] /\ i \in 1 .. n
      /\ \A i \in 1 .. Len(S) : E[np + i] = S[i] /\ np + i \in 1 .. n
      /\ w \in [1 .. n -> Nat] /\ \A i \in 1 .. n : w[i] = E[i].weight
  BY <1>3 DEF JoinFacts, E, w
<1> HIDE DEF x, np
<1>5. x[0] = NewRun(E) /\ \A i \in 1 .. b : x[i] = TranscriptStep(x[i - 1], all, DOMAIN P, cs, B)
  BY <1>2, TranscriptUnfold DEF x, E
<1>6. /\ IsPortRun(x[0]) /\ x[0].weights = w /\ x[0].funded = << >> /\ x[0].spent = 0
      /\ x[0].level = 1 /\ ~x[0].done /\ x[0].transcript = << >>
  <2>1. w = NewRun(E).weights
    BY DEF w
  <2>2. /\ IsPortRun(NewRun(E)) /\ NewRun(E).funded = << >> /\ NewRun(E).spent = 0
        /\ NewRun(E).level = 1 /\ ~NewRun(E).done /\ NewRun(E).transcript = << >>
    BY FreshRun
  <2> QED BY <1>5, <2>1, <2>2
<1>7. DOMAIN all = 1 .. n /\ \A i \in 1 .. n : all[i] = IF E[i].ballot = << >> THEN << >> ELSE EffectiveRanks(E[i].ballot)
  BY <1>4 DEF RanksOf
<1>8. Sum(w, n) <= B /\ Sum(w, n) \in Nat
  <2>1. On(w, DOMAIN E) = w /\ Len(w) = n
    BY <1>4 DEF On
  <2>2. SumOver(w, DOMAIN E) = Sum(w, n)
    BY <2>1 DEF SumOver
  <2> QED BY <1>1, <1>4, <2>2, SumNat
<1>9. RunOK(n, cs, B, x[0]) /\ Steps(x[0]) = 0
  <2> DEFINE y == x[0]
  <2>1. /\ IsPortRun(y) /\ y.weights \in [1 .. n -> Nat] /\ y.spent = 0 /\ Sum(y.weights, n) + y.spent <= B
        /\ y.level = 1 /\ y.funded = << >>
    BY <1>4, <1>6, <1>8
  <2> HIDE DEF y
  <2>2. FundedIn(y, cs) = {} /\ Cardinality({}) = 0
    <3>1. \A c : ~IsFunded(y, c)
      BY <2>1 DEF IsFunded
    <3> QED BY <3>1, FS_EmptySet DEF FundedIn
  <2>3. Len(<< >>) = 0 /\ << >> \in Seq(1 .. Len(cs))
    OBVIOUS
  <2>4. Len(y.funded) = 0 /\ y.funded \in Seq(1 .. Len(cs))
    BY <2>1, <2>3
  <2>5. RunOK(n, cs, B, y)
    BY <1>2, <2>1, <2>2, <2>4 DEF RunOK
  <2>6. Steps(y) = 0
    BY <2>1, <2>4 DEF Steps
  <2> QED BY <2>5, <2>6 DEF y
<1> HIDE DEF all, b, n
<1>10. IsTranscript(n, all, 1 .. np, cs, B, x)
  <2>1. 1 .. np \subseteq 1 .. n
    BY <1>4
  <2>2. \A i \in 1 .. b : x[i] = TranscriptStep(x[i - 1], all, 1 .. np, cs, B)
    BY <1>4, <1>5
  <2> QED BY <1>1, <1>4, <1>6, <1>7, <1>9, <2>1, <2>2 DEF IsTranscript, b
<1>11. Course(n, all, 1 .. np, cs, B, x, t) /\ x[Len(t)].funded = last.funded
  BY <1>10, CourseEnds DEF b
<1> HIDE DEF t, last
<1>12. HasPublic(n, np, P, all, cs, B, x, t)
  <2>1. IsFront(np, n, RanksOf(P), all)
    <3>1. DOMAIN RanksOf(P) = 1 .. np
      BY <1>4 DEF RanksOf
    <3>2. \A i \in 1 .. np : RanksOf(P)[i] = IF P[i].ballot = << >> THEN << >> ELSE EffectiveRanks(P[i].ballot)
      BY <1>4 DEF RanksOf
    <3>3. \A i \in 1 .. np : RanksOf(P)[i] = all[i]
      BY <1>4, <1>7, <3>2
    <3>4. np \in 0 .. n
      BY <1>4 DEF n
    <3> QED BY <1>4, <1>7, <3>1, <3>3, <3>4 DEF IsFront
  <2>2. AllValid(P, Len(cs))
    <3>1. ASSUME NEW i \in 1 .. np, P[i].ballot # << >> PROVE Validate(P[i].ballot, Len(cs))
      <4>1. E[i] = P[i] /\ i \in DOMAIN E
        BY <1>4
      <4> QED BY <1>1, <3>1, <4>1 DEF AllValid
    <3> QED BY <1>4, <3>1 DEF AllValid
  <2>3. NewRun(P).weights = Front(x[0].weights, np)
    <3>1. NewRun(P).weights = [i \in 1 .. np |-> P[i].weight]
      BY <1>4, FreshRun
    <3>2. \A i \in 1 .. np : P[i].weight = w[i]
      BY <1>4
    <3>3. [i \in 1 .. np |-> P[i].weight] = [i \in 1 .. np |-> w[i]]
      BY <3>2
    <3> QED BY <1>6, <3>1, <3>3 DEF Front
  <2> QED BY <1>1, <1>6, <1>11, <2>1, <2>2, <2>3 DEF HasPublic
<1>13. HasSealed(n, np, S, all, cs, B, x, t)
  <2>1. IsBack(np, n, S, all)
    <3>1. \A i \in 1 .. Len(S) : all[np + i] = IF S[i].ballot = << >> THEN << >> ELSE EffectiveRanks(S[i].ballot)
      BY <1>4, <1>7
    <3>2. NSealedMax \in Nat /\ n = np + Len(S)
      BY ProfileAssumption DEF n
    <3> QED BY <1>1, <1>4, <1>7, <3>1, <3>2 DEF IsBack
  <2> QED BY <1>1, <1>6, <1>11, <2>1 DEF HasSealed
<1>14. StartsSealed(np, S, cs, x[0].weights, x[0])
  <2>1. \A i \in 1 .. Len(S) : x[0].weights[np + i] = S[i].weight
    BY <1>4, <1>6
  <2> QED BY <1>1, <1>4, <1>6, <2>1 DEF StartsSealed
<1>15. PbearTranscript(cs, P, S, B) = last
  <2>1. ~(SumOver(NewRun(P \o S).weights, DOMAIN (P \o S)) > B) /\ AllValid(P \o S, Len(cs))
    <3>1. SumOver(w, DOMAIN E) \in Nat
      <4>1. OnFacts(n, w, DOMAIN E)
        BY <1>4, OnTotals
      <4> QED BY <4>1 DEF OnFacts
    <3> QED BY <1>1, <3>1 DEF E, w
  <2> QED BY <2>1 DEF PbearTranscript, x, last, b
<1> QED BY <1>11, <1>12, <1>13, <1>14, <1>15 DEF CountFacts, E, np, n, all, x, b, last, t

\* An honest report stands, and the proofs of its steps end in its result.
StandFacts(P, S, cs, B) ==
  LET report == PbearTranscript(cs, P, S, B)
      t      == report.transcript
      proved == TallyChain(Ingested(Len(cs), B, S), cs, t)[Bound(Len(cs))]
  IN  /\ ReplayPublic(cs, P, t, B) /\ Len(t) <= 2 * Len(cs)
      /\ proved.done /\ ~proved.broken /\ proved.tHash = t /\ proved.funded = report.funded

LEMMA CountStands ==
  ASSUME NEW P, NEW S, NEW cs, NEW B, IsCount(P, S, cs, B)
  PROVE  StandFacts(P, S, cs, B)
<1> DEFINE n    == Len(P) + Len(S)
           all  == RanksOf(P \o S)
           x    == TranscriptRuns(cs, P, S, B)
           last == x[Bound(Len(cs))]
           t    == last.transcript
           s    == Ingested(Len(cs), B, S)
<1>1. /\ HasPublic(n, Len(P), P, all, cs, B, x, t) /\ HasSealed(n, Len(P), S, all, cs, B, x, t)
      /\ StartsSealed(Len(P), S, cs, x[0].weights, x[0])
      /\ x[Len(t)].funded = last.funded
      /\ PbearTranscript(cs, P, S, B) = last
  BY Counts DEF CountFacts
<1> HIDE DEF x, all, n, s
<1>2. ReplayPublic(cs, P, t, B)
  BY <1>1, AuditPasses
<1>3. Len(t) <= 2 * Len(cs)
  BY <1>1 DEF HasPublic, Course
<1>4. Proven(Len(P), S, cs, B, s, x[0])
  BY <1>1, ProofStarts DEF s
<1>5. LET end == TallyChain(s, cs, t)[Bound(Len(cs))]
      IN  end.done /\ ~end.broken /\ end.tHash = t /\ end.funded = x[Len(t)].funded
  BY <1>1, <1>4, ChainEnds
<1> QED BY <1>1, <1>2, <1>3, <1>5 DEF StandFacts, s

-----------------------------------------------------------------------------
(* The entries of a roster, listed in blocks.                              *)

WeightOf(E) == SumOver(NewRun(E).weights, DOMAIN E)

Listing(E, V) == LET places == Ordered(Len(E), V) IN [k \in DOMAIN places |-> E[places[k]]]

\* The weights of some entries.
LEMMA WeightIsTotal ==
  ASSUME NEW E \in Seq(EntryRecords)
  PROVE  /\ NewRun(E).weights \in [1 .. Len(E) -> Nat]
         /\ \A i \in 1 .. Len(E) : NewRun(E).weights[i] = E[i].weight
         /\ WeightOf(E) = PrefixSum(NewRun(E).weights, Len(E))[Len(E)] /\ WeightOf(E) \in Nat
<1> DEFINE w == NewRun(E).weights
           n == Len(E)
<1>1. n \in Nat /\ DOMAIN E = 1 .. n /\ \A i \in 1 .. n : E[i] \in EntryRecords
  OBVIOUS
<1>2. w = [i \in 1 .. n |-> E[i].weight]
  BY <1>1, FreshRun
<1>3. \A i \in 1 .. n : E[i].weight \in Nat
  BY <1>1 DEF EntryRecords
<1> HIDE DEF w
<1>4. w \in [1 .. n -> Nat] /\ \A i \in 1 .. n : w[i] = E[i].weight
  BY <1>2, <1>3
<1>5. SumOver(w, 1 .. n) = PrefixSum(w, n)[n] /\ SumOver(w, 1 .. n) \in Nat
  <2>1. OnFacts(n, w, 1 .. n)
    BY <1>1, <1>4, OnTotals
  <2>2. On(w, 1 .. n) = w
    BY <1>4 DEF On
  <2> QED BY <2>1, <2>2 DEF OnFacts
<1> QED BY <1>1, <1>4, <1>5 DEF WeightOf, w

\* Two blocks weigh what each of them weighs.
LEMMA BothWeigh ==
  ASSUME NEW P \in Seq(EntryRecords), NEW S \in Seq(EntryRecords)
  PROVE  WeightOf(P \o S) = WeightOf(P) + WeightOf(S)
<1> DEFINE E == P \o S
           a == Len(P)
           b == Len(S)
           n == Len(E)
           w == NewRun(E).weights
           p == NewRun(P).weights
           s == NewRun(S).weights
           d == [j \in 0 .. a |-> j]
           e == [j \in 0 .. b |-> a + j]
<1>1. E \in Seq(EntryRecords) /\ a \in Nat /\ b \in Nat /\ n = a + b /\ n \in Nat
  OBVIOUS
<1>2. JoinFacts(P, S)
  BY Joined
<1>3. \A i \in 1 .. a : E[i] = P[i] /\ i \in 1 .. n
  BY <1>1, <1>2 DEF JoinFacts
<1>4. \A i \in 1 .. b : E[a + i] = S[i] /\ a + i \in 1 .. n
  BY <1>1, <1>2 DEF JoinFacts
<1> HIDE DEF E, n
<1>5. /\ w \in [1 .. n -> Nat] /\ \A i \in 1 .. n : w[i] = E[i].weight
      /\ WeightOf(E) = PrefixSum(w, n)[n]
  BY <1>1, WeightIsTotal DEF n
<1>6. /\ p \in [1 .. a -> Nat] /\ \A i \in 1 .. a : p[i] = P[i].weight
      /\ WeightOf(P) = PrefixSum(p, a)[a]
  BY WeightIsTotal
<1>7. /\ s \in [1 .. b -> Nat] /\ \A i \in 1 .. b : s[i] = S[i].weight
      /\ WeightOf(S) = PrefixSum(s, b)[b]
  BY WeightIsTotal
<1> HIDE DEF w, p, s, a, b
<1>8. PrefixSum(w, n)[a] = PrefixSum(w, n)[0] + PrefixSum(p, a)[a]
  <2>1. d \in [0 .. a -> 0 .. n] /\ d[0] = 0 /\ d[a] = a
    BY <1>1
  <2>2. ASSUME NEW j \in 1 .. a
        PROVE  /\ d[j - 1] < d[j] /\ p[j] = w[d[j]]
               /\ \A i \in 1 .. n : d[j - 1] < i /\ i < d[j] => w[i] = 0
    <3>1. d[j] = j /\ d[j - 1] = j - 1
      BY <1>1
    <3>2. p[j] = w[j]
      BY <1>3, <1>5, <1>6
    <3> QED BY <1>1, <3>1, <3>2
  <2> HIDE DEF d
  <2>3. IsPart(a, p, n, w, d)
    BY <1>1, <1>5, <1>6, <2>1, <2>2 DEF IsPart
  <2>4. PartFacts(a, p, n, w, d)
    BY <2>3, PartTotals
  <2>5. a \in 0 .. a
    BY <1>1
  <2> QED BY <2>1, <2>4, <2>5 DEF PartFacts
<1>9. PrefixSum(w, n)[n] = PrefixSum(w, n)[a] + PrefixSum(s, b)[b]
  <2>1. e \in [0 .. b -> 0 .. n] /\ e[0] = a /\ e[b] = n
    BY <1>1
  <2>2. ASSUME NEW j \in 1 .. b
        PROVE  /\ e[j - 1] < e[j] /\ s[j] = w[e[j]]
               /\ \A i \in 1 .. n : e[j - 1] < i /\ i < e[j] => w[i] = 0
    <3>1. e[j] = a + j /\ e[j - 1] = a + j - 1
      BY <1>1
    <3>2. s[j] = w[a + j]
      BY <1>4, <1>5, <1>7
    <3> QED BY <1>1, <3>1, <3>2
  <2> HIDE DEF e
  <2>3. IsPart(b, s, n, w, e)
    BY <1>1, <1>5, <1>7, <2>1, <2>2 DEF IsPart
  <2>4. PartFacts(b, s, n, w, e)
    BY <2>3, PartTotals
  <2>5. b \in 0 .. b
    BY <1>1
  <2> QED BY <2>1, <2>4, <2>5 DEF PartFacts
<1>10. PrefixSum(w, n)[0] = 0 /\ PrefixSum(p, a)[a] \in Nat
  <2>1. w \in [1 .. n -> Int] /\ p \in [1 .. a -> Nat] /\ a \in 0 .. a
    BY <1>1, <1>5, <1>6
  <2>2. PrefixSum(w, n)[0] = 0
    BY <1>1, <2>1, PrefixSumUnfold
  <2>3. PrefixSum(p, a)[a] \in Nat
    BY <1>1, <2>1, PrefixSumNat
  <2> QED BY <2>2, <2>3
<1> QED BY <1>5, <1>6, <1>7, <1>8, <1>9, <1>10 DEF E

\* What a list of entries holds, and weighs.
Listed(E, V) ==
  LET l == Listing(E, V)
      q == Ordered(Len(E), V)
  IN  /\ Len(E) \in Nat /\ Len(q) \in Nat /\ DOMAIN q = 1 .. Len(q)
      /\ l \in Seq(EntryRecords) /\ Len(l) = Len(q) /\ DOMAIN l = 1 .. Len(q)
      /\ \A k \in 1 .. Len(q) : l[k] = E[q[k]] /\ q[k] \in V
      /\ WeightOf(l) = SumOver(NewRun(E).weights, V)

LEMMA ListingHolds ==
  ASSUME NEW E \in Seq(EntryRecords), NEW V \in SUBSET (1 .. Len(E))
  PROVE  Listed(E, V)
<1> DEFINE n == Len(E)
           w == NewRun(E).weights
           q == Ordered(n, V)
           l == Listing(E, V)
           k == Len(q)
           r == [i \in DOMAIN q |-> w[q[i]]]
<1>1. /\ n \in Nat /\ w \in [1 .. n -> Nat] /\ \A i \in 1 .. n : w[i] = E[i].weight
      /\ V \in SUBSET (1 .. n) /\ \A i \in 1 .. n : E[i] \in EntryRecords
  BY WeightIsTotal
<1>2. ListFacts(n, w, V)
  <2> HIDE DEF w
  <2> QED BY <1>1, ListedTotals
<1>3. q = ListedUpTo(n, V)[n]
  BY DEF Ordered
<1> HIDE DEF w, q, n
<1>4. /\ k \in Nat /\ DOMAIN q = 1 .. k /\ r \in [1 .. k -> Nat]
      /\ \A i \in 1 .. k : q[i] \in V
  BY <1>2, <1>3 DEF ListFacts
<1>5. PrefixSum(r, k)[k] = SumOver(w, V)
  <2>1. n \in 0 .. n
    BY <1>1
  <2>2. PrefixSum(r, k)[k] = PrefixSum(On(w, V), n)[n]
    BY <1>2, <1>3, <2>1 DEF ListFacts
  <2>3. OnFacts(n, w, V)
    BY <1>1, OnTotals
  <2> QED BY <2>2, <2>3 DEF OnFacts
<1>6. l = [i \in 1 .. k |-> E[q[i]]]
  BY <1>4 DEF Listing, q, n, k
<1>7. \A i \in 1 .. k : q[i] \in 1 .. n /\ E[q[i]] \in EntryRecords /\ r[i] = w[q[i]]
  <2>1. \A i \in 1 .. k : i \in DOMAIN q /\ q[i] \in 1 .. n
    BY <1>1, <1>4
  <2>2. \A i \in 1 .. k : r[i] = w[q[i]]
    BY <2>1
  <2> QED BY <1>1, <2>1, <2>2
<1> HIDE DEF l, k, r
<1>8. l \in Seq(EntryRecords) /\ Len(l) = k /\ DOMAIN l = 1 .. k /\ \A i \in 1 .. k : l[i] = E[q[i]]
  BY <1>4, <1>6, <1>7
<1>9. NewRun(l).weights = r
  <2>1. /\ NewRun(l).weights \in [1 .. k -> Nat]
        /\ \A i \in 1 .. k : NewRun(l).weights[i] = l[i].weight
    BY <1>8, WeightIsTotal
  <2>2. \A i \in 1 .. k : l[i].weight = r[i]
    BY <1>1, <1>7, <1>8
  <2>3. PICK v : v = NewRun(l).weights
    OBVIOUS
  <2>4. /\ v \in [1 .. k -> Nat] /\ r \in [1 .. k -> Nat]
        /\ \A i \in 1 .. k : v[i] = r[i]
    BY <1>4, <2>1, <2>2, <2>3
  <2>5. v = [i \in 1 .. k |-> v[i]] /\ r = [i \in 1 .. k |-> r[i]]
    BY <2>4
  <2>6. v = r
    BY <2>4, <2>5
  <2> QED BY <2>3, <2>6
<1>10. WeightOf(l) = SumOver(w, V)
  <2>1. WeightOf(l) = PrefixSum(NewRun(l).weights, k)[k]
    BY <1>8, WeightIsTotal
  <2> QED BY <1>5, <1>9, <2>1
<1> QED BY <1>1, <1>4, <1>8, <1>10 DEF Listed, l, k, q, w, n, r

\* A roster with valid ballots that the budget covers.
IsRoster(E, cs, B) ==
  /\ cs \in Seq(Nat \ {0}) /\ cs # << >> /\ B \in Nat /\ E \in Seq(EntryRecords)
  /\ AllValid(E, Len(cs)) /\ WeightOf(E) <= B

\* The entries of those outside `sealers` that voted, and of the sealers.
Voted(E, sealers) == {i \in DOMAIN E \ sealers : E[i].ballot # << >>}

\* Two lists from different places of a roster are as valid and weigh no more.
LEMMA ListsCount ==
  ASSUME NEW E, NEW cs, NEW B, IsRoster(E, cs, B),
         NEW V, NEW S, V \subseteq DOMAIN E, S \subseteq DOMAIN E, V \cap S = {}
  PROVE  LET P == Listing(E, V)
             T == Listing(E, S)
         IN  /\ P \in Seq(EntryRecords) /\ T \in Seq(EntryRecords)
             /\ WeightOf(P \o T) <= B /\ WeightOf(P \o T) \in Nat
             /\ AllValid(P \o T, Len(cs))
<1> DEFINE P == Listing(E, V)
           T == Listing(E, S)
           n == Len(E)
           w == NewRun(E).weights
<1>1. /\ cs \in Seq(Nat \ {0}) /\ cs # << >> /\ B \in Nat /\ E \in Seq(EntryRecords)
      /\ AllValid(E, Len(cs)) /\ WeightOf(E) <= B
      /\ n \in Nat /\ DOMAIN E = 1 .. n
  BY DEF IsRoster
<1>2. V \in SUBSET (1 .. n) /\ S \in SUBSET (1 .. n) /\ V \cap S = {}
  BY <1>1
<1>3. Listed(E, V) /\ Listed(E, S)
  BY <1>1, <1>2, ListingHolds
<1>4. P \in Seq(EntryRecords) /\ T \in Seq(EntryRecords)
  BY <1>3 DEF Listed
<1>5. WeightOf(P \o T) <= B /\ WeightOf(P \o T) \in Nat
  <2>1. WeightOf(P \o T) = SumOver(w, V) + SumOver(w, S)
    <3>1. WeightOf(P \o T) = WeightOf(P) + WeightOf(T)
      <4> HIDE DEF P, T
      <4> QED BY <1>4, BothWeigh
    <3> QED BY <1>3, <3>1 DEF Listed
  <2>2. w \in [1 .. n -> Nat] /\ WeightOf(E) = PrefixSum(w, n)[n]
    BY <1>1, WeightIsTotal
  <2> HIDE DEF w, n
  <2>3. SumOver(w, V \cup S) = SumOver(w, V) + SumOver(w, S)
    <3>1. CanSplit(n, w, V \cup S, V, S)
      BY <1>1, <1>2, <2>2 DEF CanSplit
    <3> QED BY <3>1, SplitTotal
  <2>4. SumOver(w, V \cup S) <= Sum(w, n) /\ Sum(w, n) = WeightOf(E) /\ SumOver(w, V \cup S) \in Nat /\ Sum(w, n) \in Nat
    <3>1. SumOver(w, V \cup S) <= Sum(w, n) /\ SumOver(w, V \cup S) \in Nat /\ Sum(w, n) \in Nat
      BY <1>1, <2>2, WeighsEnough
    <3> QED BY <2>2, <3>1 DEF Sum
  <2> QED BY <1>1, <2>1, <2>3, <2>4
<1>6. AllValid(P \o T, Len(cs))
  <2>1. ASSUME NEW i \in 1 .. Len(P) PROVE P[i].ballot # << >> => Validate(P[i].ballot, Len(cs))
    <3>1. \E a \in 1 .. n : P[i] = E[a]
      BY <1>2, <1>3, <2>1 DEF Listed
    <3> QED BY <1>1, <3>1 DEF AllValid
  <2>2. ASSUME NEW i \in 1 .. Len(T) PROVE T[i].ballot # << >> => Validate(T[i].ballot, Len(cs))
    <3>1. \E a \in 1 .. n : T[i] = E[a]
      BY <1>2, <1>3, <2>2 DEF Listed
    <3> QED BY <1>1, <3>1 DEF AllValid
  <2> HIDE DEF P, T
  <2>3. JoinFacts(P, T)
    BY <1>4, Joined
  <2>4. ASSUME NEW i \in DOMAIN (P \o T)
        PROVE  (\E j \in 1 .. Len(P) : (P \o T)[i] = P[j]) \/ (\E j \in 1 .. Len(T) : (P \o T)[i] = T[j])
    <3>1. i \in 1 .. Len(P) + Len(T) /\ Len(P) \in Nat /\ Len(T) \in Nat
      BY <2>3 DEF JoinFacts
    <3>2. CASE i <= Len(P)
      <4>1. i \in 1 .. Len(P)
        BY <3>1, <3>2
      <4> QED BY <2>3, <4>1 DEF JoinFacts
    <3>3. CASE ~(i <= Len(P))
      <4>1. i - Len(P) \in 1 .. Len(T) /\ Len(P) + (i - Len(P)) = i
        BY <3>1, <3>3
      <4>2. PICK j \in 1 .. Len(T) : Len(P) + j = i
        BY <4>1
      <4>3. (P \o T)[Len(P) + j] = T[j]
        BY <2>3 DEF JoinFacts
      <4> QED BY <4>2, <4>3
    <3> QED BY <3>2, <3>3
  <2> QED BY <2>1, <2>2, <2>4 DEF AllValid
<1> QED BY <1>4, <1>5, <1>6

\* Whoever sealed, the two blocks can be counted.
LEMMA BlocksCount ==
  ASSUME NEW E, NEW cs, NEW B, IsRoster(E, cs, B),
         NEW S, S \subseteq DOMAIN E, Cardinality(S) <= NSealedMax
  PROVE  IsCount(Listing(E, Voted(E, S)), Listing(E, S), cs, B)
<1> DEFINE V == Voted(E, S)
           P == Listing(E, V)
           T == Listing(E, S)
           n == Len(E)
<1>1. /\ cs \in Seq(Nat \ {0}) /\ cs # << >> /\ B \in Nat /\ E \in Seq(EntryRecords)
      /\ n \in Nat /\ DOMAIN E = 1 .. n
  BY DEF IsRoster
<1>2. V \subseteq DOMAIN E /\ V \cap S = {} /\ S \in SUBSET (1 .. n)
  BY <1>1 DEF Voted
<1> HIDE DEF V
<1>3. Listed(E, S)
  BY <1>1, <1>2, ListingHolds
<1>4. P \in Seq(EntryRecords) /\ T \in Seq(EntryRecords) /\ WeightOf(P \o T) <= B /\ AllValid(P \o T, Len(cs))
  BY <1>2, ListsCount
<1>5. Len(T) <= NSealedMax
  <2> DEFINE q == Ordered(n, S)
             k == Len(q)
  <2>1. Len(T) = k /\ k \in Nat
    BY <1>3 DEF Listed
  <2>2. InOrder(n, S)
    BY <1>1, <1>2, ListedOrder
  <2>3. \A i \in 1 .. k : q[i] \in S /\ Len(ListedUpTo(n, S)[q[i]]) = i
    BY <2>2 DEF InOrder
  <2>4. IsFiniteSet(S)
    <3>1. IsFiniteSet(1 .. n)
      BY <1>1, FS_Interval
    <3> QED BY <1>2, <3>1, FS_Subset
  <2>5. k <= Cardinality(S)
    <3> DEFINE f == [i \in 1 .. k |-> q[i]]
    <3>1. f \in [1 .. k -> S] /\ \A i, j \in 1 .. k : f[i] = f[j] => i = j
      <4>1. \A i \in 1 .. k : f[i] \in S
        BY <2>3
      <4>2. \A i, j \in 1 .. k : q[i] = q[j] => i = j
        BY <2>3
      <4> QED BY <4>1, <4>2
    <3>2. f \in Injection(1 .. k, S)
      <4> HIDE DEF f
      <4> QED BY <3>1 DEF Injection, IsInjective
    <3>3. IsFiniteSet(1 .. k) /\ Cardinality(1 .. k) = k
      <4>1. 1 \in Int /\ k \in Int /\ (1 > k => k = 0) /\ (~(1 > k) => k - 1 + 1 = k)
        BY <2>1
      <4> HIDE DEF k
      <4> QED BY <2>1, <4>1, FS_Interval
    <3>4. Cardinality(1 .. k) <= Cardinality(S)
      BY <2>4, <3>2, FS_Injection
    <3> QED BY <3>3, <3>4
  <2>6. Cardinality(S) \in Nat /\ NSealedMax \in Nat
    BY <2>4, FS_CardinalityType, ProfileAssumption
  <2> HIDE DEF k
  <2> QED BY <2>1, <2>5, <2>6
<1> HIDE DEF P, T
<1> QED BY <1>1, <1>4, <1>5 DEF IsCount, WeightOf, P, T, V

-----------------------------------------------------------------------------
(* The roster of the tally.                                                *)

LEMMA RosterCounts ==
  ASSUME TallyInv, StakeInv, tallyStarted
  PROVE  IsRoster(Entries, costs, budget)
<1> DEFINE n == Len(ledger.voters)
<1>1. /\ n \in Nat /\ \A i \in 1 .. n : ledger.voters[i] \in Voter
      /\ costs \in Seq(Nat \ {0}) /\ budget \in Nat
  BY RosterFacts
<1>2. /\ Entries = [i \in 1 .. n |-> Entries[i]] /\ DOMAIN Entries = 1 .. n
      /\ \A i \in 1 .. n : Entries[i] = [weight |-> initial[ledger.voters[i]], ballot |-> ballot[ledger.voters[i]]]
  BY RosterFacts, EntryWeights
<1>3. initial \in [Voter -> Nat] /\ ballot \in [Voter -> Seq(Nat)] /\ costs # << >>
  BY DEF TallyInv, TypeOK
<1>4. \A i \in 1 .. n : Entries[i] \in EntryRecords
  <2> TAKE i \in 1 .. n
  <2>1. initial[ledger.voters[i]] \in Nat /\ ballot[ledger.voters[i]] \in Seq(Nat)
    BY <1>1, <1>3
  <2>2. Entries[i] = [weight |-> initial[ledger.voters[i]], ballot |-> ballot[ledger.voters[i]]]
    BY <1>2
  <2> QED BY <2>1, <2>2 DEF EntryRecords
<1>5. Entries \in Seq(EntryRecords)
  <2>1. Entries \in [1 .. n -> EntryRecords]
    <3>1. PICK f : f = Entries
      OBVIOUS
    <3>2. f = [i \in 1 .. n |-> f[i]] /\ \A i \in 1 .. n : f[i] \in EntryRecords
      BY <1>2, <1>4, <3>1
    <3>3. f \in [1 .. n -> EntryRecords]
      BY <3>2
    <3> QED BY <3>1, <3>3
  <2>2. PICK d : d = n
    OBVIOUS
  <2>3. d \in Nat /\ Entries \in [1 .. d -> EntryRecords]
    BY <1>1, <2>1, <2>2
  <2> HIDE DEF n
  <2> QED BY <2>3
<1>6. WeightOf(Entries) <= budget
  BY StakeIsWeighed DEF StakeInv, WeightOf
<1>7. AllValid(Entries, Len(costs))
  BY EntriesAreValid
<1> QED BY <1>1, <1>3, <1>5, <1>6, <1>7 DEF IsRoster

\* The blocks of the ports are such lists.
LEMMA BlocksAreLists ==
  ASSUME NEW sealers \in Sealings
  PROVE  /\ PublicBlock(sealers) = Listing(Entries, Voted(Entries, sealers))
         /\ SealedBlock(sealers) = Listing(Entries, sealers)
         /\ sealers \subseteq DOMAIN Entries /\ Cardinality(sealers) <= NSealedMax
  BY DEF Sealings, PublicBlock, SealedBlock, Listing, Voted

LEMMA RoundCounts ==
  ASSUME TallyInv, StakeInv, tallyStarted, NEW sealers \in Sealings
  PROVE  IsCount(PublicBlock(sealers), SealedBlock(sealers), costs, budget)
  BY RosterCounts, BlocksAreLists, BlocksCount

LEMMA HonestDone ==
  ASSUME TallyInv, StakeInv
  PROVE  HonestReportStands
<1> SUFFICES ASSUME tallyDone, NEW sealers \in Sealings
             PROVE  LET report == Report(sealers)
                        proved == ProofChain(sealers, report.transcript)
                    IN  /\ ReplayPublic(costs, PublicBlock(sealers), report.transcript, budget)
                        /\ Len(report.transcript) <= 2 * Len(costs)
                        /\ ~proved.broken /\ proved.tHash = report.transcript
  BY DEF HonestReportStands
<1>1. tallyStarted
  BY DEF TallyInv, EngineInv
<1>2. StandFacts(PublicBlock(sealers), SealedBlock(sealers), costs, budget)
  BY <1>1, RoundCounts, CountStands
<1> QED BY <1>2 DEF StandFacts, Report, ProofChain, Start

-----------------------------------------------------------------------------
(* What the guest is given.                                                *)

\* The records of a roster of which some sealed their ballot.
Records(E, S) ==
  [i \in DOMAIN E |->
     [directWeight |-> IF i \in S THEN 0 ELSE E[i].weight,
      directBallot |-> IF i \in S THEN << >> ELSE E[i].ballot,
      seatWeight   |-> IF i \in S THEN E[i].weight ELSE 0,
      sealedBallot |-> IF i \in S THEN E[i].ballot ELSE << >>]]

\* The sealers whose ballot decrypts.
Readable(E, S) == {i \in S : E[i].ballot # << >>}

LEMMA GuestReads ==
  ASSUME NEW E, NEW cs, NEW B, IsRoster(E, cs, B), NEW S, S \subseteq DOMAIN E
  PROVE  /\ DirectEntries(Len(cs), Records(E, S)) = Listing(E, Voted(E, S))
         /\ DecryptedEntries(Len(cs), Records(E, S)) = Listing(E, Readable(E, S))
<1> DEFINE n == Len(E)
           m == Len(cs)
           r == Records(E, S)
           V == Voted(E, S)
           R == Readable(E, S)
<1>1. E \in Seq(EntryRecords) /\ n \in Nat /\ DOMAIN E = 1 .. n /\ AllValid(E, m)
  BY DEF IsRoster
<1>2. DOMAIN r = 1 .. n /\ Len(r) = n
  <2>1. r = [i \in 1 .. n |-> r[i]]
    BY <1>1 DEF Records
  <2> HIDE DEF r
  <2> QED BY <1>1, <2>1
<1>3. ASSUME NEW i \in 1 .. n
      PROVE  /\ r[i].directWeight = (IF i \in S THEN 0 ELSE E[i].weight)
             /\ r[i].directBallot = (IF i \in S THEN << >> ELSE E[i].ballot)
             /\ r[i].seatWeight = (IF i \in S THEN E[i].weight ELSE 0)
             /\ r[i].sealedBallot = (IF i \in S THEN E[i].ballot ELSE << >>)
             /\ E[i] = [weight |-> E[i].weight, ballot |-> E[i].ballot]
             /\ E[i].ballot # << >> => Validate(E[i].ballot, m)
  <2>1. E[i] \in EntryRecords
    BY <1>1
  <2>2. E[i] = [weight |-> E[i].weight, ballot |-> E[i].ballot]
    BY <2>1 DEF EntryRecords
  <2> QED BY <1>1, <2>2 DEF Records, AllValid
<1> HIDE DEF r, m
<1>4. {i \in DOMAIN r : r[i].directBallot # << >> /\ Validate(r[i].directBallot, m)} = V
  BY <1>1, <1>2, <1>3 DEF Voted
<1>5. {i \in DOMAIN r : r[i].sealedBallot # << >> /\ Validate(r[i].sealedBallot, m)} = R
  BY <1>1, <1>2, <1>3 DEF Readable
<1>6. V \in SUBSET (1 .. n) /\ R \in SUBSET (1 .. n) /\ V \cap S = {} /\ R \subseteq S
  BY <1>1 DEF Voted, Readable
<1> HIDE DEF V, R
<1>7. Listed(E, V) /\ Listed(E, R)
  BY <1>1, <1>6, ListingHolds
<1>8. DirectEntries(m, r) = Listing(E, V)
  <2> DEFINE q == Ordered(n, V)
  <2>1. DirectEntries(m, r) = [k \in DOMAIN q |-> [weight |-> r[q[k]].directWeight, ballot |-> r[q[k]].directBallot]]
    BY <1>2, <1>4 DEF DirectEntries
  <2>2. Listing(E, V) = [k \in DOMAIN q |-> E[q[k]]]
    BY DEF Listing
  <2>3. ASSUME NEW k \in DOMAIN q PROVE [weight |-> r[q[k]].directWeight, ballot |-> r[q[k]].directBallot] = E[q[k]]
    <3>1. q[k] \in V
      BY <1>7 DEF Listed
    <3>2. PICK i \in 1 .. n : i = q[k] /\ i \notin S
      BY <1>6, <3>1
    <3> HIDE DEF q
    <3>3. r[i].directWeight = E[i].weight /\ r[i].directBallot = E[i].ballot
      BY <1>3, <3>2
    <3>4. E[i] = [weight |-> E[i].weight, ballot |-> E[i].ballot]
      BY <1>3
    <3> QED BY <3>2, <3>3, <3>4
  <2> HIDE DEF q
  <2> QED BY <2>1, <2>2, <2>3
<1>9. DecryptedEntries(m, r) = Listing(E, R)
  <2> DEFINE q == Ordered(n, R)
  <2>1. DecryptedEntries(m, r) = [k \in DOMAIN q |-> [weight |-> r[q[k]].seatWeight, ballot |-> r[q[k]].sealedBallot]]
    BY <1>2, <1>5 DEF DecryptedEntries
  <2>2. Listing(E, R) = [k \in DOMAIN q |-> E[q[k]]]
    BY DEF Listing
  <2>3. ASSUME NEW k \in DOMAIN q PROVE [weight |-> r[q[k]].seatWeight, ballot |-> r[q[k]].sealedBallot] = E[q[k]]
    <3>1. q[k] \in R
      BY <1>7 DEF Listed
    <3>2. PICK i \in 1 .. n : i = q[k] /\ i \in S
      BY <1>6, <3>1
    <3> HIDE DEF q
    <3>3. r[i].seatWeight = E[i].weight /\ r[i].sealedBallot = E[i].ballot
      BY <1>3, <3>2
    <3>4. E[i] = [weight |-> E[i].weight, ballot |-> E[i].ballot]
      BY <1>3
    <3> QED BY <3>2, <3>3, <3>4
  <2> HIDE DEF q
  <2> QED BY <2>1, <2>2, <2>3
<1> QED BY <1>8, <1>9 DEF r, m, V, R

\* Where what the guest counts is among both blocks.
GuestPlace(np, p, k) == [j \in 0 .. k |-> IF j <= np THEN j ELSE np + p[j - np]]

LEMMA GuestIsThinned ==
  ASSUME NEW E, NEW cs, NEW B, IsRoster(E, cs, B), NEW S, S \subseteq DOMAIN E
  PROVE  LET P == Listing(E, Voted(E, S))
             D == Listing(E, Readable(E, S))
             T == Listing(E, S)
             k == Len(P) + Len(D)
             n == Len(P) + Len(T)
             e == GuestPlace(Len(P), SubPlace(Len(E), Readable(E, S), S), k)
         IN  /\ Thinned(k, n, e, RanksOf(P \o D), RanksOf(P \o T))
             /\ \A j \in 1 .. k : e[j] \in 1 .. n /\ (P \o D)[j] = (P \o T)[e[j]]
<1> DEFINE V == Voted(E, S)
           R == Readable(E, S)
           P == Listing(E, V)
           D == Listing(E, R)
           T == Listing(E, S)
           np == Len(P)
           d == Len(D)
           t == Len(T)
           k == np + d
           n == np + t
           p == SubPlace(Len(E), R, S)
           e == GuestPlace(np, p, k)
           F == P \o D
           A == P \o T
<1>1. E \in Seq(EntryRecords) /\ Len(E) \in Nat /\ DOMAIN E = 1 .. Len(E)
  BY DEF IsRoster
<1>2. V \in SUBSET (1 .. Len(E)) /\ R \in SUBSET (1 .. Len(E)) /\ S \in SUBSET (1 .. Len(E)) /\ R \in SUBSET S
      /\ \A i \in S : i \notin R => E[i].ballot = << >>
  BY <1>1 DEF Voted, Readable
<1> HIDE DEF V, R
<1>3. Listed(E, V) /\ Listed(E, R) /\ Listed(E, S)
  BY <1>1, <1>2, ListingHolds
<1>4. Sublisted(Len(E), R, S)
  BY <1>1, <1>2, SublistPlaces
<1>5. P \in Seq(EntryRecords) /\ D \in Seq(EntryRecords) /\ T \in Seq(EntryRecords) /\ np \in Nat /\ d \in Nat /\ t \in Nat
  BY <1>3 DEF Listed
<1>6. /\ p \in [0 .. d -> 0 .. t] /\ p[0] = 0
      /\ \A j \in 1 .. d : /\ p[j - 1] < p[j] /\ p[j] \in 1 .. t /\ T[p[j]] = D[j]
                           /\ \A g \in 1 .. t : p[j - 1] < g /\ g < p[j] => T[g].ballot = << >>
      /\ \A g \in 1 .. t : p[d] < g => T[g].ballot = << >>
  <2> DEFINE O == Ordered(Len(E), S)
             Q == Ordered(Len(E), R)
  <2>1. /\ p \in [0 .. d -> 0 .. t] /\ p[0] = 0
        /\ \A j \in 1 .. d : /\ p[j - 1] < p[j] /\ O[p[j]] = Q[j] /\ Q[j] \in R
                             /\ \A g \in 1 .. t : p[j - 1] < g /\ g < p[j] => O[g] \notin R
        /\ \A g \in 1 .. t : O[g] \in S /\ (p[d] < g => O[g] \notin R)
    <3>1. d = Len(Q) /\ t = Len(O)
      BY <1>3 DEF Listed
    <3> HIDE DEF O, Q, p, d, t
    <3> QED BY <1>4, <3>1 DEF Sublisted, O, Q, p
  <2>2. /\ \A g \in 1 .. t : T[g] = E[O[g]]
        /\ \A j \in 1 .. d : D[j] = E[Q[j]]
    BY <1>3 DEF Listed
  <2> HIDE DEF O, Q, p, d, t, T, D
  <2>3. \A j \in 1 .. d : p[j] \in 1 .. t
    <3> TAKE j \in 1 .. d
    <3>1. j \in 0 .. d /\ j - 1 \in 0 .. d
      BY <1>5
    <3>2. p[j] \in 0 .. t /\ p[j - 1] \in 0 .. t /\ p[j - 1] < p[j]
      BY <2>1, <3>1
    <3> QED BY <1>5, <3>2
  <2>4. \A g \in 1 .. t : O[g] \notin R => T[g].ballot = << >>
    BY <1>2, <2>1, <2>2
  <2>5. \A j \in 1 .. d : T[p[j]] = D[j]
    BY <2>1, <2>2, <2>3
  <2> QED BY <2>1, <2>3, <2>4, <2>5
<1>7. JoinFacts(P, D) /\ JoinFacts(P, T)
  BY <1>5, Joined
<1>8. /\ DOMAIN F = 1 .. k /\ DOMAIN A = 1 .. n /\ k \in Nat /\ n \in Nat
      /\ \A i \in 1 .. np : F[i] = P[i] /\ A[i] = P[i] /\ i \in 1 .. n
      /\ \A i \in 1 .. d : F[np + i] = D[i]
      /\ \A i \in 1 .. t : A[np + i] = T[i] /\ np + i \in 1 .. n
  <2> HIDE DEF P, D, T
  <2> QED BY <1>7 DEF JoinFacts
<1> HIDE DEF P, D, T, np, d, t, p, F, A
<1>9. /\ e \in [0 .. k -> 0 .. n] /\ e[0] = 0
      /\ \A j \in 1 .. np : e[j] = j /\ e[j - 1] = j - 1 /\ j \in 1 .. k
      /\ \A i \in 1 .. d : e[np + i] = np + p[i] /\ e[np + i - 1] = np + p[i - 1] /\ np + i \in 1 .. k
  <2>1. e = [j \in 0 .. k |-> IF j <= np THEN j ELSE np + p[j - np]]
    BY DEF GuestPlace
  <2> HIDE DEF e
  <2>2. \A j \in 0 .. k : (IF j <= np THEN j ELSE np + p[j - np]) \in 0 .. n
    <3> TAKE j \in 0 .. k
    <3>1. CASE j <= np
      BY <1>5, <3>1
    <3>2. CASE ~(j <= np)
      <4>1. j - np \in 0 .. d
        BY <1>5, <3>2
      <4>2. p[j - np] \in 0 .. t
        BY <1>6, <4>1
      <4> QED BY <1>5, <3>2, <4>2
    <3> QED BY <3>1, <3>2
  <2>3. e \in [0 .. k -> 0 .. n]
    BY <2>1, <2>2
  <2>4. 0 \in 0 .. k /\ 0 <= np
    BY <1>5
  <2>5. e[0] = 0
    BY <2>1, <2>4
  <2>6. ASSUME NEW j \in 1 .. np PROVE e[j] = j /\ e[j - 1] = j - 1 /\ j \in 1 .. k
    <3>1. j \in 0 .. k /\ j - 1 \in 0 .. k /\ j <= np /\ j - 1 <= np /\ j \in 1 .. k
      BY <1>5
    <3> QED BY <2>1, <3>1
  <2>7. ASSUME NEW i \in 1 .. d PROVE e[np + i] = np + p[i] /\ e[np + i - 1] = np + p[i - 1] /\ np + i \in 1 .. k
    <3>1. np + i \in 0 .. k /\ ~(np + i <= np) /\ (np + i) - np = i /\ np + i \in 1 .. k
      BY <1>5
    <3>2. e[np + i] = np + p[(np + i) - np]
      BY <2>1, <3>1
    <3>3. e[np + i - 1] = np + p[i - 1]
      <4>1. CASE i = 1
        <5>1. np + i - 1 = np /\ np \in 0 .. k /\ np <= np /\ i - 1 = 0 /\ np + 0 = np
          BY <1>5, <4>1
        <5>2. e[np] = np
          BY <2>1, <5>1
        <5> QED BY <1>6, <5>1, <5>2
      <4>2. CASE i # 1
        <5>1. np + i - 1 \in 0 .. k /\ ~(np + i - 1 <= np) /\ (np + i - 1) - np = i - 1
          BY <1>5, <4>2
        <5>2. e[np + i - 1] = np + p[(np + i - 1) - np]
          BY <2>1, <5>1
        <5> QED BY <5>1, <5>2
      <4> QED BY <4>1, <4>2
    <3> QED BY <3>1, <3>2, <3>3
  <2> QED BY <2>3, <2>5, <2>6, <2>7
<1> HIDE DEF e
<1>10. ASSUME NEW j \in 1 .. k
       PROVE  j \in 1 .. np \/ \E i \in 1 .. d : j = np + i
  <2>1. j \in Nat /\ j >= 1 /\ j <= np + d
    BY <1>5, <1>8
  <2>2. CASE j <= np
    BY <1>5, <2>1, <2>2
  <2>3. CASE ~(j <= np)
    <3>1. j - np \in 1 .. d /\ j = np + (j - np)
      BY <1>5, <2>1, <2>3
    <3> QED BY <3>1
  <2> QED BY <2>2, <2>3
<1>11. /\ DOMAIN RanksOf(F) = 1 .. k /\ DOMAIN RanksOf(A) = 1 .. n
       /\ \A j \in 1 .. k : RanksOf(F)[j] = IF F[j].ballot = << >> THEN << >> ELSE EffectiveRanks(F[j].ballot)
       /\ \A i \in 1 .. n : RanksOf(A)[i] = IF A[i].ballot = << >> THEN << >> ELSE EffectiveRanks(A[i].ballot)
  <2> HIDE DEF k, n
  <2> QED BY <1>8 DEF RanksOf
<1>12. \A g \in 1 .. n : np < g => g - np \in 1 .. t /\ A[g] = T[g - np]
  <2> TAKE g \in 1 .. n
  <2> HAVE np < g
  <2>1. g - np \in 1 .. t /\ np + (g - np) = g
    BY <1>5
  <2>2. A[np + (g - np)] = T[g - np]
    BY <1>8, <2>1
  <2> QED BY <2>1, <2>2
<1>13. ASSUME NEW j \in 1 .. k
       PROVE  /\ e[j] \in 1 .. n /\ F[j] = A[e[j]] /\ e[j - 1] < e[j]
              /\ \A g \in 1 .. n : e[j - 1] < g /\ g < e[j] => A[g].ballot = << >>
  <2>1. CASE j \in 1 .. np
    <3>1. e[j] = j /\ e[j - 1] = j - 1 /\ F[j] = P[j] /\ A[j] = P[j] /\ j \in 1 .. n
      BY <1>8, <1>9, <2>1
    <3>2. j - 1 < j /\ \A g \in 1 .. n : ~(j - 1 < g /\ g < j)
      BY <1>8
    <3> QED BY <3>1, <3>2
  <2>2. CASE \E i \in 1 .. d : j = np + i
    <3>1. PICK i \in 1 .. d : j = np + i
      BY <2>2
    <3>2. /\ p[i - 1] < p[i] /\ p[i] \in 1 .. t /\ T[p[i]] = D[i]
          /\ \A g \in 1 .. t : p[i - 1] < g /\ g < p[i] => T[g].ballot = << >>
      BY <1>6
    <3>3. p[i - 1] \in 0 .. t
      <4>1. i - 1 \in 0 .. d
        BY <1>5
      <4> QED BY <1>6, <4>1
    <3>4. e[j] = np + p[i] /\ e[j - 1] = np + p[i - 1]
      <4>1. e[np + i] = np + p[i] /\ e[np + i - 1] = np + p[i - 1]
        BY <1>9
      <4>2. j - 1 = np + i - 1
        BY <1>5, <3>1
      <4> QED BY <3>1, <4>1, <4>2
    <3>5. F[j] = D[i] /\ A[np + p[i]] = T[p[i]] /\ np + p[i] \in 1 .. n
      BY <1>8, <3>1, <3>2
    <3>6. e[j - 1] < e[j]
      <4>1. p[i - 1] \in Nat /\ p[i] \in Nat /\ p[i - 1] < p[i] /\ np \in Nat
        BY <1>5, <3>2, <3>3
      <4> QED BY ONLY <3>4, <4>1
    <3>7. ASSUME NEW g \in 1 .. n, e[j - 1] < g, g < e[j] PROVE A[g].ballot = << >>
      <4>1. PICK a \in 0 .. t, b \in 1 .. t : a = p[i - 1] /\ b = p[i]
        BY <3>2, <3>3
      <4>2. np + a < g /\ g < np + b
        BY <3>4, <3>7, <4>1
      <4>3. np < g /\ a < g - np /\ g - np < b
        BY <1>5, <1>8, <4>2
      <4> QED BY <1>12, <3>2, <4>1, <4>3
    <3> QED BY <3>2, <3>4, <3>5, <3>6, <3>7
  <2> QED BY <1>10, <2>1, <2>2
<1>14. ASSUME NEW g \in 1 .. n, e[k] < g PROVE A[g].ballot = << >>
  <2>1. e[k] = np + p[d]
    <3>1. CASE d = 0
      <4>1. k = np /\ p[d] = 0 /\ np + 0 = np
        BY <1>5, <1>6, <3>1
      <4>2. e[np] = np
        <5>1. CASE np = 0
          BY <1>9, <5>1
        <5>2. CASE np # 0
          <6>1. np \in 1 .. np
            BY <1>5, <5>2
          <6> QED BY <1>9, <6>1
        <5> QED BY <5>1, <5>2
      <4> QED BY <4>1, <4>2
    <3>2. CASE d # 0
      <4>1. d \in 1 .. d
        BY <1>5, <3>2
      <4> QED BY <1>9, <4>1
    <3> QED BY <3>1, <3>2
  <2>2. p[d] \in 0 .. t
    <3>1. d \in 0 .. d
      BY <1>5
    <3> QED BY <1>6, <3>1
  <2>3. np < g /\ p[d] < g - np
    BY <1>5, <1>14, <2>1, <2>2
  <2> QED BY <1>6, <1>12, <2>3
<1> HIDE DEF k, n
<1>15. Thinned(k, n, e, RanksOf(F), RanksOf(A))
  <2> DEFINE few == RanksOf(F)
             all == RanksOf(A)
  <2>0. /\ DOMAIN few = 1 .. k /\ DOMAIN all = 1 .. n
        /\ \A j \in 1 .. k : few[j] = IF F[j].ballot = << >> THEN << >> ELSE EffectiveRanks(F[j].ballot)
        /\ \A i \in 1 .. n : all[i] = IF A[i].ballot = << >> THEN << >> ELSE EffectiveRanks(A[i].ballot)
    BY <1>11
  <2> HIDE DEF few, all
  <2>1. DOMAIN few = 1 .. k /\ DOMAIN all = 1 .. n
    BY <2>0
  <2>2. \A i \in 1 .. n : A[i].ballot = << >> => all[i] = << >>
    BY <2>0
  <2>3. \A j \in 1 .. k : \A i \in 1 .. n : F[j] = A[i] => few[j] = all[i]
    BY <2>0
  <2>4. ASSUME NEW j \in 1 .. k
        PROVE  /\ e[j - 1] < e[j] /\ few[j] = all[e[j]]
               /\ \A i \in 1 .. n : e[j - 1] < i /\ i < e[j] => all[i] = << >>
    <3>1. /\ e[j] \in 1 .. n /\ F[j] = A[e[j]] /\ e[j - 1] < e[j]
          /\ \A g \in 1 .. n : e[j - 1] < g /\ g < e[j] => A[g].ballot = << >>
      BY <1>13
    <3>2. few[j] = all[e[j]]
      BY <2>3, <3>1
    <3> QED BY <2>2, <3>1, <3>2
  <2>5. \A i \in 1 .. n : e[k] < i => all[i] = << >>
    BY <1>14, <2>2
  <2>6. k \in Nat /\ n \in Nat /\ e \in [0 .. k -> 0 .. n] /\ e[0] = 0
    BY <1>8, <1>9 DEF k, n
  <2>7. Thinned(k, n, e, few, all)
    BY <2>1, <2>4, <2>5, <2>6 DEF Thinned
  <2> QED BY <2>7 DEF few, all
<1>16. \A j \in 1 .. k : e[j] \in 1 .. n /\ F[j] = A[e[j]]
  BY <1>13
<1> QED BY <1>15, <1>16 DEF V, R, P, D, T, np, d, t, k, n, p, e, F, A

\* What the guest counts is what everybody else counts.
LEMMA GuestRuns ==
  ASSUME NEW E, NEW cs, NEW B, IsRoster(E, cs, B), NEW S, S \subseteq DOMAIN E
  PROVE  LET P == Listing(E, Voted(E, S))
             D == Listing(E, Readable(E, S))
             T == Listing(E, S)
         IN  OneBlockRuns(cs, P \o D, B)[Bound(Len(cs))].funded
               = TranscriptRuns(cs, P, T, B)[Bound(Len(cs))].funded
<1> DEFINE V == Voted(E, S)
           R == Readable(E, S)
           P == Listing(E, V)
           D == Listing(E, R)
           T == Listing(E, S)
           np == Len(P)
           k == np + Len(D)
           n == np + Len(T)
           e == GuestPlace(np, SubPlace(Len(E), R, S), k)
           F == P \o D
           A == P \o T
           y == OneBlockRuns(cs, F, B)
           x == TranscriptRuns(cs, P, T, B)
<1>1. E \in Seq(EntryRecords) /\ Len(E) \in Nat /\ DOMAIN E = 1 .. Len(E) /\ cs \in Seq(Nat \ {0}) /\ Len(cs) \in Nat
  BY DEF IsRoster
<1>2. V \in SUBSET (1 .. Len(E)) /\ R \in SUBSET (1 .. Len(E)) /\ S \in SUBSET (1 .. Len(E))
  BY <1>1 DEF Voted, Readable
<1>3. /\ Thinned(k, n, e, RanksOf(F), RanksOf(A))
      /\ \A j \in 1 .. k : e[j] \in 1 .. n /\ F[j] = A[e[j]]
  BY GuestIsThinned
<1> HIDE DEF V, R, e
<1>4. P \in Seq(EntryRecords) /\ D \in Seq(EntryRecords) /\ T \in Seq(EntryRecords)
  <2>1. Listed(E, V) /\ Listed(E, R) /\ Listed(E, S)
    BY <1>1, <1>2, ListingHolds
  <2> QED BY <2>1 DEF Listed
<1> HIDE DEF P, D, T
<1>5. F \in Seq(EntryRecords) /\ A \in Seq(EntryRecords) /\ Len(F) = k /\ Len(A) = n
      /\ np \in Nat /\ k \in Nat /\ n \in Nat /\ DOMAIN P = 1 .. np /\ np <= n
  BY <1>4
<1>6. /\ x[0] = NewRun(A)
      /\ \A i \in 1 .. Bound(Len(cs)) : x[i] = TranscriptStep(x[i - 1], RanksOf(A), DOMAIN P, cs, B)
  BY <1>1, TranscriptUnfold
<1>7. /\ y[0] = NewRun(F)
      /\ \A i \in 1 .. Bound(Len(cs)) : y[i] = OneBlockStep(y[i - 1], RanksOf(F), cs, B)
  BY <1>1, OneBlockUnfold
<1> HIDE DEF x, y, F, A, k, n, np
<1>8. /\ NewRun(F).weights \in [1 .. k -> Nat] /\ \A i \in 1 .. k : NewRun(F).weights[i] = F[i].weight
      /\ NewRun(A).weights \in [1 .. n -> Nat] /\ \A i \in 1 .. n : NewRun(A).weights[i] = A[i].weight
  BY <1>5, WeightIsTotal
<1>9. PICK u, v : u = NewRun(F) /\ v = NewRun(A)
  OBVIOUS
<1>10. /\ IsPortRun(u) /\ u.funded = << >> /\ u.spent = 0 /\ u.level = 1 /\ ~u.done
       /\ IsPortRun(v) /\ v.funded = << >> /\ v.spent = 0 /\ v.level = 1 /\ ~v.done
  BY <1>9, FreshRun
<1>11. Alike(k, n, e, u, v)
  <2>1. u.weights \in [1 .. k -> Nat] /\ v.weights \in [1 .. n -> Nat]
    BY <1>8, <1>9
  <2>2. \A j \in 1 .. k : u.weights[j] = v.weights[e[j]]
    BY <1>3, <1>8, <1>9
  <2> QED BY <1>10, <2>1, <2>2 DEF Alike
<1>12. 1 .. np \subseteq 1 .. n
  BY <1>5
<1>13. RunTogether(k, n, e, RanksOf(F), RanksOf(A), DOMAIN P, cs, B, y, x)
  <2> DEFINE few == RanksOf(F)
             all == RanksOf(A)
  <2>1. x[0] = v /\ y[0] = u
    BY <1>6, <1>7, <1>9
  <2>2. \A i \in 1 .. Bound(Len(cs)) : /\ x[i] = TranscriptStep(x[i - 1], all, DOMAIN P, cs, B)
                                       /\ y[i] = OneBlockStep(y[i - 1], few, cs, B)
    BY <1>6, <1>7
  <2>3. Thinned(k, n, e, few, all) /\ DOMAIN P \subseteq 1 .. n
    BY <1>3, <1>5, <1>12
  <2> HIDE DEF few, all
  <2>4. RunTogether(k, n, e, few, all, DOMAIN P, cs, B, y, x)
    BY <1>1, <1>10, <1>11, <2>1, <2>2, <2>3 DEF RunTogether
  <2> QED BY <2>4 DEF few, all
<1>14. y[Bound(Len(cs))].funded = x[Bound(Len(cs))].funded
  BY <1>13, FewEnd
<1> QED BY <1>14 DEF x, y, F, A, P, D, T, V, R

LEMMA GuestFunds ==
  ASSUME NEW E, NEW cs, NEW B, IsRoster(E, cs, B), Len(cs) <= 31, NEW S, S \subseteq DOMAIN E
  PROVE  GuestRun(cs, Records(E, S), B, B + 1).funded
           = TranscriptRuns(cs, Listing(E, Voted(E, S)), Listing(E, S), B)[Bound(Len(cs))].funded
<1> DEFINE V == Voted(E, S)
           R == Readable(E, S)
           F == Listing(E, V) \o Listing(E, R)
           r == Records(E, S)
           w == WeightOf(F)
<1>1. Len(cs) # 0 /\ ~(Len(cs) > 31) /\ B \in Nat
  BY DEF IsRoster
<1>2. V \subseteq DOMAIN E /\ R \subseteq DOMAIN E /\ V \cap R = {}
  BY DEF Voted, Readable
<1>3. GuestEntries(Len(cs), r) = F
  BY GuestReads DEF GuestEntries
<1>4. OneBlockRuns(cs, F, B)[Bound(Len(cs))].funded
        = TranscriptRuns(cs, Listing(E, V), Listing(E, S), B)[Bound(Len(cs))].funded
  BY GuestRuns
<1> HIDE DEF V, R
<1>5. w <= B /\ w \in Nat /\ AllValid(F, Len(cs))
  BY <1>2, ListsCount
<1> HIDE DEF F, r
<1>6. w = SumOver(NewRun(F).weights, DOMAIN F)
  BY DEF WeightOf
<1> HIDE DEF w
<1>7. ~(w > B) /\ ~(w + (B - w) >= B + 1) /\ w + (B - w) = B
  BY <1>1, <1>5
<1>8. GuestRun(cs, r, B, B + 1) = TallyRs(cs, F, B - w, B + 1)
  BY <1>1, <1>3, <1>6, <1>7 DEF GuestRun
<1>9. TallyRs(cs, F, B - w, B + 1) = Pbear(cs, F, B - w)
  BY <1>6, <1>7 DEF TallyRs
<1>10. Pbear(cs, F, B - w) = OneBlockRuns(cs, F, B)[Bound(Len(cs))]
  BY <1>5, <1>6, <1>7 DEF Pbear
<1> QED BY <1>4, <1>8, <1>9, <1>10 DEF V, r

LEMMA BackendsDone ==
  ASSUME TallyInv, StakeInv
  PROVE  BackendsAgree
<1> SUFFICES ASSUME tallyDone, Len(costs) <= 31, NEW sealers \in Sealings
             PROVE  LET report == Report(sealers)
                        proved == ProofChain(sealers, report.transcript)
                    IN  /\ GuestRun(costs, VoterRecords(sealers), budget, budget + 1).funded = report.funded
                        /\ proved.done /\ ~proved.broken /\ proved.funded = report.funded
  BY DEF BackendsAgree
<1> DEFINE P == PublicBlock(sealers)
           T == SealedBlock(sealers)
<1>1. tallyStarted
  BY DEF TallyInv, EngineInv
<1>2. IsCount(P, T, costs, budget)
  BY <1>1, RoundCounts
<1>3. StandFacts(P, T, costs, budget)
  BY <1>2, CountStands
<1>4. PbearTranscript(costs, P, T, budget) = TranscriptRuns(costs, P, T, budget)[Bound(Len(costs))]
  BY <1>2, Counts DEF CountFacts
<1>5. /\ P = Listing(Entries, Voted(Entries, sealers)) /\ T = Listing(Entries, sealers)
      /\ sealers \subseteq DOMAIN Entries
  BY BlocksAreLists
<1> HIDE DEF P, T
<1>6. VoterRecords(sealers) = Records(Entries, sealers)
  BY DEF VoterRecords, Records
<1>7. GuestRun(costs, VoterRecords(sealers), budget, budget + 1).funded
        = TranscriptRuns(costs, P, T, budget)[Bound(Len(costs))].funded
  <2>1. IsRoster(Entries, costs, budget)
    BY <1>1, RosterCounts
  <2> QED BY <1>5, <1>6, <2>1, GuestFunds
<1>8. Report(sealers) = PbearTranscript(costs, P, T, budget)
  BY DEF Report, P, T
<1>9. ProofChain(sealers, Report(sealers).transcript)
        = TallyChain(Ingested(Len(costs), budget, T), costs, Report(sealers).transcript)[Bound(Len(costs))]
  BY DEF ProofChain, Start, T
<1> QED BY <1>3, <1>4, <1>7, <1>8, <1>9 DEF StandFacts

-----------------------------------------------------------------------------
(* Forged reports.                                                         *)

\* A true transcript is taken as far as it is kept.
LEMMA PartProves ==
  ASSUME NEW n, NEW np, NEW S, NEW all, NEW cs, NEW B, NEW x, NEW t,
         HasSealed(n, np, S, all, cs, B, x, t), NEW u, Begins(u, t), NEW r, Proven(np, S, cs, B, r[0], x[0]),
         \A i \in 1 .. Len(u) : r[i] = TallyStep(r[i - 1], cs, u[i])
  PROVE  Proven(np, S, cs, B, r[Len(u)], x[Len(u)])
<1> DEFINE l == Len(u)
           G == {k \in Nat : k <= l => Proven(np, S, cs, B, r[k], x[k])}
<1>1. l \in Nat /\ l <= Len(t) /\ Len(t) \in Nat /\ \A k \in 1 .. l : u[k] = t[k]
  BY DEF Begins, HasSealed, Course
<1> HIDE DEF l
<1>2. 0 \in G
  OBVIOUS
<1>3. ASSUME NEW k \in G PROVE k + 1 \in G
  <2> SUFFICES ASSUME k + 1 <= l PROVE Proven(np, S, cs, B, r[k + 1], x[k + 1])
    OBVIOUS
  <2>1. k + 1 \in 1 .. l /\ k + 1 \in 1 .. Len(t) /\ k <= l /\ (k + 1) - 1 = k
    BY <1>1
  <2>2. PICK d \in 1 .. Len(t) : d = k + 1
    BY <2>1
  <2>3. PICK s : s = r[k]
    OBVIOUS
  <2>4. Proven(np, S, cs, B, s, x[d - 1])
    <3>1. Proven(np, S, cs, B, r[k], x[k])
      BY <2>1
    <3> QED BY <2>1, <2>2, <2>3, <3>1
  <2>5. Proven(np, S, cs, B, TallyStep(s, cs, t[d]), x[d])
    BY <2>4, ProofFollows
  <2>6. r[k + 1] = TallyStep(s, cs, t[d])
    <3>1. r[d] = TallyStep(r[d - 1], cs, u[d])
      BY <2>1, <2>2 DEF l
    <3> QED BY <1>1, <2>1, <2>2, <2>3, <3>1
  <2> QED BY <2>2, <2>5, <2>6
<1>4. G = Nat
  <2> HIDE DEF G
  <2>1. G \in SUBSET Nat
    BY DEF G
  <2> QED BY <1>2, <1>3, <2>1, InductionOnSets
<1> QED BY <1>1, <1>4 DEF l

\* While there are steps left the proofs are not done.
LEMMA PartIsNotDone ==
  ASSUME NEW n, NEW np, NEW S, NEW all, NEW cs, NEW B, NEW x, NEW t,
         HasSealed(n, np, S, all, cs, B, x, t), NEW h \in 0 .. Len(t), h < Len(t),
         NEW s, Proven(np, S, cs, B, s, x[h])
  PROVE  ~s.done
<1>1. Len(t) \in Nat /\ \A k \in 0 .. Len(t) : k # Len(t) => ~x[k].done /\ ~Exhausted(x[k], cs, B)
  BY CourseGoesOn
<1>2. ~x[h].done /\ ~Exhausted(x[h], cs, B)
  BY <1>1
<1> QED BY <1>2 DEF Proven

\* A step that the audit passes has the public support that was written.
LEMMA PassedSaysSupport ==
  ASSUME NEW np, NEW n, NEW front, NEW all, IsFront(np, n, front, all), NEW cs \in Seq(Nat \ {0}), NEW B,
         NEW x, RunOK(n, cs, B, x), ~x.done, NEW a, Audited(np, a, x),
         NEW step, ReplayStep(a, step, front, cs, B).ok
  PROVE  step.pub = SupportOf(x, all, 1 .. np, cs)
<1> SUFFICES ASSUME step.pub # SupportOf(x, all, 1 .. np, cs) PROVE FALSE
  OBVIOUS
<1>1. SupportOf(a, front, DOMAIN front, cs) = SupportOf(x, all, 1 .. np, cs)
  BY AuditSees
<1>2. step.pub # SupportOf(a, front, DOMAIN front, cs)
  BY <1>1
<1> DEFINE no == FALSE
           z == [a EXCEPT !.ok = no]
<1>3. ReplayStep(a, step, front, cs, B) = z
  BY <1>2, Zenon DEF ReplayStep, AuditStep, AuditReads
<1>4. IsPortRun(a)
  BY DEF Audited
<1> HIDE DEF no
<1>5. z.ok = no
  BY <1>4 DEF IsPortRun
<1> HIDE DEF z
<1>6. ~z.ok
  BY <1>5 DEF no
<1> QED BY <1>3, <1>6

\* A step that the proofs accept as well says what was written.
LEMMA ProofAccepts ==
  ASSUME NEW np, NEW n, NEW S, NEW all, NEW cs, NEW B, NEW s, NEW x,
         Judges(np, n, S, all, cs, B, s, x), NEW step, step.pub = SupportOf(x, all, 1 .. np, cs),
         ~TallyStep(s, cs, step).broken
  PROVE  SaysTrue(step, x, all, cs)
<1> SUFFICES ASSUME ~SaysTrue(step, x, all, cs) PROVE FALSE
  OBVIOUS
<1> DEFINE yes == TRUE
           z == [s EXCEPT !.broken = yes]
<1>1. TallyStep(s, cs, step) = Verdict(np, S, all, cs, B, s, x, step)
  BY ProofReads
<1>2. Verdict(np, S, all, cs, B, s, x, step) = z
  BY Zenon DEF Verdict
<1>3. IsNoirState(s)
  BY DEF Judges
<1> HIDE DEF yes
<1>4. z.broken = yes
  BY <1>3 DEF IsNoirState
<1> HIDE DEF z
<1>5. z.broken
  BY <1>4 DEF yes
<1> QED BY <1>1, <1>2, <1>5

\* Two steps that say the same.
SaysTheSame(step, r) ==
  step.level = r.level /\ step.pub = r.pub /\ step.best = r.best /\ step.total = r.total

\* What passes the audit and the proofs is the step that was written.
LEMMA OnlyTheTruth ==
  ASSUME NEW n, NEW np, NEW P, NEW S, NEW all, NEW cs, NEW B, NEW x, NEW t,
         HasPublic(n, np, P, all, cs, B, x, t), HasSealed(n, np, S, all, cs, B, x, t),
         NEW h \in 0 .. Len(t), NEW s, Proven(np, S, cs, B, s, x[h]), NEW a, Audited(np, a, x[h]),
         NEW step, ~TallyStep(s, cs, step).broken, Len(TallyStep(s, cs, step).tHash) = h + 1,
         ReplayStep(a, step, RanksOf(P), cs, B).ok
  PROVE  h < Len(t) /\ SaysTheSame(step, t[h + 1])
<1>0. cs \in Seq(Nat \ {0}) /\ Len(cs) \in Nat /\ Len(t) \in Nat /\ h \in Nat /\ h <= Len(t)
  BY CourseGoesOn DEF HasPublic
<1>1. h < Len(t)
  <2> SUFFICES ASSUME h = Len(t) PROVE FALSE
    BY <1>0
  <2>1. x[h].done \/ Exhausted(x[h], cs, B)
    BY CourseGoesOn
  <2>2. TallyStep(s, cs, step).tHash = s.tHash
    <3>1. PICK y : y = x[h]
      OBVIOUS
    <3>2. Proven(np, S, cs, B, s, y) /\ (y.done \/ Exhausted(y, cs, B))
      BY <2>1, <3>1
    <3> QED BY <3>2, ProofStays
  <2>3. s.tHash = x[h].transcript /\ Len(x[h].transcript) = h
    BY CourseWrites DEF Proven
  <2>4. Len(TallyStep(s, cs, step).tHash) = h
    BY <2>2, <2>3
  <2> QED BY <1>0, <2>4
<1>2. PICK k \in 1 .. Len(t) : k = h + 1 /\ k - 1 = h
  <2>1. h + 1 \in 1 .. Len(t) /\ (h + 1) - 1 = h
    BY <1>0, <1>1
  <2> QED BY <2>1
<1>3. PICK y : y = x[h]
  OBVIOUS
<1>4. /\ IsRound(n, y, all, cs, B) /\ RunOK(n, cs, B, y) /\ ~Exhausted(y, cs, B)
      /\ t[k] = Written(y, all, 1 .. np, cs)
  <2>1. /\ IsRound(n, x[k - 1], all, cs, B) /\ RunOK(n, cs, B, x[k - 1]) /\ ~Exhausted(x[k - 1], cs, B)
        /\ t[k] = Written(x[k - 1], all, 1 .. np, cs)
    BY DEF HasPublic, Course
  <2> QED BY <1>2, <1>3, <2>1
<1>5. ~y.done /\ Proven(np, S, cs, B, s, y) /\ Audited(np, a, y)
  BY <1>3, <1>4 DEF IsRound
<1>6. IsFront(np, n, RanksOf(P), all) /\ IsBack(np, n, S, all)
  BY DEF HasPublic, HasSealed
<1>7. step.pub = SupportOf(y, all, 1 .. np, cs)
  <2>1. PICK front : front = RanksOf(P)
    OBVIOUS
  <2>2. IsFront(np, n, front, all) /\ ReplayStep(a, step, front, cs, B).ok
    BY <1>6, <2>1
  <2> QED BY <1>0, <1>4, <1>5, <2>2, PassedSaysSupport
<1>8. Judges(np, n, S, all, cs, B, s, y)
  BY <1>4, <1>5, <1>6, ProofJudges
<1>9. SaysTrue(step, y, all, cs)
  BY <1>7, <1>8, ProofAccepts
<1>10. SaysTheSame(step, t[k])
  BY <1>4, <1>7, <1>9 DEF SaysTrue, Written, SaysTheSame
<1> QED BY <1>1, <1>2, <1>10

-----------------------------------------------------------------------------
\* The loop over the steps that a forger kept.
LEMMA ProofsUnfold ==
  ASSUME NEW sealers, NEW steps, Len(steps) \in Nat
  PROVE  /\ ProofsOf(sealers, steps)[0] = Start(sealers)
         /\ \A i \in 1 .. Len(steps) : ProofsOf(sealers, steps)[i] = TallyStep(ProofsOf(sealers, steps)[i - 1], costs, steps[i])
<1> DEFINE n == Len(steps)
           After(x, i) == TallyStep(x, costs, steps[i])
           IsLoop(p, k) == p = [i \in 0 .. k |-> IF i = 0 THEN Start(sealers) ELSE After(p[i - 1], i)]
           G == {k \in Nat : \E p : IsLoop(p, k)}
<1>0. n \in Nat
  OBVIOUS
<1> HIDE DEF After
<1>1. 0 \in G
  <2> DEFINE p == [i \in 0 .. 0 |-> Start(sealers)]
  <2>1. IsLoop(p, 0)
    OBVIOUS
  <2> HIDE DEF IsLoop
  <2> QED BY <2>1
<1>2. ASSUME NEW k \in G PROVE k + 1 \in G
  <2>1. PICK p : IsLoop(p, k)
    OBVIOUS
  <2> DEFINE q == [i \in 0 .. (k + 1) |-> IF i = k + 1 THEN After(p[k], k + 1) ELSE p[i]]
  <2>2. \A i \in 0 .. (k + 1) : q[i] = IF i = 0 THEN Start(sealers) ELSE After(q[i - 1], i)
    <3> TAKE i \in 0 .. (k + 1)
    <3>1. CASE i = k + 1
      <4>1. q[i] = After(p[k], k + 1) /\ q[i - 1] = p[k] /\ i # 0
        BY <3>1
      <4> HIDE DEF q
      <4> QED BY <3>1, <4>1
    <3>2. CASE i # k + 1
      <4>1. i \in 0 .. k /\ q[i] = p[i] /\ (i # 0 => q[i - 1] = p[i - 1])
        BY <3>2
      <4>2. p[i] = IF i = 0 THEN Start(sealers) ELSE After(p[i - 1], i)
        BY <4>1, <2>1
      <4> HIDE DEF q
      <4> QED BY <4>1, <4>2
    <3> QED BY <3>1, <3>2
  <2>3. IsLoop(q, k + 1)
    <3>1. q = [i \in 0 .. (k + 1) |-> q[i]]
      OBVIOUS
    <3> HIDE DEF q
    <3> QED BY <2>2, <3>1
  <2> HIDE DEF q, IsLoop
  <2> QED BY <2>3
<1>3. \E p : IsLoop(p, n)
  <2>1. G = Nat
    <3> HIDE DEF G
    <3> G \in SUBSET Nat
      BY DEF G
    <3> QED BY <1>1, <1>2, InductionOnSets
  <2> HIDE DEF IsLoop
  <2> QED BY <1>0, <2>1
<1> DEFINE loop == CHOOSE p : IsLoop(p, n)
<1>4. IsLoop(loop, n)
  <2> HIDE DEF IsLoop
  <2> QED BY <1>3
<1>5. ProofsOf(sealers, steps) = loop
  BY Zenon DEF ProofsOf, After
<1> HIDE DEF loop
<1>6. loop[0] = Start(sealers) /\ \A i \in 1 .. n : loop[i] = After(loop[i - 1], i)
  BY <1>0, <1>4
<1> QED BY <1>5, <1>6 DEF After


\* What is kept of a true transcript begins like it.
LEMMA PrefixBegins ==
  ASSUME NEW T, NEW t \in Seq(T), NEW h \in 0 .. Len(t)
  PROVE  Begins(SubSeq(t, 1, h), t) /\ Len(SubSeq(t, 1, h)) = h
<1>1. Len(t) \in Nat /\ h \in Nat /\ h <= Len(t)
  OBVIOUS
<1>2. Len(SubSeq(t, 1, h)) = h /\ \A k \in 1 .. h : SubSeq(t, 1, h)[k] = t[k]
  BY <1>1
<1> QED BY <1>1, <1>2 DEF Begins

LEMMA ForgedDone ==
  ASSUME TallyInv, StakeInv
  PROVE  ForgedReportFalls
<1> SUFFICES ASSUME tallyDone, NEW sealers \in Sealings, NEW h \in 0 .. Len(Report(sealers).transcript)
             PROVE  LET t == Report(sealers).transcript
                        pub == PublicBlock(sealers)
                        ranks == RanksOf(pub)
                        prefix == SubSeq(t, 1, h)
                        proved == ProofsOf(sealers, prefix)[h]
                        audited == ReplayRun(costs, pub, prefix, budget)
                        support == SupportOf(audited, ranks, DOMAIN ranks, costs)
                    IN  /\ h < Len(t) => ~(proved.done /\ ReplayPublic(costs, pub, prefix, budget))
                        /\ \A claim \in Claims :
                             AuditReads(audited, claim.level, claim.pub, support, costs, budget) =>
                               \A choice \in Choices :
                                 LET step == [level |-> claim.level, pub |-> claim.pub,
                                              best |-> choice.best, total |-> choice.total]
                                     next == TallyStep(proved, costs, step)
                                 IN  /\ AuditStep(audited, step, support, ranks, costs, budget).ok
                                     /\ ~next.broken /\ Len(next.tHash) = h + 1
                                     => h < Len(t) /\ step = t[h + 1]
  BY Zenon DEF ForgedReportFalls
<1> DEFINE P   == PublicBlock(sealers)
           S   == SealedBlock(sealers)
           np  == Len(P)
           n   == Len(P) + Len(S)
           all == RanksOf(P \o S)
           x   == TranscriptRuns(costs, P, S, budget)
           t   == Report(sealers).transcript
           u   == SubSeq(t, 1, h)
           proved  == ProofsOf(sealers, u)[h]
           audited == ReplayRun(costs, P, u, budget)
<1>1. tallyStarted
  BY DEF TallyInv, EngineInv
<1>2. IsCount(P, S, costs, budget)
  BY <1>1, RoundCounts
<1>3. CountFacts(P, S, costs, budget)
  <2> HIDE DEF P, S
  <2> QED BY <1>2, Counts
<1>4. t = x[Bound(Len(costs))].transcript
  BY <1>3 DEF CountFacts, Report
<1>5. /\ HasPublic(n, np, P, all, costs, budget, x, t) /\ HasSealed(n, np, S, all, costs, budget, x, t)
      /\ StartsSealed(np, S, costs, x[0].weights, x[0])
  <2> HIDE DEF P, S, t
  <2> QED BY <1>3, <1>4 DEF CountFacts
<1> HIDE DEF P, S, x, all, n, np
<1>6. t \in Seq(StepRecords(Len(costs))) /\ h \in 0 .. Len(t)
  BY <1>5 DEF HasPublic, Course
<1> HIDE DEF t
<1>7. Begins(u, t) /\ Len(u) = h
  BY <1>6, PrefixBegins
<1> HIDE DEF u
<1>8. h \in Nat
  BY <1>6
<1>9. Proven(np, S, costs, budget, proved, x[h])
  <2> DEFINE r == ProofsOf(sealers, u)
  <2>1. /\ r[0] = Start(sealers)
        /\ \A i \in 1 .. Len(u) : r[i] = TallyStep(r[i - 1], costs, u[i])
    BY <1>7, <1>8, ProofsUnfold
  <2> HIDE DEF r
  <2>2. Proven(np, S, costs, budget, r[0], x[0])
    <3>1. Start(sealers) = Ingested(Len(costs), budget, S)
      BY DEF Start, S
    <3>2. Proven(np, S, costs, budget, Ingested(Len(costs), budget, S), x[0])
      BY <1>5, ProofStarts
    <3> QED BY <2>1, <3>1, <3>2
  <2>3. Proven(np, S, costs, budget, r[Len(u)], x[Len(u)])
    BY <1>5, <1>7, <2>1, <2>2, PartProves
  <2> QED BY <1>7, <2>3 DEF r
<1>10. Audited(np, audited, x[h])
  <2>1. \A k \in 0 .. Len(u) : Audited(np, ReplayRuns(costs, P, u, budget)[k], x[k])
    BY <1>5, <1>7, AuditFollows
  <2> QED BY <1>7, <1>8, <2>1 DEF ReplayRun
<1> HIDE DEF proved, audited
<1>11. h < Len(t) => ~proved.done
  BY <1>5, <1>6, <1>9, PartIsNotDone
<1>12. ASSUME NEW claim \in Claims, NEW choice \in Choices, NEW step,
              step = [level |-> claim.level, pub |-> claim.pub,
                      best |-> choice.best, total |-> choice.total],
              ~TallyStep(proved, costs, step).broken, Len(TallyStep(proved, costs, step).tHash) = h + 1,
              ReplayStep(audited, step, RanksOf(P), costs, budget).ok
       PROVE  h < Len(t) /\ step = t[h + 1]
  <2>1. h < Len(t) /\ SaysTheSame(step, t[h + 1])
    BY <1>5, <1>6, <1>9, <1>10, <1>12, OnlyTheTruth
  <2>2. h + 1 \in 1 .. Len(t)
    BY <1>6, <2>1
  <2>3. PICK r \in StepRecords(Len(costs)) : r = t[h + 1]
    BY <1>6, <2>2
  <2>4. r = [level |-> r.level, pub |-> r.pub, best |-> r.best, total |-> r.total]
    BY DEF StepRecords
  <2>6. step = [level |-> step.level, pub |-> step.pub, best |-> step.best, total |-> step.total]
    BY <1>12
  <2>7. step = r
    BY <2>1, <2>3, <2>4, <2>6 DEF SaysTheSame
  <2> QED BY <2>1, <2>3, <2>7
<1> QED BY <1>11, <1>12 DEF t, P, u, proved, audited, ReplayStep

\* In every round and whoever sealed, the report that shared/pbear.ts writes
\* passes the public audit, and the Noir proofs take each of its steps and end
\* in the hash of the whole transcript.
THEOREM HonestAlways == TallySpec => []HonestReportStands
<1>1. TallyInit => StakeInv
  BY DEF TallyInit, StakeInv
<1>2. TallyInv /\ StakeInv /\ [TallyNext]_tallySpecVars => StakeInv'
  BY StakeStays
<1>3. TallyInv /\ StakeInv => HonestReportStands
  BY HonestDone
<1> QED BY <1>1, <1>2, <1>3, TallyInvariant, PTL DEF TallySpec

\* In every round and whoever sealed, the ZisK guest, shared/pbear.ts and the
\* Noir proofs fund the same projects in the same order.
THEOREM BackendsAlways == TallySpec => []BackendsAgree
<1>1. TallyInit => StakeInv
  BY DEF TallyInit, StakeInv
<1>2. TallyInv /\ StakeInv /\ [TallyNext]_tallySpecVars => StakeInv'
  BY StakeStays
<1>3. TallyInv /\ StakeInv => BackendsAgree
  BY BackendsDone
<1> QED BY <1>1, <1>2, <1>3, TallyInvariant, PTL DEF TallySpec

\* In every round and whoever sealed, after any part of the true transcript no
\* step of whatever level, supports, project and total passes both the audit and
\* the proofs but the true next one, and neither does an early end.
THEOREM ForgedAlways == TallySpec => []ForgedReportFalls
<1>1. TallyInit => StakeInv
  BY DEF TallyInit, StakeInv
<1>2. TallyInv /\ StakeInv /\ [TallyNext]_tallySpecVars => StakeInv'
  BY StakeStays
<1>3. TallyInv /\ StakeInv => ForgedReportFalls
  BY ForgedDone
<1> QED BY <1>1, <1>2, <1>3, TallyInvariant, PTL DEF TallySpec
=============================================================================
