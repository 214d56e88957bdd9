---------------------------- MODULE LiquidityProofs ----------------------------
(***************************************************************************)
(* Sponsored liquidity, for any number of owners, positions, campaigns,    *)
(* prices and moments: what an owner accrues is what its positions were    *)
(* worth, and what the campaigns allocate is covered by what was paid in.  *)
(*                                                                         *)
(* Neither is inductive.  Accrual follows the positions' worth only as     *)
(* long as the ledger's copy of a subscribed position agrees with the      *)
(* market and a stopped one earns nothing (CopiesAgree), and a total is    *)
(* the sum over the accounts only as long as each owner has one account    *)
(* (AccountsOK).  A campaign never promises too much because nothing       *)
(* accrues any more once its first share was credited (CursorsOK).         *)
(***************************************************************************)
EXTENDS LPCreRankedShares, PrefixSumProofs, SequenceTheorems

Distinct(s) == \A i, j \in DOMAIN s : s[i] = s[j] => i = j

Contains(s, v) == \E i \in DOMAIN s : s[i] = v

-----------------------------------------------------------------------------
(* Totals.                                                                 *)

\* y is x on I and z is x elsewhere.
Parts(x, y, z, n, I) ==
  \A i \in 1 .. n : /\ y[i] = IF i \in I THEN x[i] ELSE 0
                    /\ z[i] = IF i \in I THEN 0 ELSE x[i]

\* Splitting a total by a set of indices.
LEMMA SumSplits ==
  ASSUME NEW n \in Nat, NEW x \in [1 .. n -> Int], NEW I,
         NEW y \in [1 .. n -> Int], NEW z \in [1 .. n -> Int], Parts(x, y, z, n, I)
  PROVE  Sum(x, n) = Sum(y, n) + Sum(z, n)
<1>1. ASSUME NEW i \in 1 .. n PROVE x[i] = y[i] + z[i]
  <2>1. x[i] \in Int /\ y[i] = (IF i \in I THEN x[i] ELSE 0) /\ z[i] = (IF i \in I THEN 0 ELSE x[i])
    BY DEF Parts
  <2>2. CASE i \in I
    BY ONLY <2>1, <2>2
  <2>3. CASE i \notin I
    BY ONLY <2>1, <2>3
  <2> QED BY <2>2, <2>3
<1> QED BY <1>1, SumOfSums

LEMMA SumInt ==
  ASSUME NEW n \in Nat, NEW f \in [1 .. n -> Int]
  PROVE  Sum(f, n) \in Int
<1> n \in 0 .. n
  OBVIOUS
<1> QED BY PrefixSumUnfold DEF Sum

\* What is counted per owner, added up over the list of owners.
PerOwner(x, o, n, v) == [i \in 1 .. n |-> IF o[i] = v THEN x[i] ELSE 0]

OwnersListed(o, n, a) == \A i \in 1 .. n : Contains(a, o[i])

LEMMA SumPerOwner ==
  ASSUME NEW n \in Nat, NEW x \in [1 .. n -> Nat], NEW o \in [1 .. n -> Provider],
         NEW m \in Nat, NEW a \in [1 .. m -> Provider], Distinct(a), OwnersListed(o, n, a)
  PROVE  Sum([j \in 1 .. m |-> Sum(PerOwner(x, o, n, a[j]), n)], m) = Sum(x, n)
<1> DEFINE P(v) == PrefixSum(PerOwner(x, o, n, v), n)
           T(k) == [j \in 1 .. m |-> P(a[j])[k]]
           X == PrefixSum(x, n)
           G == {k \in Nat : k <= n => Sum(T(k), m) = X[k]}
<1>1. \A v \in Provider : /\ PerOwner(x, o, n, v) \in [1 .. n -> Nat]
                   /\ PerOwner(x, o, n, v) \in [1 .. n -> Int]
  BY DEF PerOwner
<1>2. \A v \in Provider : /\ P(v) \in [0 .. n -> Nat] /\ P(v)[0] = 0
                   /\ \A i \in 1 .. n : P(v)[i] = P(v)[i - 1] + PerOwner(x, o, n, v)[i]
  <2> TAKE v \in Provider
  <2> QED BY <1>1, PrefixSumUnfold, PrefixSumNat
<1>3. /\ x \in [1 .. n -> Int] /\ X \in [0 .. n -> Nat] /\ X[0] = 0
      /\ \A i \in 1 .. n : X[i] = X[i - 1] + x[i]
  <2>1. x \in [1 .. n -> Int]
    OBVIOUS
  <2> QED BY <2>1, PrefixSumUnfold, PrefixSumNat
<1> HIDE DEF P, X
<1>4. \A k \in 0 .. n : T(k) \in [1 .. m -> Int]
  BY <1>2
<1>5. 0 \in G
  <2>1. 0 \in 0 .. n
    OBVIOUS
  <2>2. T(0) \in [1 .. m -> Int] /\ \A j \in 1 .. m : T(0)[j] = 0
    BY <1>2, <1>4, <2>1
  <2> HIDE DEF T
  <2>3. Sum(T(0), m) = 0
    BY <2>2, SumOfZeros
  <2> QED BY <1>3, <2>3
<1>6. ASSUME NEW k \in G, k < n PROVE k + 1 \in G
  <2>1. k \in 0 .. n /\ k + 1 \in 1 .. n /\ k + 1 \in 0 .. n /\ (k + 1) - 1 = k
    BY <1>6
  <2>2. PICK i \in 1 .. m : a[i] = o[k + 1]
    BY <2>1 DEF OwnersListed, Contains
  <2>3. \A j \in 1 .. m : P(a[j])[k + 1] = P(a[j])[k] + (IF o[k + 1] = a[j] THEN x[k + 1] ELSE 0)
    BY <1>2, <2>1 DEF PerOwner
  <2>4. /\ T(k) \in [1 .. m -> Int] /\ T(k + 1) \in [1 .. m -> Int]
        /\ \A j \in 1 .. m : j # i => T(k + 1)[j] = T(k)[j]
        /\ T(k + 1)[i] = T(k)[i] + x[k + 1]
    <3>1. T(k) \in [1 .. m -> Int] /\ T(k + 1) \in [1 .. m -> Int]
      BY <1>4, <2>1
    <3>2. \A j \in 1 .. m : j # i => a[j] # o[k + 1]
      BY <2>2 DEF Distinct
    <3>3. \A j \in 1 .. m : P(a[j])[k] \in Int
      BY <1>2, <2>1
    <3>4. ASSUME NEW j \in 1 .. m, j # i PROVE T(k + 1)[j] = T(k)[j]
      BY <2>3, <3>2, <3>3, <3>4
    <3>5. T(k + 1)[i] = T(k)[i] + x[k + 1]
      BY <2>2, <2>3
    <3> QED BY <3>1, <3>4, <3>5
  <2> HIDE DEF T
  <2>5. PICK s, t, d : s = T(k) /\ t = T(k + 1) /\ d = x[k + 1]
    OBVIOUS
  <2>6. Sum(t, m) = Sum(s, m) + (t[i] - s[i])
    BY <2>4, <2>5, SumChanges
  <2>7. /\ s[i] \in Int /\ d \in Int /\ Sum(s, m) \in Int /\ t[i] = s[i] + d
    BY <2>1, <2>4, <2>5, SumInt
  <2>8. Sum(s, m) = X[k] /\ X[k + 1] = X[k] + d
    BY <1>3, <1>6, <2>1, <2>5
  <2>9. Sum(t, m) = X[k + 1]
    BY <2>6, <2>7, <2>8
  <2> QED BY <2>5, <2>9
<1>7. n \in G
  <2> HIDE DEF T
  <2>1. G \in SUBSET Nat
    OBVIOUS
  <2> HIDE DEF G
  <2>2. 0 .. n \subseteq G
    BY <1>5, <1>6, <2>1, InductionUpTo
  <2> QED BY <2>2
<1> QED BY <1>7 DEF P, X, Sum

-----------------------------------------------------------------------------
(* The induction hypothesis.                                               *)

Places ==
  [token: Position, owner: Provider, liquidity: Liquidities \cup {0}, settledAt: Nat,
   rate: Nat, active: BOOLEAN]

Campaigns ==
  [pool: LPPool, amount: Nat, minimumValue: MinimumValues, price: Prices, updatedAt: Nat,
   sourceBlock: Nat, totalAccrued: Nat, settleCursor: Nat, allocationCursor: Nat,
   allocated: Nat, finalized: BOOLEAN]

LPTypeOK ==
  /\ now \in Nat
  /\ campaigns \in Seq(Campaigns)
  /\ positions \in Seq(Seq(Places)) /\ Len(positions) = Len(campaigns)
  /\ accounts \in Seq(Seq(Provider)) /\ Len(accounts) = Len(campaigns)
  /\ accrued \in Seq([Provider -> Nat]) /\ Len(accrued) = Len(campaigns)
  /\ earned \in Seq([Provider -> Nat]) /\ Len(earned) = Len(campaigns)
  /\ activeCampaign \in [Position -> 0 .. Len(campaigns)]
  /\ liquidityOf \in [Position -> Liquidities]
  /\ ownerOf \in [Position -> Provider]
  /\ slot0 \in [LPPool -> Prices]

\* What the ledger keeps of a position is what the market has, until the deadline.
CopyAgrees(id, p) ==
  /\ p.active <=> activeCampaign[p.token] = id
  /\ p.active => /\ p.owner = ownerOf[p.token]
                 /\ p.liquidity \in Liquidities
                 /\ p.rate = Value(p.liquidity, campaigns[id].price)
                 /\ now < Deadline => p.liquidity = liquidityOf[p.token]
  /\ ~p.active => p.rate = 0
  /\ p.settledAt <= Until

OncePerToken(id) ==
  \A i, j \in 1 .. Len(positions[id]) : positions[id][i].token = positions[id][j].token => i = j

HasPlace(id, t) == \E i \in 1 .. Len(positions[id]) : positions[id][i].token = t

CopiesAgree ==
  /\ \A id \in 1 .. Len(campaigns) :
       /\ \A i \in 1 .. Len(positions[id]) : CopyAgrees(id, positions[id][i])
       /\ OncePerToken(id)
  /\ \A t \in Position : activeCampaign[t] # 0 => HasPlace(activeCampaign[t], t)

OwnersHaveAccounts(ps, as) == \A i \in 1 .. Len(ps) : Contains(as, ps[i].owner)

\* Every owner has one account, and nobody else accrues.
AccountsOK ==
  \A id \in 1 .. Len(campaigns) :
    /\ Distinct(accounts[id])
    /\ OwnersHaveAccounts(positions[id], accounts[id])
    /\ \A v \in Provider : accrued[id][v] # 0 => Contains(accounts[id], v)

\* The share of each account, as finalizeLP would compute it now.
Shares(id) ==
  [i \in 1 .. Len(accounts[id]) |->
     ShareOf(campaigns[id], accrued[id][accounts[id][i]], campaigns[id].totalAccrued)]

Settling(id) ==
  /\ campaigns[id].settleCursor <= Len(positions[id])
  /\ campaigns[id].allocationCursor <= Len(accounts[id])
  /\ campaigns[id].settleCursor > 0 \/ campaigns[id].allocationCursor > 0 => now >= Deadline
  /\ \A i \in 1 .. campaigns[id].settleCursor : positions[id][i].settledAt = Deadline
  /\ campaigns[id].allocationCursor > 0 => campaigns[id].settleCursor = Len(positions[id])

\* Before the first share is credited every position was settled for good, and
\* what is allocated is the shares of the accounts so far.
CursorsOK ==
  \A id \in 1 .. Len(campaigns) :
    /\ Settling(id)
    /\ campaigns[id].allocated =
         PrefixSum(Shares(id), Len(accounts[id]))[campaigns[id].allocationCursor]

PaidOut == [id \in 1 .. Len(campaigns) |-> campaigns[id].allocated]
PaidIn  == [id \in 1 .. Len(campaigns) |-> campaigns[id].amount]

CreditsOK ==
  /\ lpGranted = Sum(PaidOut, Len(campaigns))
  /\ lpBudget  = Sum(PaidIn, Len(campaigns))

LPReportsOK ==
  \A r \in reports :
    /\ r.kind = "price" => /\ r.id \in 1 .. Len(campaigns) /\ r.price \in Prices
                           /\ r.sourceBlock \in Nat
    /\ r.kind = "finalize" => r.id \in 1 .. Len(campaigns) /\ r.maxItems \in Nat

\* What the positions with indices in I are due until u, if v owns them.
Due(ps, u, I, v) ==
  [i \in 1 .. Len(ps) |->
     IF i \in I /\ ps[i].owner = v THEN ps[i].rate * (u - ps[i].settledAt) ELSE 0]

DueAll(ps, u, I) ==
  [i \in 1 .. Len(ps) |-> IF i \in I THEN ps[i].rate * (u - ps[i].settledAt) ELSE 0]

\* AccrualExact, campaign by campaign.
DueOf(id, v) ==
  Sum(Due(positions[id], Until, 1 .. Len(positions[id]), v), Len(positions[id]))

AccountsTotal(id) ==
  Sum([i \in 1 .. Len(accounts[id]) |-> accrued[id][accounts[id][i]]], Len(accounts[id]))

Exact(id) ==
  /\ \A v \in Provider : accrued[id][v] + DueOf(id, v) = earned[id][v]
  /\ campaigns[id].totalAccrued = AccountsTotal(id)

ExactEverywhere == \A id \in 1 .. Len(campaigns) : Exact(id)

LedgerInv == LPTypeOK /\ CopiesAgree /\ AccountsOK /\ ExactEverywhere /\ CursorsOK

LPInv == LedgerInv /\ CreditsOK /\ LPReportsOK

-----------------------------------------------------------------------------
(* What is pending.                                                        *)

LEMMA Typed ==
  ASSUME LPTypeOK
  PROVE  /\ Len(campaigns) \in Nat /\ DOMAIN campaigns = 1 .. Len(campaigns)
         /\ DOMAIN earned = 1 .. Len(campaigns)
         /\ \A id \in 1 .. Len(campaigns) :
              /\ campaigns[id] \in Campaigns
              /\ positions[id] \in Seq(Places) /\ accounts[id] \in Seq(Provider)
              /\ Len(positions[id]) \in Nat /\ DOMAIN positions[id] = 1 .. Len(positions[id])
              /\ Len(accounts[id]) \in Nat /\ DOMAIN accounts[id] = 1 .. Len(accounts[id])
              /\ \A i \in 1 .. Len(positions[id]) : positions[id][i] \in Places
              /\ \A i \in 1 .. Len(accounts[id]) : accounts[id][i] \in Provider
              /\ accrued[id] \in [Provider -> Nat] /\ earned[id] \in [Provider -> Nat]
BY DEF LPTypeOK

LEMMA UntilIs ==
  ASSUME now \in Nat
  PROVE  /\ Until \in Nat /\ Until <= Deadline /\ Until <= now
         /\ now >= Deadline => Until = Deadline
         /\ now < Deadline => Until = now
BY LPAssumption DEF Until

LEMMA PendingIsDue ==
  \A id, I, v : /\ PendingOf(id, I, v) = Sum(Due(positions[id], Until, I, v), Len(positions[id]))
                /\ PendingAll(id, I) = Sum(DueAll(positions[id], Until, I), Len(positions[id]))
BY DEF PendingOf, PendingAll, Pending, Due, DueAll

SettledBy(ps, u) == \A i \in 1 .. Len(ps) : ps[i].settledAt <= u

LEMMA DueNat ==
  ASSUME NEW ps \in Seq(Places), NEW u \in Nat, SettledBy(ps, u), NEW I, NEW v
  PROVE  /\ Due(ps, u, I, v) \in [1 .. Len(ps) -> Nat]
         /\ DueAll(ps, u, I) \in [1 .. Len(ps) -> Nat]
         /\ Due(ps, u, I, v) \in [1 .. Len(ps) -> Int]
         /\ DueAll(ps, u, I) \in [1 .. Len(ps) -> Int]
<1>1. ASSUME NEW i \in 1 .. Len(ps) PROVE ps[i].rate * (u - ps[i].settledAt) \in Nat
  <2>1. ps[i] \in Places
    OBVIOUS
  <2>2. ps[i].rate \in Nat /\ ps[i].settledAt \in Nat /\ ps[i].settledAt <= u
    BY <2>1 DEF Places, SettledBy
  <2>3. PICK a, b : a = ps[i].rate /\ b = u - ps[i].settledAt
    OBVIOUS
  <2>4. a \in Nat /\ b \in Nat
    BY <2>2, <2>3
  <2>5. a * b \in Nat
    BY ONLY <2>4
  <2> QED BY <2>3, <2>5
<1> QED BY <1>1 DEF Due, DueAll

LEMMA SumOfDue ==
  ASSUME NEW ps \in Seq(Places), NEW u \in Nat, SettledBy(ps, u), NEW I, NEW v
  PROVE  /\ Sum(Due(ps, u, I, v), Len(ps)) \in Nat
         /\ Sum(DueAll(ps, u, I), Len(ps)) \in Nat
<1>1. Len(ps) \in Nat
  OBVIOUS
<1> QED BY <1>1, DueNat, SumNat

\* What was due is what is settled now and what is due of the rest.
Settled1(p, q, u, isIn) ==
  IF isIn THEN q.owner = p.owner /\ q.settledAt = u ELSE q = p

SettlesTo(ps, qs, u, I) ==
  Len(qs) = Len(ps) /\ \A i \in 1 .. Len(ps) : Settled1(ps[i], qs[i], u, i \in I)

LEMMA DueSplits ==
  ASSUME NEW ps \in Seq(Places), NEW qs \in Seq(Places), NEW u \in Nat, SettledBy(ps, u), NEW I,
         SettlesTo(ps, qs, u, I), NEW v
  PROVE  /\ SettledBy(qs, u)
         /\ Sum(Due(ps, u, 1 .. Len(ps), v), Len(ps)) =
              Sum(Due(ps, u, I, v), Len(ps)) + Sum(Due(qs, u, 1 .. Len(ps), v), Len(ps))
<1>1. PICK n : n = Len(ps)
  OBVIOUS
<1>2. n \in Nat /\ Len(qs) = n /\ \A i \in 1 .. n : Settled1(ps[i], qs[i], u, i \in I)
  BY <1>1 DEF SettlesTo
<1>3. SettledBy(qs, u)
  <2> SUFFICES ASSUME NEW i \in 1 .. n PROVE qs[i].settledAt <= u
    BY <1>2 DEF SettledBy
  <2>1. ps[i].settledAt <= u
    BY <1>1 DEF SettledBy
  <2> QED BY <1>2, <2>1 DEF Settled1
<1>4. PICK x, y, z : x = Due(ps, u, 1 .. n, v) /\ y = Due(ps, u, I, v) /\ z = Due(qs, u, 1 .. n, v)
  OBVIOUS
<1>5. x \in [1 .. n -> Int] /\ y \in [1 .. n -> Int] /\ z \in [1 .. n -> Int]
  <2>1. x \in [1 .. Len(ps) -> Int] /\ y \in [1 .. Len(ps) -> Int]
    BY <1>4, DueNat
  <2>2. z \in [1 .. Len(qs) -> Int]
    BY <1>3, <1>4, DueNat
  <2> QED BY <1>1, <1>2, <2>1, <2>2
<1>6. ASSUME NEW i \in 1 .. n PROVE /\ y[i] = IF i \in I THEN x[i] ELSE 0
                                    /\ z[i] = IF i \in I THEN 0 ELSE x[i]
  <2>1. x[i] = IF ps[i].owner = v THEN ps[i].rate * (u - ps[i].settledAt) ELSE 0
    BY <1>1, <1>4 DEF Due
  <2>2. y[i] = IF i \in I /\ ps[i].owner = v THEN ps[i].rate * (u - ps[i].settledAt) ELSE 0
    BY <1>1, <1>4 DEF Due
  <2>3. z[i] = IF qs[i].owner = v THEN qs[i].rate * (u - qs[i].settledAt) ELSE 0
    BY <1>2, <1>4 DEF Due
  <2>4. CASE i \in I
    <3>1. qs[i].settledAt = u /\ qs[i].rate \in Nat
      <4>1. qs[i] \in Places
        BY <1>2
      <4> QED BY <1>2, <2>4, <4>1 DEF Settled1, Places
    <3>2. u - u = 0
      OBVIOUS
    <3>3. PICK r : r = qs[i].rate
      OBVIOUS
    <3>4. r * 0 = 0
      BY <3>1, <3>3
    <3>5. z[i] = 0
      BY <2>3, <3>1, <3>2, <3>3, <3>4
    <3> QED BY <2>1, <2>2, <2>4, <3>5
  <2>5. CASE i \notin I
    <3>1. qs[i] = ps[i]
      BY <1>2, <2>5 DEF Settled1
    <3> QED BY <2>1, <2>2, <2>3, <2>5, <3>1
  <2> QED BY <2>4, <2>5
<1>7. Parts(x, y, z, n, I)
  BY <1>6 DEF Parts
<1>8. Sum(x, n) = Sum(y, n) + Sum(z, n)
  <2>1. n \in Nat
    BY <1>2
  <2> QED BY <1>5, <1>7, <2>1, SumSplits
<1> QED BY <1>1, <1>3, <1>4, <1>8

\* What all positions in I are due is what the accounts are due for them.
LEMMA DuePerAccount ==
  ASSUME NEW ps \in Seq(Places), NEW u \in Nat, SettledBy(ps, u), NEW I,
         NEW as \in Seq(Provider), Distinct(as), OwnersHaveAccounts(ps, as)
  PROVE  Sum([j \in 1 .. Len(as) |-> Sum(Due(ps, u, I, as[j]), Len(ps))], Len(as)) =
           Sum(DueAll(ps, u, I), Len(ps))
<1>1. PICK n, m, x, o : /\ n = Len(ps) /\ m = Len(as)
                        /\ x = DueAll(ps, u, I) /\ o = [i \in 1 .. n |-> ps[i].owner]
  OBVIOUS
<1>2. n \in Nat /\ m \in Nat /\ x \in [1 .. n -> Nat] /\ as \in [1 .. m -> Provider]
  <2>1. DueAll(ps, u, I) \in [1 .. Len(ps) -> Nat]
    BY DueNat
  <2>2. as \in [1 .. Len(as) -> Provider] /\ Len(as) \in Nat /\ Len(ps) \in Nat
    BY LenProperties
  <2> QED BY ONLY <1>1, <2>1, <2>2
<1>3. o \in [1 .. n -> Provider]
  <2>1. ASSUME NEW i \in 1 .. n PROVE ps[i].owner \in Provider
    <3>1. ps[i] \in Places
      BY <1>1
    <3> QED BY <3>1 DEF Places
  <2> QED BY <1>1, <2>1
<1>4. OwnersListed(o, n, as)
  BY <1>1 DEF OwnersListed, OwnersHaveAccounts
<1>5. Sum([j \in 1 .. m |-> Sum(PerOwner(x, o, n, as[j]), n)], m) = Sum(x, n)
  BY <1>2, <1>3, <1>4, SumPerOwner
<1>6. ASSUME NEW v PROVE PerOwner(x, o, n, v) = Due(ps, u, I, v)
  BY <1>1 DEF PerOwner, Due, DueAll
<1> QED BY <1>1, <1>5, <1>6

\* Owners who have no position are due nothing.
LEMMA NothingDueToOthers ==
  ASSUME NEW ps \in Seq(Places), NEW u \in Nat, SettledBy(ps, u), NEW I, NEW v,
         \A i \in 1 .. Len(ps) : ps[i].owner # v
  PROVE  Sum(Due(ps, u, I, v), Len(ps)) = 0
<1>1. Due(ps, u, I, v) \in [1 .. Len(ps) -> Int] /\ Len(ps) \in Nat
  BY DueNat
<1>2. \A i \in 1 .. Len(ps) : Due(ps, u, I, v)[i] = 0
  BY DEF Due
<1> QED BY <1>1, <1>2, SumOfZeros

\* Once everything is settled nothing is due.
LEMMA NothingDue ==
  ASSUME NEW ps \in Seq(Places), NEW u \in Nat, NEW I,
         \A i \in 1 .. Len(ps) : i \in I => ps[i].settledAt = u \/ ps[i].rate = 0
  PROVE  /\ Sum(DueAll(ps, u, I), Len(ps)) = 0
         /\ \A v : Sum(Due(ps, u, I, v), Len(ps)) = 0
<1>1. ASSUME NEW i \in 1 .. Len(ps), i \in I PROVE ps[i].rate * (u - ps[i].settledAt) = 0
  <2>1. ps[i].rate \in Nat /\ ps[i].settledAt \in Nat
    <3>1. ps[i] \in Places
      OBVIOUS
    <3> QED BY <3>1 DEF Places
  <2>2. PICK r, s : r = ps[i].rate /\ s = ps[i].settledAt
    OBVIOUS
  <2>3. CASE s = u
    <3>1. u - s = 0 /\ r * 0 = 0
      BY <2>1, <2>2, <2>3
    <3> QED BY <2>2, <3>1
  <2>4. CASE r = 0
    <3>1. u - s \in Int
      BY <2>1, <2>2
    <3>2. PICK d : d = u - s
      OBVIOUS
    <3>3. 0 * d = 0
      BY <3>1, <3>2
    <3> QED BY <2>2, <2>4, <3>2, <3>3
  <2> QED BY <1>1, <2>2, <2>3, <2>4
<1>2. Len(ps) \in Nat
  OBVIOUS
<1>3. /\ DueAll(ps, u, I) \in [1 .. Len(ps) -> Int]
      /\ \A i \in 1 .. Len(ps) : DueAll(ps, u, I)[i] = 0
  BY <1>1 DEF DueAll
<1>4. ASSUME NEW v PROVE /\ Due(ps, u, I, v) \in [1 .. Len(ps) -> Int]
                         /\ \A i \in 1 .. Len(ps) : Due(ps, u, I, v)[i] = 0
  BY <1>1 DEF Due
<1>5. Sum(DueAll(ps, u, I), Len(ps)) = 0
  BY <1>2, <1>3, SumOfZeros
<1>6. ASSUME NEW v PROVE Sum(Due(ps, u, I, v), Len(ps)) = 0
  BY <1>2, <1>4, SumOfZeros
<1> QED BY <1>5, <1>6

LEMMA ExactIs ==
  ASSUME LPTypeOK
  PROVE  AccrualExact <=> ExactEverywhere
<1>1. /\ DOMAIN campaigns = 1 .. Len(campaigns)
      /\ \A id \in 1 .. Len(campaigns) : /\ DOMAIN positions[id] = 1 .. Len(positions[id])
                                         /\ DOMAIN accounts[id] = 1 .. Len(accounts[id])
  BY Typed
<1> QED BY <1>1, PendingIsDue DEF AccrualExact, ExactEverywhere, Exact, DueOf, AccountsTotal

LEMMA AllSettledBy ==
  ASSUME LPTypeOK, CopiesAgree, NEW id \in 1 .. Len(campaigns)
  PROVE  SettledBy(positions[id], Until)
BY DEF CopiesAgree, CopyAgrees, SettledBy

-----------------------------------------------------------------------------
(* A step that settles the positions I of campaign id.                     *)

SameElsewhere(id) ==
  \A k \in 1 .. Len(campaigns) :
    k # id => /\ positions'[k] = positions[k] /\ accrued'[k] = accrued[k]
              /\ campaigns'[k] = campaigns[k]

Settles(id, I) ==
  /\ UNCHANGED <<now, accounts, earned>> /\ Len(campaigns') = Len(campaigns)
  /\ SettlesTo(positions[id], positions'[id], Until, I)
  /\ accrued'[id] = [v \in Provider |-> accrued[id][v] + PendingOf(id, I, v)]
  /\ campaigns'[id].totalAccrued = campaigns[id].totalAccrued + PendingAll(id, I)
  /\ SameElsewhere(id)

LEMMA SettlingKeepsExact ==
  ASSUME LPTypeOK, CopiesAgree, AccountsOK, ExactEverywhere, LPTypeOK',
         NEW id \in 1 .. Len(campaigns), NEW I, Settles(id, I)
  PROVE  ExactEverywhere'
<1>1. PICK ps, qs, n, u : /\ ps = positions[id] /\ qs = positions'[id]
                          /\ n = Len(positions[id]) /\ u = Until
  OBVIOUS
<1>2. Until' = u /\ u \in Nat /\ now' = now /\ accounts' = accounts /\ earned' = earned
  <2>1. now' = now /\ accounts' = accounts /\ earned' = earned
    BY DEF Settles
  <2>2. Until \in Nat
    BY UntilIs DEF LPTypeOK
  <2> QED BY <1>1, <2>1, <2>2 DEF Until
<1>3. Len(campaigns') = Len(campaigns)
  BY DEF Settles
<1>4. ps \in Seq(Places) /\ qs \in Seq(Places) /\ n \in Nat
  <2>1. ps \in Seq(Places) /\ n \in Nat
    BY <1>1, Typed
  <2>2. Len(positions') = Len(campaigns')
    BY DEF LPTypeOK
  <2>3. id \in 1 .. Len(positions')
    BY <1>3, <2>2
  <2>4. positions' \in Seq(Seq(Places))
    BY DEF LPTypeOK
  <2>5. positions'[id] \in Seq(Places)
    BY <2>3, <2>4, ElementOfSeq
  <2> QED BY <1>1, <2>1, <2>5
<1>5. SettledBy(ps, u) /\ SettlesTo(ps, qs, u, I) /\ Len(qs) = n
  BY <1>1, AllSettledBy DEF Settles, SettlesTo
<1>6. ASSUME NEW v PROVE /\ Sum(Due(ps, u, 1 .. n, v), n) =
                              Sum(Due(ps, u, I, v), n) + Sum(Due(qs, u, 1 .. n, v), n)
                         /\ Sum(Due(ps, u, I, v), n) \in Nat
                         /\ Sum(Due(qs, u, 1 .. n, v), n) \in Nat
  <2>1. /\ SettledBy(qs, u)
        /\ Sum(Due(ps, u, 1 .. Len(ps), v), Len(ps)) =
             Sum(Due(ps, u, I, v), Len(ps)) + Sum(Due(qs, u, 1 .. Len(ps), v), Len(ps))
    BY <1>2, <1>4, <1>5, DueSplits
  <2>2. Sum(Due(ps, u, I, v), Len(ps)) \in Nat
    BY <1>2, <1>4, <1>5, SumOfDue
  <2>3. Sum(Due(qs, u, 1 .. n, v), Len(qs)) \in Nat
    BY <1>2, <1>4, <2>1, SumOfDue
  <2> QED BY <1>1, <1>5, <2>1, <2>2, <2>3
<1>7. ASSUME NEW v \in Provider PROVE accrued'[id][v] + DueOf(id, v)' = earned'[id][v]
  <2>1. PICK a, b, c, d, e : /\ a = accrued[id][v] /\ b = Sum(Due(ps, u, I, v), n)
                             /\ c = Sum(Due(qs, u, 1 .. n, v), n)
                             /\ d = Sum(Due(ps, u, 1 .. n, v), n) /\ e = earned[id][v]
    OBVIOUS
  <2>2. accrued'[id][v] = a + b
    BY <1>1, <2>1, PendingIsDue DEF Settles
  <2>3. DueOf(id, v)' = c
    BY <1>1, <1>2, <1>5, <2>1 DEF DueOf
  <2>4. a + d = e
    BY <1>1, <2>1 DEF ExactEverywhere, Exact, DueOf
  <2>5. d = b + c /\ b \in Nat /\ c \in Nat
    BY <1>6, <2>1
  <2>6. a \in Nat
    BY <2>1, Typed
  <2>7. earned'[id][v] = e
    BY <1>2, <2>1
  <2>8. (a + b) + c = e
    BY ONLY <2>4, <2>5, <2>6
  <2> QED BY <2>2, <2>3, <2>7, <2>8
<1>8. (campaigns[id].totalAccrued = AccountsTotal(id))'
  <2>1. PICK as, m, T : as = accounts[id] /\ m = Len(accounts[id]) /\ T = campaigns[id].totalAccrued
    OBVIOUS
  <2>2. as \in Seq(Provider) /\ m \in Nat /\ \A j \in 1 .. m : as[j] \in Provider
    BY <2>1, Typed
  <2>3. PICK f, g, h : /\ f = [j \in 1 .. m |-> accrued[id][as[j]]]
                       /\ g = [j \in 1 .. m |-> Sum(Due(ps, u, I, as[j]), n)]
                       /\ h = [j \in 1 .. m |-> accrued'[id][as[j]]]
    OBVIOUS
  <2>4. Sum(g, m) = Sum(DueAll(ps, u, I), n)
    <3>1. Distinct(as) /\ OwnersHaveAccounts(ps, as)
      BY <1>1, <2>1 DEF AccountsOK
    <3>2. ps \in Seq(Places) /\ u \in Nat /\ SettledBy(ps, u) /\ as \in Seq(Provider)
      BY <1>2, <1>4, <1>5, <2>2
    <3>3. Sum([j \in 1 .. Len(as) |-> Sum(Due(ps, u, I, as[j]), Len(ps))], Len(as)) =
            Sum(DueAll(ps, u, I), Len(ps))
      BY ONLY <3>1, <3>2, DuePerAccount
    <3>4. Len(as) = m /\ Len(ps) = n
      BY <1>1, <2>1
    <3> QED BY ONLY <2>3, <3>3, <3>4
  <2>5. ASSUME NEW j \in 1 .. m PROVE f[j] \in Int /\ g[j] \in Int /\ h[j] \in Int /\ h[j] = f[j] + g[j]
    <3>1. as[j] \in Provider
      BY <2>2
    <3>2. accrued'[id][as[j]] = accrued[id][as[j]] + Sum(Due(ps, u, I, as[j]), n)
      BY <1>1, <3>1, PendingIsDue DEF Settles
    <3>3. accrued[id][as[j]] \in Nat
      BY <3>1, Typed
    <3>4. Sum(Due(ps, u, I, as[j]), n) \in Nat
      BY <1>6
    <3>5. PICK a, b : a = accrued[id][as[j]] /\ b = Sum(Due(ps, u, I, as[j]), n)
      OBVIOUS
    <3>6. f[j] = a /\ g[j] = b /\ h[j] = a + b
      BY <2>3, <3>2, <3>5
    <3>7. a \in Nat /\ b \in Nat
      BY <3>3, <3>4, <3>5
    <3>8. f[j] \in Int /\ g[j] \in Int
      BY ONLY <3>6, <3>7
    <3>9. h[j] \in Int /\ h[j] = f[j] + g[j]
      BY ONLY <3>6, <3>7
    <3> QED BY <3>8, <3>9
  <2>6. f \in [1 .. m -> Int] /\ g \in [1 .. m -> Int] /\ h \in [1 .. m -> Int]
    BY <2>3, <2>5
  <2>7. Sum(h, m) = Sum(f, m) + Sum(g, m)
    BY <2>2, <2>5, <2>6, SumOfSums
  <2>8. T = Sum(f, m)
    BY <2>1, <2>3 DEF ExactEverywhere, Exact, AccountsTotal
  <2>9. campaigns'[id].totalAccrued = T + Sum(DueAll(ps, u, I), n)
    BY <1>1, <2>1, PendingIsDue DEF Settles
  <2>10. AccountsTotal(id)' = Sum(h, m)
    BY <1>2, <2>1, <2>3 DEF AccountsTotal
  <2> QED BY <2>4, <2>7, <2>8, <2>9, <2>10
<1>9. ASSUME NEW k \in 1 .. Len(campaigns), k # id PROVE Exact(k)'
  <2>1. positions'[k] = positions[k] /\ accrued'[k] = accrued[k] /\ campaigns'[k] = campaigns[k]
    BY <1>9 DEF Settles, SameElsewhere
  <2>2. Exact(k)
    BY DEF ExactEverywhere
  <2>3. Until' = Until
    BY <1>1, <1>2
  <2> QED BY <1>2, <2>1, <2>2, <2>3 DEF Exact, DueOf, AccountsTotal
<1> QED BY <1>3, <1>7, <1>8, <1>9 DEF ExactEverywhere, Exact

\* Each owner still has one account.
LEMMA SettlingKeepsAccounts ==
  ASSUME LPTypeOK, CopiesAgree, AccountsOK, NEW id \in 1 .. Len(campaigns), NEW I, Settles(id, I)
  PROVE  AccountsOK'
<1>1. accounts' = accounts /\ Len(campaigns') = Len(campaigns)
  BY DEF Settles
<1>2. PICK ps, qs, u : ps = positions[id] /\ qs = positions'[id] /\ u = Until
  OBVIOUS
<1>3. /\ ps \in Seq(Places) /\ u \in Nat /\ SettledBy(ps, u) /\ SettlesTo(ps, qs, u, I)
      /\ Distinct(accounts[id]) /\ OwnersHaveAccounts(ps, accounts[id])
  <2>1. Until \in Nat
    BY UntilIs DEF LPTypeOK
  <2> QED BY <1>2, <2>1, Typed, AllSettledBy DEF Settles, AccountsOK
<1>4. OwnersHaveAccounts(qs, accounts[id])
  BY <1>3 DEF OwnersHaveAccounts, SettlesTo, Settled1
<1>5. ASSUME NEW v \in Provider, accrued'[id][v] # 0 PROVE Contains(accounts[id], v)
  <2>1. CASE accrued[id][v] # 0
    BY <2>1 DEF AccountsOK
  <2>2. CASE accrued[id][v] = 0
    <3>1. accrued'[id][v] = 0 + Sum(Due(ps, u, I, v), Len(ps))
      BY <1>2, <2>2, PendingIsDue DEF Settles
    <3>2. Sum(Due(ps, u, I, v), Len(ps)) # 0
      BY <1>5, <3>1
    <3>3. \E i \in 1 .. Len(ps) : ps[i].owner = v
      BY <1>3, <3>2, NothingDueToOthers
    <3> QED BY <1>3, <3>3 DEF OwnersHaveAccounts
  <2> QED BY <2>1, <2>2
<1>6. ASSUME NEW k \in 1 .. Len(campaigns), k # id
      PROVE  positions'[k] = positions[k] /\ accrued'[k] = accrued[k]
  BY <1>6 DEF Settles, SameElsewhere
<1> QED BY <1>1, <1>2, <1>3, <1>4, <1>5, <1>6 DEF AccountsOK

LEMMA ShareNat ==
  ASSUME NEW s \in Campaigns, NEW own \in Nat, NEW total \in Nat
  PROVE  ShareOf(s, own, total) \in Nat
<1>1. CASE total = 0
  BY <1>1 DEF ShareOf
<1>2. CASE total # 0
  <2>1. s.amount \in Nat
    BY DEF Campaigns
  <2>2. PICK a, x : a = s.amount /\ x = a * own
    OBVIOUS
  <2>3. x \in Nat
    BY <2>1, <2>2
  <2>4. total > 0
    BY <1>2
  <2>5. x \div total \in Nat
    BY <2>3, <2>4, Quotient
  <2> QED BY <1>2, <2>2, <2>5 DEF ShareOf
<1> QED BY <1>1, <1>2

LEMMA SharesNat ==
  LPTypeOK =>
    \A id \in 1 .. Len(campaigns) : /\ Shares(id) \in [1 .. Len(accounts[id]) -> Nat]
                                    /\ Shares(id) \in [1 .. Len(accounts[id]) -> Int]
                                    /\ Len(accounts[id]) \in Nat
                                    /\ PrefixSum(Shares(id), Len(accounts[id]))[0] = 0
<1> SUFFICES ASSUME LPTypeOK, NEW id \in 1 .. Len(campaigns)
             PROVE  /\ Shares(id) \in [1 .. Len(accounts[id]) -> Nat]
                    /\ Shares(id) \in [1 .. Len(accounts[id]) -> Int]
                    /\ Len(accounts[id]) \in Nat
                    /\ PrefixSum(Shares(id), Len(accounts[id]))[0] = 0
  OBVIOUS
<1>1. ASSUME NEW i \in 1 .. Len(accounts[id])
      PROVE  ShareOf(campaigns[id], accrued[id][accounts[id][i]], campaigns[id].totalAccrued) \in Nat
  <2>1. campaigns[id] \in Campaigns /\ accounts[id][i] \in Provider /\ accrued[id] \in [Provider -> Nat]
    BY Typed
  <2>2. campaigns[id].totalAccrued \in Nat /\ accrued[id][accounts[id][i]] \in Nat
    BY <2>1 DEF Campaigns
  <2> QED BY <2>1, <2>2, ShareNat
<1>2. Shares(id) \in [1 .. Len(accounts[id]) -> Nat] /\ Len(accounts[id]) \in Nat
  BY <1>1, Typed DEF Shares
<1>3. Shares(id) \in [1 .. Len(accounts[id]) -> Int]
  BY <1>2
<1> QED BY <1>2, <1>3, PrefixSumUnfold

LEMMA SharesNatNext ==
  (LPTypeOK =>
    \A id \in 1 .. Len(campaigns) : /\ Shares(id) \in [1 .. Len(accounts[id]) -> Nat]
                                    /\ Shares(id) \in [1 .. Len(accounts[id]) -> Int]
                                    /\ Len(accounts[id]) \in Nat
                                    /\ PrefixSum(Shares(id), Len(accounts[id]))[0] = 0)'
BY SharesNat, PTL

SameTerms(id) ==
  /\ campaigns'[id].amount = campaigns[id].amount
  /\ campaigns'[id].settleCursor = campaigns[id].settleCursor
  /\ campaigns'[id].allocationCursor = campaigns[id].allocationCursor
  /\ campaigns'[id].allocated = campaigns[id].allocated

\* Once shares are allocated nothing is pending any more.
LEMMA NothingPending ==
  ASSUME LPTypeOK, CopiesAgree, CursorsOK, NEW id \in 1 .. Len(campaigns), NEW I,
         campaigns[id].allocationCursor > 0
  PROVE  PendingAll(id, I) = 0 /\ \A v : PendingOf(id, I, v) = 0
<1>1. PICK ps, u : ps = positions[id] /\ u = Until
  OBVIOUS
<1>2. Settling(id)
  BY DEF CursorsOK
<1>3. now \in Nat /\ now >= Deadline /\ campaigns[id].settleCursor = Len(ps)
  BY <1>1, <1>2 DEF Settling, LPTypeOK
<1>4. u = Deadline /\ u \in Nat
  BY <1>1, <1>3, UntilIs
<1>5. \A i \in 1 .. Len(ps) : ps[i].settledAt = u
  BY <1>1, <1>2, <1>3, <1>4 DEF Settling
<1>6. ps \in Seq(Places)
  BY <1>1, Typed
<1>7. /\ Sum(DueAll(ps, u, I), Len(ps)) = 0
      /\ \A v : Sum(Due(ps, u, I, v), Len(ps)) = 0
  <2>1. \A i \in 1 .. Len(ps) : i \in I => ps[i].settledAt = u \/ ps[i].rate = 0
    BY <1>5
  <2> QED BY <1>4, <1>6, <2>1, NothingDue
<1> QED BY <1>1, <1>7, PendingIsDue

LEMMA SettlingKeepsCursors ==
  ASSUME LPTypeOK, CopiesAgree, CursorsOK, LPTypeOK',
         NEW id \in 1 .. Len(campaigns), NEW I, Settles(id, I), SameTerms(id)
  PROVE  CursorsOK'
<1>1. accounts' = accounts /\ Len(campaigns') = Len(campaigns) /\ now' = now
  BY DEF Settles
<1>2. PICK m, c, sc : /\ m = Len(accounts[id]) /\ c = campaigns[id].allocationCursor
                      /\ sc = campaigns[id].settleCursor
  OBVIOUS
<1>3. c \in Nat /\ sc \in Nat /\ m \in Nat /\ now \in Nat
  BY <1>2, Typed DEF Campaigns, LPTypeOK
<1>4. Settling(id) /\ campaigns[id].allocated = PrefixSum(Shares(id), m)[c]
  BY <1>2 DEF CursorsOK
<1>5. Settling(id)'
  <2>1. ASSUME NEW i \in 1 .. sc PROVE positions'[id][i].settledAt = Deadline
    <3>1. positions[id][i].settledAt = Deadline /\ i \in 1 .. Len(positions[id]) /\ now >= Deadline
      <4>1. Len(positions[id]) \in Nat /\ sc <= Len(positions[id])
        BY <1>2, <1>4, Typed DEF Settling
      <4>2. i \in 1 .. Len(positions[id]) /\ sc > 0
        BY <1>3, <4>1
      <4> QED BY <1>2, <1>4, <4>2 DEF Settling
    <3>2. Until = Deadline
      BY <1>3, <3>1, UntilIs
    <3> QED BY <3>1, <3>2 DEF Settles, SettlesTo, Settled1
  <2>2. Len(positions'[id]) = Len(positions[id])
    BY DEF Settles, SettlesTo
  <2> QED BY <1>1, <1>2, <1>4, <2>1, <2>2 DEF Settling, SameTerms
<1>6. campaigns'[id].allocated = PrefixSum(Shares(id)', m)[c]
  <2>1. campaigns'[id].allocated = campaigns[id].allocated
    BY DEF SameTerms
  <2>2. CASE c = 0
    <3>1. PrefixSum(Shares(id), m)[0] = 0
      BY <1>2, SharesNat
    <3>2. PrefixSum(Shares(id)', m)[0] = 0
      BY <1>1, <1>2, SharesNatNext
    <3> QED BY <1>4, <2>1, <2>2, <3>1, <3>2
  <2>3. CASE c > 0
    <3>1. PendingAll(id, I) = 0 /\ \A v : PendingOf(id, I, v) = 0
      BY <1>2, <2>3, NothingPending
    <3>2. campaigns[id].totalAccrued \in Nat /\ \A v \in Provider : accrued[id][v] \in Nat
      BY Typed DEF Campaigns
    <3>3. campaigns'[id].totalAccrued = campaigns[id].totalAccrued
      BY <3>1, <3>2 DEF Settles
    <3>4. ASSUME NEW v \in Provider PROVE accrued'[id][v] = accrued[id][v]
      BY <3>1, <3>2 DEF Settles
    <3>5. ASSUME NEW i \in 1 .. m
          PROVE  ShareOf(campaigns'[id], accrued'[id][accounts[id][i]], campaigns'[id].totalAccrued)
                   = ShareOf(campaigns[id], accrued[id][accounts[id][i]], campaigns[id].totalAccrued)
      <4>1. accounts[id][i] \in Provider
        BY <1>2, Typed
      <4> QED BY <3>3, <3>4, <4>1 DEF ShareOf, SameTerms
    <3>6. Shares(id)' = Shares(id)
      BY <1>1, <1>2, <3>5 DEF Shares
    <3> QED BY <1>4, <2>1, <3>6
  <2> QED BY <1>3, <2>2, <2>3
<1>7. ASSUME NEW k \in 1 .. Len(campaigns), k # id
      PROVE  /\ Settling(k)'
             /\ campaigns'[k].allocated =
                  PrefixSum(Shares(k)', Len(accounts[k]))[campaigns'[k].allocationCursor]
  <2>1. positions'[k] = positions[k] /\ accrued'[k] = accrued[k] /\ campaigns'[k] = campaigns[k]
    BY <1>7 DEF Settles, SameElsewhere
  <2>2. Settling(k)
    BY DEF CursorsOK
  <2>3. Shares(k)' = Shares(k)
    BY <1>1, <2>1 DEF Shares
  <2> QED BY <1>1, <2>1, <2>2, <2>3 DEF CursorsOK, Settling
<1>8. campaigns'[id].allocationCursor = c
  BY <1>2 DEF SameTerms
<1> QED BY <1>1, <1>2, <1>5, <1>6, <1>7, <1>8 DEF CursorsOK

LEMMA SettlingKeepsCredits ==
  ASSUME LPTypeOK, CreditsOK, NEW id \in 1 .. Len(campaigns), NEW I, Settles(id, I), SameTerms(id),
         UNCHANGED <<lpGranted, lpBudget>>
  PROVE  CreditsOK'
<1>1. ASSUME NEW k \in 1 .. Len(campaigns)
      PROVE  campaigns'[k].allocated = campaigns[k].allocated /\ campaigns'[k].amount = campaigns[k].amount
  <2>1. CASE k = id
    BY <2>1 DEF SameTerms
  <2>2. CASE k # id
    BY <2>2 DEF Settles, SameElsewhere
  <2> QED BY <2>1, <2>2
<1>2. Len(campaigns') = Len(campaigns)
  BY DEF Settles
<1>3. PaidOut' = PaidOut /\ PaidIn' = PaidIn
  BY <1>1, <1>2 DEF PaidOut, PaidIn
<1> QED BY <1>2, <1>3 DEF CreditsOK

-----------------------------------------------------------------------------
(* The steps that settle.                                                  *)

LEMMA FunctionIsSeq ==
  ASSUME NEW S, NEW n \in Nat, NEW f \in [1 .. n -> S]
  PROVE  f \in Seq(S) /\ Len(f) = n
OBVIOUS

LEMMA PendingNat ==
  ASSUME LPTypeOK, CopiesAgree, NEW id \in 1 .. Len(campaigns), NEW I
  PROVE  PendingAll(id, I) \in Nat /\ \A v : PendingOf(id, I, v) \in Nat
<1>1. positions[id] \in Seq(Places) /\ Until \in Nat /\ SettledBy(positions[id], Until)
  BY Typed, UntilIs, AllSettledBy DEF LPTypeOK
<1>2. Sum(DueAll(positions[id], Until, I), Len(positions[id])) \in Nat
  BY <1>1, SumOfDue
<1>3. ASSUME NEW v PROVE Sum(Due(positions[id], Until, I, v), Len(positions[id])) \in Nat
  BY <1>1, SumOfDue
<1> QED BY <1>2, <1>3, PendingIsDue

MarketOK ==
  /\ activeCampaign \in [Position -> 0 .. Len(campaigns)]
  /\ liquidityOf \in [Position -> Liquidities]
  /\ ownerOf \in [Position -> Provider]
  /\ slot0 \in [LPPool -> Prices]

Writes(id, I, qs, s) ==
  /\ accrued' = [accrued EXCEPT ![id] = [v \in Provider |-> @[v] + PendingOf(id, I, v)]]
  /\ positions' = [positions EXCEPT ![id] = qs]
  /\ campaigns' = [campaigns EXCEPT ![id] = s]
  /\ UNCHANGED <<now, accounts, earned>>

LEMMA StepSettles ==
  ASSUME LPTypeOK, CopiesAgree, NEW id \in 1 .. Len(campaigns), NEW I,
         NEW qs \in Seq(Places), SettlesTo(positions[id], qs, Until, I),
         NEW s \in Campaigns, s.totalAccrued = campaigns[id].totalAccrued + PendingAll(id, I),
         Writes(id, I, qs, s)
  PROVE  /\ MarketOK' => LPTypeOK'
         /\ Settles(id, I)
         /\ campaigns'[id] = s /\ positions'[id] = qs
<1>1. PICK a : a = [v \in Provider |-> accrued[id][v] + PendingOf(id, I, v)]
  OBVIOUS
<1>2. a \in [Provider -> Nat]
  <2>1. ASSUME NEW v \in Provider PROVE accrued[id][v] + PendingOf(id, I, v) \in Nat
    <3>1. accrued[id][v] \in Nat /\ PendingOf(id, I, v) \in Nat
      BY Typed, PendingNat
    <3> QED BY <3>1
  <2> QED BY <1>1, <2>1
<1>3. /\ campaigns \in Seq(Campaigns) /\ positions \in Seq(Seq(Places))
      /\ accrued \in Seq([Provider -> Nat])
      /\ Len(positions) = Len(campaigns) /\ Len(accrued) = Len(campaigns)
  BY DEF LPTypeOK
<1>4. /\ accrued' = [accrued EXCEPT ![id] = a]
      /\ positions' = [positions EXCEPT ![id] = qs]
      /\ campaigns' = [campaigns EXCEPT ![id] = s]
      /\ UNCHANGED <<now, accounts, earned>>
  BY <1>1 DEF Writes
<1>5. /\ accrued' \in Seq([Provider -> Nat]) /\ Len(accrued') = Len(accrued)
      /\ \A j \in 1 .. Len(accrued) : accrued'[j] = IF j = id THEN a ELSE accrued[j]
  BY <1>2, <1>3, <1>4, ExceptSeq
<1>6. /\ positions' \in Seq(Seq(Places)) /\ Len(positions') = Len(positions)
      /\ \A j \in 1 .. Len(positions) : positions'[j] = IF j = id THEN qs ELSE positions[j]
  <2>1. id \in 1 .. Len(positions)
    BY <1>3
  <2> QED BY ONLY <1>3, <1>4, <2>1, qs \in Seq(Places), ExceptSeq
<1>7. /\ campaigns' \in Seq(Campaigns) /\ Len(campaigns') = Len(campaigns)
      /\ \A j \in 1 .. Len(campaigns) : campaigns'[j] = IF j = id THEN s ELSE campaigns[j]
  BY ONLY <1>3, id \in 1 .. Len(campaigns), s \in Campaigns, <1>4, ExceptSeq
<1>8. campaigns'[id] = s /\ positions'[id] = qs /\ accrued'[id] = a
  BY <1>3, <1>5, <1>6, <1>7
<1>9. MarketOK' => LPTypeOK'
  BY <1>3, <1>4, <1>5, <1>6, <1>7 DEF MarketOK, LPTypeOK
<1>10. SameElsewhere(id)
  BY <1>3, <1>5, <1>6, <1>7 DEF SameElsewhere
<1>11. Settles(id, I)
  BY <1>1, <1>4, <1>7, <1>8, <1>10 DEF Settles
<1> QED BY <1>8, <1>9, <1>11

\* Where the ledger keeps a subscribed position.
LEMMA PlaceOf ==
  ASSUME LPTypeOK, CopiesAgree, NEW t \in Position, activeCampaign[t] # 0
  PROVE  LET id == activeCampaign[t]
             i  == IndexOf(id, t)
         IN  /\ id \in 1 .. Len(campaigns)
             /\ i \in 1 .. Len(positions[id])
             /\ positions[id][i].token = t
             /\ positions[id][i].active
             /\ \A j \in 1 .. Len(positions[id]) : j # i => positions[id][j].token # t
<1>1. PICK id : id = activeCampaign[t]
  OBVIOUS
<1>2. id \in 1 .. Len(campaigns)
  <2>1. id \in 0 .. Len(campaigns) /\ id # 0 /\ Len(campaigns) \in Nat
    BY <1>1, Typed DEF LPTypeOK
  <2> QED BY <2>1
<1>3. DOMAIN positions[id] = 1 .. Len(positions[id])
  BY <1>2, Typed
<1>4. \E i \in DOMAIN positions[id] : positions[id][i].token = t
  BY <1>1, <1>3 DEF CopiesAgree, HasPlace
<1>5. PICK i : i = IndexOf(id, t)
  OBVIOUS
<1>6. i \in 1 .. Len(positions[id]) /\ positions[id][i].token = t
  BY <1>3, <1>4, <1>5 DEF IndexOf
<1>7. positions[id][i].active
  BY <1>1, <1>2, <1>6 DEF CopiesAgree, CopyAgrees
<1>8. \A j \in 1 .. Len(positions[id]) : j # i => positions[id][j].token # t
  BY <1>2, <1>6 DEF CopiesAgree, OncePerToken
<1> QED BY <1>1, <1>2, <1>5, <1>6, <1>7, <1>8

\* The ledger's copy of t becomes q.
Becomes(id, t, q) ==
  LET i == IndexOf(id, t)
  IN  /\ accrued' = [accrued EXCEPT ![id] = [v \in Provider |-> @[v] + PendingOf(id, {i}, v)]]
      /\ positions' = [positions EXCEPT ![id] = [j \in DOMAIN @ |-> IF j \in {i} THEN q ELSE @[j]]]
      /\ campaigns' = [campaigns EXCEPT ![id].totalAccrued = @ + PendingAll(id, {i})]
      /\ UNCHANGED <<now, accounts, earned>>

\* The market leaves every other position alone.
OthersStay(t) ==
  \A u \in Position : u # t => /\ activeCampaign'[u] = activeCampaign[u]
                               /\ ownerOf'[u] = ownerOf[u] /\ liquidityOf'[u] = liquidityOf[u]

LEMMA OneSettles ==
  ASSUME LPTypeOK, CopiesAgree, NEW t \in Position, NEW id \in 1 .. Len(campaigns),
         activeCampaign[t] = id, NEW q \in Places, q.token = t, q.settledAt = Until,
         q.owner = positions[id][IndexOf(id, t)].owner,
         Becomes(id, t, q), MarketOK', OthersStay(t), activeCampaign'[t] \in {0, id},
         CopyAgrees(id, q)'
  PROVE  /\ LPTypeOK' /\ CopiesAgree'
         /\ Settles(id, {IndexOf(id, t)}) /\ SameTerms(id)
<1>1. PICK i, ps, n : i = IndexOf(id, t) /\ ps = positions[id] /\ n = Len(positions[id])
  OBVIOUS
<1>2. /\ i \in 1 .. n /\ ps[i].token = t /\ ps[i].active
      /\ \A j \in 1 .. n : j # i => ps[j].token # t
  <2>1. activeCampaign[t] # 0
    OBVIOUS
  <2> QED BY <1>1, <2>1, PlaceOf
<1>3. ps \in Seq(Places) /\ n \in Nat /\ DOMAIN ps = 1 .. n /\ \A j \in 1 .. n : ps[j] \in Places
  BY <1>1, <1>2, Typed
<1>4. PICK qs : qs = [j \in 1 .. n |-> IF j = i THEN q ELSE ps[j]]
  OBVIOUS
<1>5. qs \in Seq(Places) /\ Len(qs) = n
  <2>1. qs \in [1 .. n -> Places]
    BY <1>3, <1>4
  <2> QED BY <1>3, <2>1, FunctionIsSeq
<1>6. SettlesTo(ps, qs, Until, {i})
  <2>1. ASSUME NEW j \in 1 .. n PROVE Settled1(ps[j], qs[j], Until, j \in {i})
    <3>1. q.settledAt = Until /\ q.owner = ps[i].owner
      BY <1>1
    <3>2. qs[j] = IF j = i THEN q ELSE ps[j]
      BY <1>4
    <3>3. CASE j = i
      BY <3>1, <3>2, <3>3 DEF Settled1
    <3>4. CASE j # i
      BY <3>2, <3>4 DEF Settled1
    <3> QED BY <3>3, <3>4
  <2> QED BY <1>1, <1>5, <2>1 DEF SettlesTo
<1>7. PICK c, s : /\ c = campaigns[id]
                  /\ s = [c EXCEPT !.totalAccrued = @ + PendingAll(id, {i})]
  OBVIOUS
<1>8. /\ s \in Campaigns /\ s.totalAccrued = campaigns[id].totalAccrued + PendingAll(id, {i})
      /\ s.price = c.price
      /\ s.amount = c.amount /\ s.settleCursor = c.settleCursor
      /\ s.allocationCursor = c.allocationCursor /\ s.allocated = c.allocated
  <2>1. c \in Campaigns
    BY <1>2, <1>7, Typed
  <2>2. PICK d : d = PendingAll(id, {i})
    OBVIOUS
  <2>3. d \in Nat
    BY <1>2, <2>2, PendingNat
  <2>4. PICK x : x = c.totalAccrued + d
    OBVIOUS
  <2>5. x \in Nat
    BY <2>1, <2>3, <2>4 DEF Campaigns
  <2>6. s = [c EXCEPT !.totalAccrued = x]
    BY <1>7, <2>2, <2>4
  <2>7. s \in Campaigns /\ s.totalAccrued = x
    BY ONLY <2>1, <2>5, <2>6 DEF Campaigns
  <2>8. /\ s.price = c.price /\ s.amount = c.amount /\ s.settleCursor = c.settleCursor
        /\ s.allocationCursor = c.allocationCursor /\ s.allocated = c.allocated
    BY ONLY <2>1, <2>5, <2>6 DEF Campaigns
  <2> QED BY <1>7, <2>2, <2>4, <2>7, <2>8
<1>9. Writes(id, {i}, qs, s)
  BY <1>1, <1>3, <1>4, <1>7 DEF Becomes, Writes
<1>10. /\ LPTypeOK' /\ Settles(id, {i})
       /\ campaigns'[id] = s /\ positions'[id] = qs
  <2>1. SettlesTo(positions[id], qs, Until, {i}) /\ qs \in Seq(Places) /\ s \in Campaigns
    BY <1>1, <1>5, <1>6, <1>8
  <2>2. s.totalAccrued = campaigns[id].totalAccrued + PendingAll(id, {i})
    BY <1>8
  <2> QED BY ONLY LPTypeOK, CopiesAgree, id \in 1 .. Len(campaigns), MarketOK', <1>9, <2>1, <2>2,
                  StepSettles
<1>11. SameTerms(id)
  BY <1>7, <1>8, <1>10 DEF SameTerms
<1>12. /\ now' = now /\ Until' = Until /\ Len(campaigns') = Len(campaigns)
       /\ \A k \in 1 .. Len(campaigns) : campaigns'[k].price = campaigns[k].price
  <2>1. now' = now /\ Len(campaigns') = Len(campaigns) /\ SameElsewhere(id)
    BY <1>10 DEF Settles
  <2> QED BY <1>7, <1>8, <1>10, <2>1 DEF Until, SameElsewhere
<1>13. ASSUME NEW k \in 1 .. Len(campaigns), NEW p \in Places, p.token # t, CopyAgrees(k, p)
       PROVE  CopyAgrees(k, p)'
  <2>1. /\ p.token \in Position /\ activeCampaign'[p.token] = activeCampaign[p.token]
        /\ ownerOf'[p.token] = ownerOf[p.token] /\ liquidityOf'[p.token] = liquidityOf[p.token]
    BY <1>13 DEF Places, OthersStay
  <2> QED BY <1>12, <1>13, <2>1 DEF CopyAgrees
<1>14. ASSUME NEW j \in 1 .. n PROVE CopyAgrees(id, qs[j])'
  <2>1. CASE j = i
    <3>1. qs[j] = q
      BY <1>4, <2>1
    <3> QED BY <1>1, <3>1 DEF CopyAgrees
  <2>2. CASE j # i
    <3>1. qs[j] = ps[j] /\ ps[j].token # t
      BY <1>2, <1>4, <2>2
    <3>2. CopyAgrees(id, ps[j])
      BY <1>1, <1>2 DEF CopiesAgree
    <3>3. CopyAgrees(id, ps[j])'
      BY <1>2, <1>3, <1>13, <3>1, <3>2
    <3> QED BY <3>1, <3>3 DEF CopyAgrees
  <2> QED BY <2>1, <2>2
<1>15. ASSUME NEW k \in 1 .. Len(campaigns), k # id, NEW j \in 1 .. Len(positions[k])
       PROVE  CopyAgrees(k, positions[k][j])'
  <2>1. CopyAgrees(k, positions[k][j]) /\ positions[k][j] \in Places
    BY Typed DEF CopiesAgree
  <2>2. PICK p : p = positions[k][j]
    OBVIOUS
  <2>3. positions'[k][j] = p
    BY <1>10, <1>15, <2>2 DEF Settles, SameElsewhere
  <2>4. CASE p.token # t
    <3>1. CopyAgrees(k, p)'
      BY <1>13, <2>1, <2>2, <2>4
    <3> QED BY <2>3, <3>1 DEF CopyAgrees
  <2>5. CASE p.token = t
    <3>1. ~p.active /\ p.rate = 0 /\ p.settledAt <= Until
      BY <1>1, <1>15, <2>1, <2>2, <2>5 DEF CopyAgrees
    <3>2. activeCampaign'[t] # k
      BY <1>1, <1>15
    <3> QED BY <1>12, <2>3, <2>5, <3>1, <3>2 DEF CopyAgrees
  <2> QED BY <2>4, <2>5
<1>16. ASSUME NEW k \in 1 .. Len(campaigns) PROVE OncePerToken(k)' /\ Len(positions'[k]) = Len(positions[k])
              /\ \A j \in 1 .. Len(positions[k]) : positions'[k][j].token = positions[k][j].token
  <2>1. OncePerToken(k)
    BY DEF CopiesAgree
  <2>2. CASE k = id
    <3>1. \A j \in 1 .. n : qs[j].token = ps[j].token
      BY <1>2, <1>4
    <3> QED BY <1>1, <1>5, <1>10, <2>1, <2>2, <3>1 DEF OncePerToken
  <2>3. CASE k # id
    <3>1. positions'[k] = positions[k]
      BY <1>10, <2>3 DEF Settles, SameElsewhere
    <3> QED BY <2>1, <3>1 DEF OncePerToken
  <2> QED BY <2>2, <2>3
<1>17. ASSUME NEW u \in Position, activeCampaign'[u] # 0 PROVE HasPlace(activeCampaign[u], u)'
  <2>1. activeCampaign'[u] = activeCampaign[u] /\ activeCampaign[u] # 0
    BY <1>17 DEF OthersStay
  <2>2. HasPlace(activeCampaign[u], u) /\ activeCampaign[u] \in 1 .. Len(campaigns)
    BY <2>1, PlaceOf DEF CopiesAgree
  <2> QED BY <1>16, <2>1, <2>2 DEF HasPlace
<1>18. CopiesAgree'
  <2>1. ASSUME NEW k \in 1 .. Len(campaigns), NEW j \in 1 .. Len(positions'[k])
        PROVE  CopyAgrees(k, positions[k][j])'
    <3>1. j \in 1 .. Len(positions[k])
      BY <1>16
    <3>2. CASE k = id
      <4>1. j \in 1 .. n
        BY <1>1, <3>1, <3>2
      <4>2. CopyAgrees(id, qs[j])'
        BY <1>14, <4>1
      <4> QED BY <1>10, <3>2, <4>2 DEF CopyAgrees
    <3>3. CASE k # id
      BY <1>15, <3>1, <3>3
    <3> QED BY <3>2, <3>3
  <2> QED BY <1>12, <1>16, <1>17, <2>1 DEF CopiesAgree
<1> QED BY <1>1, <1>2, <1>10, <1>11, <1>18


LEMMA SettlingKeeps ==
  ASSUME LedgerInv, LPTypeOK', CopiesAgree', NEW id \in 1 .. Len(campaigns), NEW I,
         Settles(id, I), SameTerms(id)
  PROVE  LedgerInv'
<1>1. LPTypeOK /\ CopiesAgree /\ AccountsOK /\ ExactEverywhere /\ CursorsOK
  BY DEF LedgerInv
<1>2. ExactEverywhere'
  BY <1>1, SettlingKeepsExact
<1>3. AccountsOK'
  BY <1>1, SettlingKeepsAccounts
<1>4. CursorsOK'
  BY <1>1, SettlingKeepsCursors
<1> QED BY <1>2, <1>3, <1>4 DEF LedgerInv

LEMMA BecomesLen ==
  ASSUME LPTypeOK, NEW id \in 1 .. Len(campaigns), NEW t, NEW q, Becomes(id, t, q)
  PROVE  Len(campaigns') = Len(campaigns)
<1>1. PICK c, s : /\ c = campaigns[id]
                  /\ s = [c EXCEPT !.totalAccrued = @ + PendingAll(id, {IndexOf(id, t)})]
  OBVIOUS
<1>2. campaigns' = [campaigns EXCEPT ![id] = s]
  BY <1>1 DEF Becomes
<1> QED BY <1>2 DEF LPTypeOK

OwnersStay(t) == \A u \in Position : u # t => ownerOf'[u] = ownerOf[u]

LEMMA StopKeeps ==
  ASSUME LedgerInv, NEW t \in Position, Stop(t), UNCHANGED <<now, earned, slot0, liquidityOf>>,
         ownerOf' \in [Position -> Provider], OwnersStay(t)
  PROVE  /\ LedgerInv'
         /\ \E id \in 1 .. Len(campaigns) : \E I : Settles(id, I) /\ SameTerms(id)
<1>1. PICK id, i, p : id = activeCampaign[t] /\ i = IndexOf(id, t) /\ p = positions[id][i]
  OBVIOUS
<1>2. LPTypeOK /\ CopiesAgree /\ id # 0
  BY <1>1 DEF LedgerInv, Stop
<1>3. /\ id \in 1 .. Len(campaigns) /\ i \in 1 .. Len(positions[id]) /\ p.token = t
  BY <1>1, <1>2, PlaceOf
<1>4. p \in Places /\ Until \in Nat /\ Len(campaigns) \in Nat
  BY <1>1, <1>2, <1>3, Typed, UntilIs DEF LPTypeOK
<1>5. PICK q : q = [Settled(p) EXCEPT !.active = FALSE, !.rate = 0, !.liquidity = 0]
  OBVIOUS
<1>6. /\ q \in Places /\ q.token = t /\ q.owner = p.owner /\ q.settledAt = Until
      /\ q.rate = 0 /\ q.active = FALSE
  <2>1. PICK u : u = Until
    OBVIOUS
  <2>2. u \in Nat /\ q = [[p EXCEPT !.settledAt = u] EXCEPT !.active = FALSE, !.rate = 0, !.liquidity = 0]
    BY <1>4, <1>5, <2>1 DEF Settled
  <2> QED BY ONLY <1>3, <1>4, <2>1, <2>2 DEF Places
<1>7. Becomes(id, t, q) /\ activeCampaign' = [activeCampaign EXCEPT ![t] = 0]
  BY <1>1, <1>2, <1>3, <1>5, Typed DEF Stop, Settle, Becomes
<1>8. /\ activeCampaign' \in [Position -> 0 .. Len(campaigns)] /\ activeCampaign'[t] = 0
      /\ \A u \in Position : u # t => activeCampaign'[u] = activeCampaign[u]
  BY <1>2, <1>4, <1>7 DEF LPTypeOK
<1>9. Len(campaigns') = Len(campaigns)
  BY <1>2, <1>3, <1>7, BecomesLen
<1>10. MarketOK' /\ OthersStay(t)
  BY <1>2, <1>8, <1>9 DEF MarketOK, OthersStay, OwnersStay, LPTypeOK
<1>11. CopyAgrees(id, q)'
  <2>1. Until' = Until
    BY DEF Until
  <2> QED BY <1>3, <1>4, <1>6, <1>8, <2>1 DEF CopyAgrees
<1>12. /\ LPTypeOK' /\ CopiesAgree' /\ Settles(id, {i}) /\ SameTerms(id)
  BY <1>1, <1>2, <1>3, <1>6, <1>7, <1>8, <1>10, <1>11, OneSettles
<1> QED BY <1>3, <1>12, SettlingKeeps

LEMMA ModifyKeeps ==
  ASSUME LedgerInv, NEW t \in Position, NEW liquidity \in Liquidities, ModifyLiquidity(t, liquidity)
  PROVE  /\ LedgerInv'
         /\ \/ UNCHANGED campaigns
            \/ \E id \in 1 .. Len(campaigns) : \E I : Settles(id, I) /\ SameTerms(id)
<1>1. LPTypeOK /\ CopiesAgree /\ UNCHANGED <<now, ownerOf, slot0, earned>>
  BY DEF LedgerInv, ModifyLiquidity, Settle
<1>2. /\ liquidityOf' \in [Position -> Liquidities] /\ liquidityOf'[t] = liquidity
      /\ \A u \in Position : u # t => liquidityOf'[u] = liquidityOf[u]
  BY <1>1 DEF ModifyLiquidity, Settle, LPTypeOK
<1>3. PICK id, i, p : id = activeCampaign[t] /\ i = IndexOf(id, t) /\ p = positions[id][i]
  OBVIOUS
<1>4. CASE now >= Deadline \/ id = 0
  <2>1. UNCHANGED ledgerVars
    BY <1>3, <1>4 DEF ModifyLiquidity, Settle
  <2>2. LPTypeOK'
    BY <1>1, <1>2, <2>1 DEF LPTypeOK, ledgerVars
  <2>3. Until' = Until
    BY <1>1 DEF Until
  <2>4. ASSUME NEW k \in 1 .. Len(campaigns), NEW j \in 1 .. Len(positions[k])
        PROVE  CopyAgrees(k, positions[k][j])'
    <3>1. PICK r : r = positions[k][j]
      OBVIOUS
    <3>2. r \in Places /\ CopyAgrees(k, r)
      BY <1>1, <3>1, Typed DEF CopiesAgree
    <3>3. r.token \in Position
      BY <3>2 DEF Places
    <3>4. CASE now >= Deadline
      <4>1. ~(now < Deadline)
        BY <1>1, <3>4, LPAssumption DEF LPTypeOK
      <4> QED BY <1>1, <2>1, <2>3, <3>1, <3>2, <4>1 DEF CopyAgrees, ledgerVars
    <3>5. CASE id = 0
      <4>0. k # 0
        BY <1>1, Typed
      <4>1. r.token = t => ~r.active
        BY <1>3, <3>2, <3>5, <4>0 DEF CopyAgrees
      <4> QED BY <1>1, <1>2, <2>1, <2>3, <3>1, <3>2, <3>3, <4>1 DEF CopyAgrees, ledgerVars
    <3> QED BY <1>4, <3>4, <3>5
  <2>5. CopiesAgree'
    BY <1>1, <2>1, <2>4 DEF CopiesAgree, OncePerToken, HasPlace, ledgerVars
  <2>6. AccountsOK' /\ ExactEverywhere' /\ CursorsOK'
    <3>1. AccountsOK'
      BY <1>1, <2>1, <2>3 DEF LedgerInv, AccountsOK, ledgerVars
    <3>2. ExactEverywhere'
      BY <1>1, <2>1, <2>3 DEF LedgerInv, ExactEverywhere, Exact, DueOf, AccountsTotal, ledgerVars
    <3>3. CursorsOK'
      BY <1>1, <2>1, <2>3 DEF LedgerInv, CursorsOK, Settling, Shares, ledgerVars
    <3> QED BY <3>1, <3>2, <3>3
  <2> QED BY <2>1, <2>2, <2>5, <2>6 DEF LedgerInv, ledgerVars
<1>5. CASE ~(now >= Deadline \/ id = 0)
  <2>1. /\ id \in 1 .. Len(campaigns) /\ i \in 1 .. Len(positions[id]) /\ p.token = t /\ p.active
    BY <1>1, <1>3, <1>5, PlaceOf
  <2>2. p \in Places /\ Until \in Nat /\ CopyAgrees(id, p) /\ campaigns[id] \in Campaigns
    BY <1>1, <1>3, <2>1, Typed, UntilIs DEF LPTypeOK, CopiesAgree
  <2>3. PICK price, q : /\ price = campaigns[id].price
                        /\ q = Rated([Settled(p) EXCEPT !.liquidity = liquidity], price)
    OBVIOUS
  <2>4. Value(liquidity, price) \in Nat
    <3>1. price \in Prices
      BY <2>2, <2>3 DEF Campaigns
    <3> QED BY <3>1, LPAssumption
  <2>5. /\ q \in Places /\ q.token = t /\ q.owner = p.owner /\ q.settledAt = Until
        /\ q.rate = Value(liquidity, price) /\ q.active /\ q.liquidity = liquidity
    <3>1. PICK u, r : u = Until /\ r = Value(liquidity, price)
      OBVIOUS
    <3>2. u \in Nat /\ r \in Nat
      BY <2>2, <2>4, <3>1
    <3>3. q = [[[p EXCEPT !.settledAt = u] EXCEPT !.liquidity = liquidity] EXCEPT !.rate = r]
      <4>1. [[p EXCEPT !.settledAt = u] EXCEPT !.liquidity = liquidity].liquidity = liquidity
        BY <2>2 DEF Places
      <4> QED BY <2>3, <3>1, <4>1 DEF Rated, Settled
    <3>4. q \in Places /\ q.token = p.token /\ q.owner = p.owner /\ q.settledAt = u
      BY ONLY <2>2, <3>2, <3>3, liquidity \in Liquidities DEF Places
    <3>5. q.rate = r /\ q.active = p.active /\ q.liquidity = liquidity
      BY ONLY <2>2, <3>2, <3>3, liquidity \in Liquidities DEF Places
    <3> QED BY <2>1, <3>1, <3>4, <3>5
  <2>6. Becomes(id, t, q) /\ UNCHANGED activeCampaign
    <3>1. /\ accrued' = [accrued EXCEPT ![id] = [v \in Provider |-> @[v] + PendingOf(id, {i}, v)]]
          /\ campaigns' = [campaigns EXCEPT ![id].totalAccrued = @ + PendingAll(id, {i})]
          /\ UNCHANGED <<activeCampaign, accounts>>
      BY <1>3, <1>5 DEF ModifyLiquidity, Settle
    <3>2. positions' = [positions EXCEPT ![id] = [j \in DOMAIN @ |->
            IF j \in {i} THEN Rated([Settled(@[j]) EXCEPT !.liquidity = liquidity], price) ELSE @[j]]]
      BY <1>3, <1>5, <2>3 DEF ModifyLiquidity, Settle
    <3>3. PICK ps : ps = positions[id]
      OBVIOUS
    <3>4. [j \in DOMAIN ps |-> IF j \in {i} THEN Rated([Settled(ps[j]) EXCEPT !.liquidity = liquidity], price) ELSE ps[j]]
            = [j \in DOMAIN ps |-> IF j \in {i} THEN q ELSE ps[j]]
      BY ONLY <1>3, <2>3, <3>3
    <3>5. positions' = [positions EXCEPT ![id] = [j \in DOMAIN @ |-> IF j \in {i} THEN q ELSE @[j]]]
      BY ONLY <3>2, <3>3, <3>4
    <3> QED BY <1>1, <1>3, <3>1, <3>5 DEF Becomes
  <2>7. Len(campaigns') = Len(campaigns)
    BY <1>1, <2>1, <2>6, BecomesLen
  <2>8. MarketOK' /\ OthersStay(t) /\ activeCampaign'[t] = id
    BY <1>1, <1>2, <1>3, <2>6, <2>7 DEF MarketOK, OthersStay, LPTypeOK
  <2>9. campaigns'[id].price = price
    <3>1. PICK c, s : /\ c = campaigns[id]
                      /\ s = [c EXCEPT !.totalAccrued = @ + PendingAll(id, {IndexOf(id, t)})]
      OBVIOUS
    <3>2. campaigns' = [campaigns EXCEPT ![id] = s]
      BY <2>6, <3>1 DEF Becomes
    <3>3. s.price = c.price
      BY <2>2, <3>1 DEF Campaigns
    <3> QED BY <1>1, <2>1, <2>3, <3>1, <3>2, <3>3, Typed
  <2>10. CopyAgrees(id, q)'
    <3>1. Until' = Until
      BY <1>1 DEF Until
    <3>2. Until <= Until
      BY <2>2
    <3>3. q.owner = ownerOf'[t] /\ liquidityOf'[t] = q.liquidity
      BY <1>1, <1>2, <2>1, <2>2, <2>5 DEF CopyAgrees
    <3> QED BY <2>5, <2>8, <2>9, <3>1, <3>2, <3>3 DEF CopyAgrees
  <2>11. LPTypeOK' /\ CopiesAgree' /\ Settles(id, {i}) /\ SameTerms(id)
    BY <1>1, <1>3, <2>1, <2>5, <2>6, <2>8, <2>10, OneSettles
  <2> QED BY <2>1, <2>11, SettlingKeeps
<1> QED BY <1>4, <1>5

TokensStay(ps, qs) == \A i \in 1 .. Len(ps) : qs[i].token = ps[i].token

AllAgree(id, qs) == \A i \in 1 .. Len(qs) : CopyAgrees(id, qs[i])

\* Positions of one campaign are settled while the market stands still.
LEMMA ManySettle ==
  ASSUME LPTypeOK, CopiesAgree, NEW id \in 1 .. Len(campaigns), NEW I,
         NEW qs \in Seq(Places), SettlesTo(positions[id], qs, Until, I), TokensStay(positions[id], qs),
         NEW s \in Campaigns, s.totalAccrued = campaigns[id].totalAccrued + PendingAll(id, I),
         Writes(id, I, qs, s), UNCHANGED <<activeCampaign, marketVars>>, AllAgree(id, qs)'
  PROVE  LPTypeOK' /\ CopiesAgree' /\ Settles(id, I) /\ campaigns'[id] = s /\ positions'[id] = qs
<1>1. (MarketOK' => LPTypeOK') /\ Settles(id, I) /\ campaigns'[id] = s /\ positions'[id] = qs
  BY StepSettles
<1>2. /\ Len(campaigns') = Len(campaigns) /\ SameElsewhere(id) /\ now' = now /\ Until' = Until
      /\ UNCHANGED <<activeCampaign, ownerOf, liquidityOf, slot0>>
      /\ Len(qs) = Len(positions[id])
  BY <1>1 DEF Settles, SettlesTo, Until, marketVars
<1>3. LPTypeOK'
  BY <1>1, <1>2 DEF MarketOK, LPTypeOK
<1>4. ASSUME NEW k \in 1 .. Len(campaigns), NEW j \in 1 .. Len(positions'[k])
      PROVE  CopyAgrees(k, positions[k][j])'
  <2>1. CASE k = id
    <3>1. j \in 1 .. Len(qs) /\ positions'[k][j] = qs[j]
      BY <1>1, <2>1
    <3>2. CopyAgrees(id, qs[j])'
      BY <3>1 DEF AllAgree
    <3> QED BY <2>1, <3>1, <3>2 DEF CopyAgrees
  <2>2. CASE k # id
    <3>1. positions'[k] = positions[k] /\ campaigns'[k] = campaigns[k]
      BY <1>2, <2>2 DEF SameElsewhere
    <3>2. CopyAgrees(k, positions[k][j])
      BY <3>1 DEF CopiesAgree
    <3> QED BY <1>2, <3>1, <3>2 DEF CopyAgrees
  <2> QED BY <2>1, <2>2
<1>5. ASSUME NEW k \in 1 .. Len(campaigns)
      PROVE  /\ OncePerToken(k)' /\ Len(positions'[k]) = Len(positions[k])
             /\ \A j \in 1 .. Len(positions[k]) : positions'[k][j].token = positions[k][j].token
  <2>1. OncePerToken(k)
    BY DEF CopiesAgree
  <2>2. CASE k = id
    BY <1>1, <1>2, <2>1, <2>2 DEF OncePerToken, TokensStay
  <2>3. CASE k # id
    BY <1>2, <2>1, <2>3 DEF OncePerToken, SameElsewhere
  <2> QED BY <2>2, <2>3
<1>6. ASSUME NEW t \in Position, activeCampaign[t] # 0 PROVE HasPlace(activeCampaign[t], t)'
  <2>1. HasPlace(activeCampaign[t], t) /\ activeCampaign[t] \in 1 .. Len(campaigns)
    BY <1>6, PlaceOf DEF CopiesAgree
  <2> QED BY <1>2, <1>5, <2>1 DEF HasPlace
<1> QED BY <1>1, <1>2, <1>3, <1>4, <1>5, <1>6 DEF CopiesAgree

LEMMA PriceKeeps ==
  ASSUME LedgerInv, NEW id \in 1 .. Len(campaigns), NEW price \in Prices, NEW block \in Nat,
         NEW at, NEW ph, SetPrice(ph, id, price, block, at)
  PROVE  LedgerInv' /\ \E I : Settles(id, I) /\ SameTerms(id)
<1>1. PICK ps, n, c, u : /\ ps = positions[id] /\ n = Len(positions[id])
                         /\ c = campaigns[id] /\ u = Until
  OBVIOUS
<1>2. LPTypeOK /\ CopiesAgree
  BY DEF LedgerInv
<1>3. /\ ps \in Seq(Places) /\ n \in Nat /\ DOMAIN ps = 1 .. n /\ c \in Campaigns /\ u \in Nat
      /\ \A i \in 1 .. n : ps[i] \in Places
  BY <1>1, <1>2, Typed, UntilIs DEF LPTypeOK
<1>4. ASSUME NEW i \in 1 .. n PROVE CopyAgrees(id, ps[i])
  BY <1>1, <1>2 DEF CopiesAgree
<1>5. PICK qs : qs = [i \in 1 .. n |-> IF ps[i].active THEN Rated(Settled(ps[i]), price) ELSE Settled(ps[i])]
  OBVIOUS
<1>6. ASSUME NEW i \in 1 .. n
      PROVE  /\ qs[i] \in Places /\ qs[i].token = ps[i].token /\ qs[i].owner = ps[i].owner
             /\ qs[i].settledAt = u /\ qs[i].active = ps[i].active
             /\ qs[i].liquidity = ps[i].liquidity
             /\ qs[i].rate = IF ps[i].active THEN Value(ps[i].liquidity, price) ELSE ps[i].rate
  <2>1. PICK p, r : p = ps[i] /\ r = Value(ps[i].liquidity, price)
    OBVIOUS
  <2>2. p \in Places
    BY <1>3, <2>1
  <2>3. CASE p.active
    <3>1. r \in Nat
      BY <1>4, <2>1, <2>3, LPAssumption DEF CopyAgrees
    <3>2. qs[i] = [[p EXCEPT !.settledAt = u] EXCEPT !.rate = r]
      <4>1. PICK d : d = [p EXCEPT !.settledAt = u]
        OBVIOUS
      <4>2. d.liquidity = p.liquidity
        BY <2>2, <4>1 DEF Places
      <4>3. qs[i] = Rated(d, price)
        BY <1>1, <1>5, <2>1, <2>3, <4>1 DEF Settled
      <4>4. Rated(d, price) = [d EXCEPT !.rate = r]
        BY <2>1, <4>2 DEF Rated
      <4> QED BY <4>1, <4>3, <4>4
    <3>3. /\ qs[i] \in Places /\ qs[i].token = p.token /\ qs[i].owner = p.owner
          /\ qs[i].settledAt = u
      BY ONLY <1>3, <2>2, <3>1, <3>2 DEF Places
    <3>4. qs[i].active = p.active /\ qs[i].liquidity = p.liquidity /\ qs[i].rate = r
      BY ONLY <1>3, <2>2, <3>1, <3>2 DEF Places
    <3> QED BY <2>1, <2>3, <3>3, <3>4
  <2>4. CASE ~p.active
    <3>1. qs[i] = [p EXCEPT !.settledAt = u]
      BY <1>1, <1>5, <2>1, <2>4 DEF Settled
    <3>2. /\ qs[i] \in Places /\ qs[i].token = p.token /\ qs[i].owner = p.owner
          /\ qs[i].settledAt = u
      BY ONLY <1>3, <2>2, <3>1 DEF Places
    <3>3. qs[i].active = p.active /\ qs[i].liquidity = p.liquidity /\ qs[i].rate = p.rate
      BY ONLY <1>3, <2>2, <3>1 DEF Places
    <3> QED BY <2>1, <2>4, <3>2, <3>3
  <2> QED BY <2>3, <2>4
<1>7. qs \in Seq(Places) /\ Len(qs) = n
  <2>1. qs \in [1 .. n -> Places]
    BY <1>5, <1>6
  <2> QED BY <1>3, <2>1, FunctionIsSeq
<1>8. PICK I : I = DOMAIN positions[id]
  OBVIOUS
<1>9. SettlesTo(ps, qs, u, I) /\ TokensStay(ps, qs)
  BY <1>1, <1>3, <1>6, <1>7, <1>8 DEF SettlesTo, Settled1, TokensStay
<1>20. PICK x : x = c.totalAccrued + PendingAll(id, I)
  OBVIOUS
<1>10. PICK s : s = [c EXCEPT !.totalAccrued = x, !.price = price, !.sourceBlock = block, !.updatedAt = now]
  OBVIOUS
<1>11. /\ s \in Campaigns /\ s.totalAccrued = x /\ s.price = price
       /\ s.amount = c.amount /\ s.settleCursor = c.settleCursor
       /\ s.allocationCursor = c.allocationCursor /\ s.allocated = c.allocated
  <2>1. PendingAll(id, I) \in Nat /\ c.totalAccrued \in Nat /\ now \in Nat
    BY <1>2, <1>3, PendingNat DEF Campaigns, LPTypeOK
  <2>2. x \in Nat
    BY <1>20, <2>1
  <2>3. s \in Campaigns /\ s.totalAccrued = x /\ s.price = price
    BY ONLY <1>3, <1>10, <2>1, <2>2, price \in Prices, block \in Nat DEF Campaigns
  <2>4. /\ s.amount = c.amount /\ s.settleCursor = c.settleCursor
        /\ s.allocationCursor = c.allocationCursor /\ s.allocated = c.allocated
    BY ONLY <1>3, <1>10, <2>1, <2>2, price \in Prices, block \in Nat DEF Campaigns
  <2> QED BY <2>3, <2>4
<1>12. Writes(id, I, qs, s) /\ UNCHANGED <<activeCampaign, marketVars>>
  <2>1. UNCHANGED <<now, accounts, earned, activeCampaign, marketVars>>
    BY DEF SetPrice, Settle
  <2>2. accrued' = [accrued EXCEPT ![id] = [v \in Provider |-> @[v] + PendingOf(id, I, v)]]
    BY <1>8 DEF SetPrice, Settle
  <2>3. positions' = [positions EXCEPT ![id] = qs]
    <3>1. positions' = [positions EXCEPT ![id] =
            [i \in DOMAIN @ |-> IF i \in DOMAIN positions[id]
               THEN IF Settled(@[i]).active THEN Rated(Settled(@[i]), price) ELSE Settled(@[i]) ELSE @[i]]]
      BY DEF SetPrice, Settle
    <3>2. ASSUME NEW i \in 1 .. n PROVE Settled(ps[i]).active = ps[i].active
      BY <1>3 DEF Settled, Places
    <3>3. qs = [i \in DOMAIN ps |-> IF i \in DOMAIN ps
               THEN IF Settled(ps[i]).active THEN Rated(Settled(ps[i]), price) ELSE Settled(ps[i]) ELSE ps[i]]
      BY <1>3, <1>5, <3>2
    <3> QED BY <1>1, <3>1, <3>3
  <2>4. campaigns' = [campaigns EXCEPT ![id] = s]
    <3>1. campaigns' = [campaigns EXCEPT ![id] = [campaigns[id] EXCEPT
            !.totalAccrued = @ + PendingAll(id, DOMAIN positions[id]),
            !.price = price, !.sourceBlock = block, !.updatedAt = now]]
      BY DEF SetPrice, Settle
    <3> QED BY ONLY <1>1, <1>8, <1>20, <1>10, <3>1
  <2> QED BY <2>1, <2>2, <2>3, <2>4 DEF Writes
<1>13. campaigns'[id] = s /\ Until' = Until /\ now' = now
  BY <1>2, <1>12 DEF Writes, Until, LPTypeOK
<1>14. AllAgree(id, qs)'
  <2> SUFFICES ASSUME NEW i \in 1 .. Len(qs) PROVE CopyAgrees(id, qs[i])'
    BY DEF AllAgree
  <2>1. i \in 1 .. n
    BY <1>7
  <2>2. CopyAgrees(id, ps[i])
    BY <1>4, <2>1
  <2>3. u <= u
    BY <1>3
  <2> QED BY <1>1, <1>6, <1>11, <1>12, <1>13, <2>1, <2>2, <2>3 DEF CopyAgrees, marketVars
<1>15. LPTypeOK' /\ CopiesAgree' /\ Settles(id, I)
  BY <1>1, <1>2, <1>7, <1>9, <1>20, <1>11, <1>12, <1>14, ManySettle
<1>16. SameTerms(id)
  BY <1>1, <1>11, <1>13 DEF SameTerms
<1> QED BY <1>15, <1>16, SettlingKeeps

SubscribedStay ==
  \A u \in Position : activeCampaign[u] # 0 => ownerOf'[u] = ownerOf[u] /\ liquidityOf'[u] = liquidityOf[u]

\* The market moves, and no subscribed position with it.
LEMMA MarketMoves ==
  ASSUME LedgerInv, UNCHANGED <<now, ledgerVars, earned>>, MarketOK', SubscribedStay
  PROVE  LedgerInv'
<1>1. LPTypeOK /\ CopiesAgree
  BY DEF LedgerInv
<1>2. UNCHANGED ledgerVars /\ now' = now /\ earned' = earned
  OBVIOUS
<1>3. LPTypeOK'
  BY <1>1, <1>2 DEF LPTypeOK, MarketOK, ledgerVars
<1>4. Until' = Until
  BY <1>2 DEF Until
<1>5. ASSUME NEW k \in 1 .. Len(campaigns), NEW j \in 1 .. Len(positions[k])
      PROVE  CopyAgrees(k, positions[k][j])'
  <2>1. PICK r : r = positions[k][j]
    OBVIOUS
  <2>2. r \in Places /\ CopyAgrees(k, r)
    BY <1>1, <2>1, Typed DEF CopiesAgree
  <2>3. r.token \in Position /\ k # 0
    BY <1>1, <2>2, Typed DEF Places
  <2>4. r.active => ownerOf'[r.token] = ownerOf[r.token] /\ liquidityOf'[r.token] = liquidityOf[r.token]
    BY <2>2, <2>3 DEF SubscribedStay, CopyAgrees
  <2> QED BY <1>2, <1>4, <2>1, <2>2, <2>4 DEF CopyAgrees, ledgerVars
<1>6. CopiesAgree'
  BY <1>1, <1>2, <1>5 DEF CopiesAgree, OncePerToken, HasPlace, ledgerVars
<1>7. AccountsOK' /\ ExactEverywhere' /\ CursorsOK'
  <2>1. AccountsOK'
    BY <1>2, <1>4 DEF LedgerInv, AccountsOK, ledgerVars
  <2>2. ExactEverywhere'
    BY <1>2, <1>4 DEF LedgerInv, ExactEverywhere, Exact, DueOf, AccountsTotal, ledgerVars
  <2>3. CursorsOK'
    BY <1>2, <1>4 DEF LedgerInv, CursorsOK, Settling, Shares, ledgerVars
  <2> QED BY <2>1, <2>2, <2>3
<1> QED BY <1>3, <1>6, <1>7 DEF LedgerInv

\* A step on one campaign that leaves its terms alone, or touches none.
TermsKept ==
  \/ UNCHANGED campaigns
  \/ \E id \in 1 .. Len(campaigns) : \E I : Settles(id, I) /\ SameTerms(id)

LEMMA TransferKeeps ==
  ASSUME LedgerInv, NEW t \in Position, NEW to \in Provider, Transfer(t, to)
  PROVE  LedgerInv' /\ TermsKept
<1>1. /\ LPTypeOK /\ UNCHANGED <<now, liquidityOf, slot0, earned>>
      /\ ownerOf' = [ownerOf EXCEPT ![t] = to]
  BY DEF LedgerInv, Transfer
<1>2. ownerOf' \in [Position -> Provider] /\ OwnersStay(t)
  BY <1>1 DEF LPTypeOK, OwnersStay
<1>3. CASE activeCampaign[t] = 0
  <2>1. UNCHANGED ledgerVars
    BY <1>3 DEF Transfer
  <2>2. MarketOK'
    BY <1>1, <1>2, <2>1 DEF MarketOK, LPTypeOK, ledgerVars
  <2>3. SubscribedStay
    BY <1>1, <1>2, <1>3 DEF SubscribedStay, OwnersStay
  <2>4. LedgerInv'
    BY <1>1, <2>1, <2>2, <2>3, MarketMoves
  <2> QED BY <2>1, <2>4 DEF TermsKept, ledgerVars
<1>4. CASE activeCampaign[t] # 0
  <2>1. Stop(t)
    BY <1>4 DEF Transfer
  <2> QED BY <1>1, <1>2, <2>1, StopKeeps DEF TermsKept
<1> QED BY <1>3, <1>4

LEMMA UnsubscribeKeeps ==
  ASSUME LedgerInv, NEW t \in Position, Unsubscribe(t)
  PROVE  LedgerInv' /\ TermsKept
<1>1. Stop(t) /\ UNCHANGED <<now, earned, slot0, liquidityOf>> /\ ownerOf' = ownerOf
  BY DEF Unsubscribe, marketVars
<1>2. ownerOf' \in [Position -> Provider] /\ OwnersStay(t)
  BY <1>1 DEF LPTypeOK, OwnersStay, LedgerInv
<1> QED BY <1>1, <1>2, StopKeeps DEF TermsKept

LEMMA MovePriceKeeps ==
  ASSUME LedgerInv, NEW k \in LPPool, NEW price \in Prices, MovePrice(k, price)
  PROVE  LedgerInv' /\ UNCHANGED campaigns
<1>1. /\ LPTypeOK /\ UNCHANGED <<now, ledgerVars, liquidityOf, ownerOf, earned>>
      /\ slot0' = [slot0 EXCEPT ![k] = price]
  BY DEF LedgerInv, MovePrice
<1>2. MarketOK' /\ SubscribedStay /\ UNCHANGED campaigns
  BY <1>1 DEF MarketOK, SubscribedStay, LPTypeOK, ledgerVars
<1> QED BY <1>1, <1>2, MarketMoves

-----------------------------------------------------------------------------
(* Subscribing.                                                            *)

\* A place that replaces one which earned nothing adds nothing to what is due.
LEMMA ReplacedDue ==
  ASSUME NEW ps \in Seq(Places), NEW i \in 1 .. Len(ps), NEW p \in Places, NEW u \in Nat,
         p.settledAt = u, ps[i].rate = 0, NEW v
  PROVE  Due([ps EXCEPT ![i] = p], u, 1 .. Len(ps), v) = Due(ps, u, 1 .. Len(ps), v)
<1>1. PICK qs, n : qs = [ps EXCEPT ![i] = p] /\ n = Len(ps)
  OBVIOUS
<1>2. Len(qs) = n /\ n \in Nat /\ \A j \in 1 .. n : qs[j] = IF j = i THEN p ELSE ps[j]
  BY <1>1
<1>3. ps[i].rate * (u - ps[i].settledAt) = 0 /\ p.rate * (u - p.settledAt) = 0
  <2>1. ps[i] \in Places
    OBVIOUS
  <2>2. ps[i].settledAt \in Nat /\ p.rate \in Nat
    BY <2>1 DEF Places
  <2>3. PICK a, b : a = u - ps[i].settledAt /\ b = p.rate
    OBVIOUS
  <2>4. a \in Int /\ b \in Nat /\ u - u = 0
    BY <2>2, <2>3
  <2>5. 0 * a = 0 /\ b * 0 = 0
    BY ONLY <2>4
  <2> QED BY <2>3, <2>4, <2>5
<1>4. ASSUME NEW j \in 1 .. n PROVE Due(qs, u, 1 .. n, v)[j] = Due(ps, u, 1 .. n, v)[j]
  <2>1. CASE j = i
    BY <1>1, <1>2, <1>3, <2>1 DEF Due
  <2>2. CASE j # i
    BY <1>1, <1>2, <2>2 DEF Due
  <2> QED BY <2>1, <2>2
<1>5. Due(qs, u, 1 .. n, v) = Due(ps, u, 1 .. n, v)
  BY <1>1, <1>2, <1>4 DEF Due
<1> QED BY <1>1, <1>5

\* Nor does one more place, settled now.
LEMMA AppendedDue ==
  ASSUME NEW ps \in Seq(Places), NEW p \in Places, NEW u \in Nat, SettledBy(ps, u),
         p.settledAt = u, NEW v
  PROVE  Sum(Due(Append(ps, p), u, 1 .. Len(ps) + 1, v), Len(ps) + 1) =
           Sum(Due(ps, u, 1 .. Len(ps), v), Len(ps))
<1>1. PICK qs, n : qs = Append(ps, p) /\ n = Len(ps)
  OBVIOUS
<1>2. /\ Len(qs) = n + 1 /\ n \in Nat /\ n + 1 \in 1 .. n + 1 /\ qs[n + 1] = p
      /\ \A j \in 1 .. n : qs[j] = ps[j] /\ j \in 1 .. n + 1
  BY <1>1
<1>3. PICK f, g : f = Due(qs, u, 1 .. n + 1, v) /\ g = Due(ps, u, 1 .. n, v)
  OBVIOUS
<1>4. g \in [1 .. n -> Int]
  BY <1>1, <1>3, DueNat
<1>5. f[n + 1] = 0
  <2>1. p.rate \in Nat /\ u - u = 0
    BY DEF Places
  <2>2. PICK b : b = p.rate
    OBVIOUS
  <2>3. b * 0 = 0
    BY <2>1, <2>2
  <2> QED BY <1>2, <1>3, <2>1, <2>2, <2>3 DEF Due
<1>6. ASSUME NEW j \in 1 .. n PROVE f[j] = g[j]
  BY <1>1, <1>2, <1>3 DEF Due
<1>7. f \in [1 .. n + 1 -> Int]
  <2>1. ASSUME NEW j \in 1 .. n + 1 PROVE f[j] \in Int
    <3>1. CASE j = n + 1
      BY <1>5, <3>1
    <3>2. CASE j # n + 1
      <4>1. j \in 1 .. n
        BY <1>2, <3>2
      <4> QED BY <1>4, <1>6, <4>1
    <3> QED BY <3>1, <3>2
  <2> QED BY <1>2, <1>3, <2>1 DEF Due
<1>8. Sum(f, n + 1) = Sum(g, n) + f[n + 1]
  BY <1>2, <1>4, <1>6, <1>7, SumExtends
<1>9. Sum(g, n) \in Int
  BY <1>2, <1>4, SumInt
<1> QED BY <1>1, <1>3, <1>5, <1>8, <1>9

LEMMA AppendIs ==
  ASSUME NEW S, NEW s \in Seq(S), NEW x \in S
  PROVE  /\ Append(s, x) \in Seq(S) /\ Len(s) \in Nat /\ Len(Append(s, x)) = Len(s) + 1
         /\ DOMAIN s = 1 .. Len(s) /\ DOMAIN Append(s, x) = 1 .. Len(s) + 1
         /\ Append(s, x)[Len(s) + 1] = x
         /\ \A j \in 1 .. Len(s) : Append(s, x)[j] = s[j] /\ s[j] \in S
<1>1. s \in [1 .. Len(s) -> S] /\ Len(s) \in Nat
  BY LenProperties
<1>2. /\ Append(s, x) \in Seq(S) /\ Len(Append(s, x)) = Len(s) + 1
      /\ \A i \in 1 .. Len(s) : Append(s, x)[i] = s[i]
      /\ Append(s, x)[Len(s) + 1] = x
  BY AppendProperties
<1>3. DOMAIN Append(s, x) = 1 .. Len(s) + 1
  BY <1>2, LenProperties
<1> QED BY <1>1, <1>2, <1>3

WithAccount(as, v) == IF Contains(as, v) THEN as ELSE Append(as, v)

Totalled(a, as) == Sum([i \in 1 .. Len(as) |-> a[as[i]]], Len(as))

\* An owner who had nothing gets an account.
LEMMA AccountAdded ==
  ASSUME NEW as \in Seq(Provider), Distinct(as), NEW v \in Provider,
         NEW a \in [Provider -> Nat], a[v] # 0 => Contains(as, v)
  PROVE  LET bs == WithAccount(as, v)
         IN  /\ bs \in Seq(Provider) /\ Distinct(bs) /\ Contains(bs, v)
             /\ \A w \in Provider : Contains(as, w) => Contains(bs, w)
             /\ Totalled(a, bs) = Totalled(a, as)
<1>1. CASE Contains(as, v)
  BY <1>1 DEF WithAccount
<1>2. CASE ~Contains(as, v)
  <2>1. PICK bs, n : bs = Append(as, v) /\ n = Len(as)
    OBVIOUS
  <2>2. /\ bs \in Seq(Provider) /\ n \in Nat /\ Len(bs) = n + 1 /\ bs[n + 1] = v
        /\ DOMAIN bs = 1 .. n + 1 /\ DOMAIN as = 1 .. n /\ n + 1 \in 1 .. n + 1
        /\ \A j \in 1 .. n : bs[j] = as[j] /\ as[j] \in Provider /\ j \in 1 .. n + 1
    <3>1. /\ bs \in Seq(Provider) /\ n \in Nat /\ Len(bs) = n + 1 /\ bs[n + 1] = v
          /\ DOMAIN bs = 1 .. n + 1 /\ DOMAIN as = 1 .. n
          /\ \A j \in 1 .. n : bs[j] = as[j] /\ as[j] \in Provider
      <4>1. /\ Append(as, v) \in Seq(Provider) /\ Len(as) \in Nat /\ Len(Append(as, v)) = Len(as) + 1
            /\ DOMAIN as = 1 .. Len(as) /\ DOMAIN Append(as, v) = 1 .. Len(as) + 1
            /\ Append(as, v)[Len(as) + 1] = v
            /\ \A j \in 1 .. Len(as) : Append(as, v)[j] = as[j] /\ as[j] \in Provider
        BY ONLY as \in Seq(Provider), v \in Provider, AppendIs
      <4> QED BY ONLY <2>1, <4>1
    <3>2. n + 1 \in 1 .. n + 1 /\ \A j \in 1 .. n : j \in 1 .. n + 1
      BY <3>1
    <3> QED BY <3>1, <3>2
  <2>3. Distinct(bs)
    <3> SUFFICES ASSUME NEW i \in 1 .. n + 1, NEW j \in 1 .. n + 1, bs[i] = bs[j] PROVE i = j
      BY <2>2 DEF Distinct
    <3>1. \A k \in 1 .. n : as[k] # v
      BY <1>2, <2>2 DEF Contains
    <3>2. \A k \in 1 .. n + 1 : k \in 1 .. n \/ k = n + 1
      BY <2>2
    <3>4. CASE i = n + 1
      BY <2>2, <3>1, <3>2, <3>4
    <3>5. CASE j = n + 1
      BY <2>2, <3>1, <3>2, <3>5
    <3>3. CASE i # n + 1 /\ j # n + 1
      <4>1. i \in 1 .. n /\ j \in 1 .. n
        BY <3>2, <3>3
      <4>2. as[i] = as[j]
        BY <2>2, <4>1
      <4> QED BY <2>2, <4>1, <4>2 DEF Distinct
    <3> QED BY <3>3, <3>4, <3>5
  <2>4. Contains(bs, v) /\ \A w \in Provider : Contains(as, w) => Contains(bs, w)
    <3>1. Contains(bs, v)
      BY <2>2 DEF Contains
    <3>2. ASSUME NEW w \in Provider, Contains(as, w) PROVE Contains(bs, w)
      <4>1. PICK i \in 1 .. n : as[i] = w
        BY <2>2, <3>2 DEF Contains
      <4> QED BY <2>2, <4>1 DEF Contains
    <3> QED BY <3>1, <3>2
  <2>5. PICK f, g : f = [i \in 1 .. n + 1 |-> a[bs[i]]] /\ g = [i \in 1 .. n |-> a[as[i]]]
    OBVIOUS
  <2>6. /\ f \in [1 .. n + 1 -> Int] /\ g \in [1 .. n -> Int] /\ f[n + 1] = 0
        /\ \A i \in 1 .. n : f[i] = g[i]
    <3>1. \A i \in 1 .. n + 1 : bs[i] \in Provider
      BY <2>2
    <3>2. f \in [1 .. n + 1 -> Int]
      <4>1. ASSUME NEW i \in 1 .. n + 1 PROVE a[bs[i]] \in Int
        BY <3>1
      <4> QED BY <2>5, <4>1
    <3>3. g \in [1 .. n -> Int]
      <4>1. ASSUME NEW i \in 1 .. n PROVE a[as[i]] \in Int
        <5>1. as[i] \in Provider
          BY <2>2
        <5>2. ASSUME NEW w \in Provider PROVE a[w] \in Int
          BY ONLY w \in Provider, a \in [Provider -> Nat]
        <5> QED BY ONLY <5>1, <5>2, Zenon
      <4> QED BY <2>5, <4>1
    <3>4. f[n + 1] = 0
      BY <1>2, <2>2, <2>5
    <3>5. ASSUME NEW i \in 1 .. n PROVE f[i] = g[i]
      <4>1. bs[i] = as[i] /\ i \in 1 .. n + 1
        BY <2>2
      <4> QED BY <2>5, <4>1
    <3> QED BY <3>2, <3>3, <3>4, <3>5
  <2>7. Sum(f, n + 1) = Sum(g, n) + f[n + 1] /\ Sum(g, n) \in Int
    BY <2>2, <2>6, SumExtends, SumInt
  <2>8. Totalled(a, bs) = Totalled(a, as)
    <3>1. Totalled(a, bs) = Sum(f, n + 1) /\ Totalled(a, as) = Sum(g, n)
      BY <2>1, <2>2, <2>5 DEF Totalled
    <3> QED BY <2>6, <2>7, <3>1
  <2> QED BY <1>2, <2>1, <2>2, <2>3, <2>4, <2>8 DEF WithAccount
<1> QED BY <1>1, <1>2

\* While the vote is open no cursor has moved and nothing is allocated.
LEMMA NothingAllocatedYet ==
  ASSUME LPTypeOK, CursorsOK, now < Deadline, NEW id \in 1 .. Len(campaigns)
  PROVE  /\ campaigns[id].settleCursor = 0 /\ campaigns[id].allocationCursor = 0
         /\ campaigns[id].allocated = 0
<1>1. PICK c, s : c = campaigns[id].settleCursor /\ s = campaigns[id].allocationCursor
  OBVIOUS
<1>2. c \in Nat /\ s \in Nat /\ now \in Nat
  BY <1>1, Typed DEF Campaigns, LPTypeOK
<1>3. c > 0 \/ s > 0 => now >= Deadline
  BY <1>1 DEF CursorsOK, Settling
<1>4. c = 0 /\ s = 0
  BY <1>2, <1>3, LPAssumption
<1>5. campaigns[id].allocated = PrefixSum(Shares(id), Len(accounts[id]))[0]
  BY <1>1, <1>4 DEF CursorsOK
<1> QED BY <1>1, <1>4, <1>5, SharesNat

\* Fresh: campaigns before the first cursor moves are in order.
LEMMA FreshCursors ==
  (LPTypeOK =>
     \A id \in 1 .. Len(campaigns) :
       campaigns[id].settleCursor = 0 /\ campaigns[id].allocationCursor = 0
         /\ campaigns[id].allocated = 0
       => /\ Settling(id)
          /\ campaigns[id].allocated =
               PrefixSum(Shares(id), Len(accounts[id]))[campaigns[id].allocationCursor])
<1> SUFFICES ASSUME LPTypeOK, NEW id \in 1 .. Len(campaigns),
                    campaigns[id].settleCursor = 0, campaigns[id].allocationCursor = 0,
                    campaigns[id].allocated = 0
             PROVE  /\ Settling(id)
                    /\ campaigns[id].allocated =
                         PrefixSum(Shares(id), Len(accounts[id]))[campaigns[id].allocationCursor]
  OBVIOUS
<1>1. Len(positions[id]) \in Nat /\ Len(accounts[id]) \in Nat
  BY Typed
<1>2. Settling(id)
  BY <1>1 DEF Settling
<1> QED BY <1>2, SharesNat

LEMMA FreshCursorsNext ==
  (LPTypeOK =>
     \A id \in 1 .. Len(campaigns) :
       campaigns[id].settleCursor = 0 /\ campaigns[id].allocationCursor = 0
         /\ campaigns[id].allocated = 0
       => /\ Settling(id)
          /\ campaigns[id].allocated =
               PrefixSum(Shares(id), Len(accounts[id]))[campaigns[id].allocationCursor])'
BY FreshCursors, PTL

\* qs is ps with p for token t, in the place t had or in a new one.
Placed(ps, qs, t, p, k) ==
  /\ k \in 1 .. Len(qs) /\ qs[k] = p
  /\ \A j \in 1 .. Len(qs) : j # k => j \in 1 .. Len(ps) /\ qs[j] = ps[j] /\ ps[j].token # t
  /\ \A j \in 1 .. Len(ps) : j \in 1 .. Len(qs) /\ qs[j].token = ps[j].token

DueAlike(ps, qs, u) ==
  \A w : Sum(Due(qs, u, 1 .. Len(qs), w), Len(qs)) = Sum(Due(ps, u, 1 .. Len(ps), w), Len(ps))

\* The place of a newly subscribed position.
LEMMA PlaceTaken ==
  ASSUME LPTypeOK, CopiesAgree, NEW id \in 1 .. Len(campaigns), NEW t \in Position,
         activeCampaign[t] = 0, NEW p \in Places, p.token = t, p.settledAt = Until,
         NEW qs, qs = IF HasPlace(id, t) THEN [positions[id] EXCEPT ![IndexOf(id, t)] = p]
                      ELSE Append(positions[id], p)
  PROVE  /\ qs \in Seq(Places) /\ DueAlike(positions[id], qs, Until)
         /\ \E k : Placed(positions[id], qs, t, p, k)
<1>1. PICK ps, n, u : ps = positions[id] /\ n = Len(positions[id]) /\ u = Until
  OBVIOUS
<1>2. /\ ps \in Seq(Places) /\ n \in Nat /\ n = Len(ps) /\ DOMAIN ps = 1 .. n /\ u \in Nat
      /\ SettledBy(ps, u)
  BY <1>1, Typed, UntilIs, AllSettledBy DEF LPTypeOK
<1>3. CASE HasPlace(id, t)
  <2>1. PICK i : i = IndexOf(id, t)
    OBVIOUS
  <2>2. i \in 1 .. n /\ ps[i].token = t
    BY <1>1, <1>2, <1>3, <2>1 DEF IndexOf, HasPlace
  <2>3. \A j \in 1 .. n : j # i => ps[j].token # t
    BY <1>1, <2>2 DEF CopiesAgree, OncePerToken
  <2>4. ps[i].rate = 0
    <3>1. CopyAgrees(id, ps[i]) /\ id # 0
      BY <1>1, <2>2, Typed DEF CopiesAgree
    <3> QED BY <2>2, <3>1 DEF CopyAgrees
  <2>5. qs = [ps EXCEPT ![i] = p]
    BY <1>1, <1>3, <2>1
  <2>6. /\ qs \in Seq(Places) /\ Len(qs) = n
        /\ \A j \in 1 .. n : qs[j] = IF j = i THEN p ELSE ps[j]
    BY ONLY <1>2, <2>2, <2>5, p \in Places, ExceptSeq
  <2>7. Placed(ps, qs, t, p, i)
    <3>1. i \in 1 .. Len(qs) /\ qs[i] = p
      BY <2>2, <2>6
    <3>2. ASSUME NEW j \in 1 .. Len(qs), j # i
          PROVE  j \in 1 .. Len(ps) /\ qs[j] = ps[j] /\ ps[j].token # t
      BY <1>2, <2>3, <2>6, <3>2
    <3>3. ASSUME NEW j \in 1 .. Len(ps) PROVE j \in 1 .. Len(qs) /\ qs[j].token = ps[j].token
      <4>1. CASE j = i
        BY <1>2, <2>2, <2>6, <4>1
      <4>2. CASE j # i
        BY <1>2, <2>6, <4>2
      <4> QED BY <4>1, <4>2
    <3> QED BY <3>1, <3>2, <3>3 DEF Placed
  <2>8. ASSUME NEW w PROVE Due(qs, u, 1 .. n, w) = Due(ps, u, 1 .. n, w)
    BY <1>1, <1>2, <2>2, <2>4, <2>5, ReplacedDue
  <2>9. DueAlike(ps, qs, u)
    BY <1>2, <2>6, <2>8 DEF DueAlike
  <2> QED BY <1>1, <2>6, <2>7, <2>9
<1>4. CASE ~HasPlace(id, t)
  <2>1. qs = Append(ps, p)
    BY <1>1, <1>4
  <2>2. /\ Append(ps, p) \in Seq(Places) /\ Len(Append(ps, p)) = Len(ps) + 1
        /\ Append(ps, p)[Len(ps) + 1] = p
        /\ \A j \in 1 .. Len(ps) : Append(ps, p)[j] = ps[j] /\ ps[j] \in Places
    BY ONLY <1>2, p \in Places, AppendIs
  <2>3. /\ qs \in Seq(Places) /\ Len(qs) = n + 1 /\ qs[n + 1] = p
        /\ \A j \in 1 .. n : qs[j] = ps[j]
    BY ONLY <1>2, <2>1, <2>2
  <2>4. \A j \in 1 .. n : ps[j].token # t
    BY <1>1, <1>4 DEF HasPlace
  <2>5. Placed(ps, qs, t, p, n + 1)
    <3>1. n + 1 \in 1 .. n + 1
      BY <1>2
    <3>2. ASSUME NEW j \in 1 .. n + 1, j # n + 1 PROVE j \in 1 .. n
      BY <1>2, <3>2
    <3>3. ASSUME NEW j \in 1 .. n PROVE j \in 1 .. n + 1
      BY <1>2
    <3> QED BY <1>2, <2>3, <2>4, <3>1, <3>2, <3>3 DEF Placed
  <2>6. DueAlike(ps, qs, u)
    <3>1. ASSUME NEW w
          PROVE  Sum(Due(Append(ps, p), u, 1 .. Len(ps) + 1, w), Len(ps) + 1) =
                   Sum(Due(ps, u, 1 .. Len(ps), w), Len(ps))
      BY <1>1, <1>2, AppendedDue
    <3> QED BY <1>2, <2>1, <2>3, <3>1 DEF DueAlike
  <2> QED BY <1>1, <2>3, <2>5, <2>6
<1> QED BY <1>3, <1>4

LEMMA SubscribeKeeps ==
  ASSUME LedgerInv, NEW t \in Position, NEW id \in 1 .. Len(campaigns), NEW ph,
         NotifySubscribe(ph, t, id)
  PROVE  LedgerInv' /\ UNCHANGED campaigns
<1>1. /\ LPTypeOK /\ CopiesAgree /\ AccountsOK /\ ExactEverywhere /\ CursorsOK
      /\ now < Deadline /\ activeCampaign[t] = 0
      /\ UNCHANGED <<now, campaigns, accrued, marketVars, earned>>
      /\ activeCampaign' = [activeCampaign EXCEPT ![t] = id]
  BY DEF LedgerInv, NotifySubscribe
<1>2. PICK ps, as, v, c, u : /\ ps = positions[id] /\ as = accounts[id] /\ v = ownerOf[t]
                             /\ c = campaigns[id] /\ u = Until
  OBVIOUS
<1>3. PICK p : p = [token |-> t, owner |-> v, liquidity |-> liquidityOf[t], settledAt |-> now,
                    rate |-> Value(liquidityOf[t], c.price), active |-> TRUE]
  OBVIOUS
<1>4. /\ c \in Campaigns /\ v \in Provider /\ as \in Seq(Provider) /\ ps \in Seq(Places)
      /\ liquidityOf[t] \in Liquidities /\ now \in Nat /\ u = now
      /\ Until' = Until /\ accrued[id] \in [Provider -> Nat]
  BY <1>1, <1>2, Typed, UntilIs DEF LPTypeOK, Until
<1>5. Value(liquidityOf[t], c.price) \in Nat
  BY <1>4, LPAssumption DEF Campaigns
<1>6. /\ p \in Places /\ p.token = t /\ p.owner = v /\ p.settledAt = u /\ p.active
      /\ p.liquidity = liquidityOf[t] /\ p.rate = Value(liquidityOf[t], c.price)
  BY ONLY <1>3, <1>4, <1>5, t \in Position DEF Places
<1>7. PICK qs : qs = IF HasPlace(id, t) THEN [positions[id] EXCEPT ![IndexOf(id, t)] = p]
                     ELSE Append(positions[id], p)
  OBVIOUS
<1>8. PICK bs : bs = WithAccount(as, v)
  OBVIOUS
<1>9. positions' = [positions EXCEPT ![id] = qs] /\ accounts' = [accounts EXCEPT ![id] = bs]
  <2>1. HasPlace(id, t) <=> \E i \in DOMAIN positions[id] : positions[id][i].token = t
    BY <1>1, Typed DEF HasPlace
  <2>2. accounts' = [accounts EXCEPT ![id] = bs]
    BY <1>2, <1>8 DEF NotifySubscribe, WithAccount, Contains
  <2>3. positions' = [positions EXCEPT ![id] = qs]
    BY <1>2, <1>3, <1>7, <2>1 DEF NotifySubscribe
  <2> QED BY <2>2, <2>3
<1>10. /\ qs \in Seq(Places) /\ DueAlike(ps, qs, u)
       /\ \E k : Placed(ps, qs, t, p, k)
  BY <1>1, <1>2, <1>6, <1>7, PlaceTaken
<1>11. /\ bs \in Seq(Provider) /\ Distinct(bs) /\ Contains(bs, v)
       /\ \A w \in Provider : Contains(as, w) => Contains(bs, w)
       /\ Totalled(accrued[id], bs) = Totalled(accrued[id], as)
  <2>1. Distinct(as) /\ (accrued[id][v] # 0 => Contains(as, v))
    BY <1>1, <1>2, <1>4 DEF AccountsOK
  <2> QED BY <1>4, <1>8, <2>1, AccountAdded
<1>12. /\ positions' \in Seq(Seq(Places)) /\ Len(positions') = Len(campaigns)
       /\ \A k \in 1 .. Len(campaigns) : positions'[k] = IF k = id THEN qs ELSE positions[k]
  <2>1. positions \in Seq(Seq(Places)) /\ Len(positions) = Len(campaigns)
    BY <1>1 DEF LPTypeOK
  <2> QED BY ONLY <1>9, <1>10, <2>1, id \in 1 .. Len(campaigns), ExceptSeq
<1>13. /\ accounts' \in Seq(Seq(Provider)) /\ Len(accounts') = Len(campaigns)
       /\ \A k \in 1 .. Len(campaigns) : accounts'[k] = IF k = id THEN bs ELSE accounts[k]
  <2>1. accounts \in Seq(Seq(Provider)) /\ Len(accounts) = Len(campaigns)
    BY <1>1 DEF LPTypeOK
  <2> QED BY ONLY <1>9, <1>11, <2>1, id \in 1 .. Len(campaigns), ExceptSeq
<1>14. LPTypeOK'
  <2>1. activeCampaign' \in [Position -> 0 .. Len(campaigns)]
    <3>1. id \in 0 .. Len(campaigns)
      BY <1>1, Typed
    <3> QED BY <1>1, <3>1 DEF LPTypeOK
  <2> QED BY <1>1, <1>12, <1>13, <2>1 DEF LPTypeOK, marketVars
<1>15. /\ activeCampaign'[t] = id
       /\ \A w \in Position : w # t => activeCampaign'[w] = activeCampaign[w]
  BY <1>1 DEF LPTypeOK
<1>16. PICK k0 : Placed(ps, qs, t, p, k0)
  BY <1>10
<1>17. ASSUME NEW k \in 1 .. Len(campaigns), NEW r \in Places, CopyAgrees(k, r),
              k # id \/ r.token # t
       PROVE  CopyAgrees(k, r)'
  <2>1. r.token \in Position /\ k # 0
    BY <1>1, Typed DEF Places
  <2>2. (activeCampaign[r.token] = k) <=> (activeCampaign'[r.token] = k)
    BY <1>1, <1>15, <1>17, <2>1
  <2> QED BY <1>1, <1>4, <1>17, <2>2 DEF CopyAgrees, marketVars
<1>18. CopyAgrees(id, p)'
  <2>1. u <= u
    BY <1>4
  <2> QED BY <1>1, <1>2, <1>4, <1>6, <1>15, <2>1 DEF CopyAgrees, marketVars
<1>19. CopiesAgree'
  <2>1. ASSUME NEW k \in 1 .. Len(campaigns), NEW j \in 1 .. Len(positions'[k])
        PROVE  CopyAgrees(k, positions[k][j])'
    <3>1. CASE k # id
      <4>1. positions'[k] = positions[k]
        BY <1>12, <3>1
      <4>2. CopyAgrees(k, positions[k][j]) /\ positions[k][j] \in Places
        BY <1>1, <4>1, Typed DEF CopiesAgree
      <4>3. CopyAgrees(k, positions[k][j])
        BY <4>2
      <4>4. PICK r : r = positions[k][j]
        OBVIOUS
      <4>5. CopyAgrees(k, r)'
        BY <1>17, <3>1, <4>2, <4>4
      <4> QED BY <4>1, <4>4, <4>5 DEF CopyAgrees
    <3>2. CASE k = id
      <4>1. positions'[k] = qs
        BY <1>12, <3>2
      <4>2. PICK r : r = qs[j]
        OBVIOUS
      <4>3. CASE j = k0
        <5>1. r = p
          BY <1>16, <4>2, <4>3 DEF Placed
        <5> QED BY <1>18, <3>2, <4>1, <4>2, <5>1 DEF CopyAgrees
      <4>4. CASE j # k0
        <5>1. j \in 1 .. Len(ps) /\ r = ps[j] /\ r.token # t
          BY <1>16, <4>1, <4>2, <4>4 DEF Placed
        <5>2. CopyAgrees(id, r) /\ r \in Places
          BY <1>1, <1>2, <5>1, Typed DEF CopiesAgree
        <5>3. CopyAgrees(id, r)'
          BY <1>17, <5>1, <5>2
        <5> QED BY <3>2, <4>1, <4>2, <5>3 DEF CopyAgrees
      <4> QED BY <4>3, <4>4
    <3> QED BY <3>1, <3>2
  <2>2. ASSUME NEW k \in 1 .. Len(campaigns) PROVE OncePerToken(k)'
    <3>1. OncePerToken(k)
      BY <1>1 DEF CopiesAgree
    <3>2. CASE k # id
      BY <1>12, <3>1, <3>2 DEF OncePerToken
    <3>3. CASE k = id
      <4>1. positions'[k] = qs
        BY <1>12, <3>3
      <4>2. ASSUME NEW i \in 1 .. Len(qs), NEW j \in 1 .. Len(qs), qs[i].token = qs[j].token
            PROVE  i = j
        <5>1. ASSUME NEW m \in 1 .. Len(qs), m # k0
              PROVE  m \in 1 .. Len(ps) /\ qs[m] = ps[m] /\ qs[m].token # t
          BY <1>16, <5>1 DEF Placed
        <5>2. qs[k0].token = t
          BY <1>6, <1>16 DEF Placed
        <5>3. CASE i = k0 \/ j = k0
          BY <4>2, <5>1, <5>2, <5>3
        <5>4. CASE i # k0 /\ j # k0
          <6>1. i \in 1 .. Len(ps) /\ j \in 1 .. Len(ps) /\ ps[i].token = ps[j].token
            BY <4>2, <5>1, <5>4
          <6> QED BY <1>2, <3>1, <3>3, <6>1 DEF OncePerToken
        <5> QED BY <5>3, <5>4
      <4> QED BY <4>1, <4>2 DEF OncePerToken
    <3> QED BY <3>2, <3>3
  <2>3. ASSUME NEW w \in Position, activeCampaign'[w] # 0
        PROVE  HasPlace(activeCampaign[w], w)'
    <3>1. CASE w = t
      <4>1. positions'[id] = qs /\ k0 \in 1 .. Len(qs) /\ qs[k0].token = t
        BY <1>6, <1>12, <1>16 DEF Placed
      <4> QED BY <1>15, <3>1, <4>1 DEF HasPlace
    <3>2. CASE w # t
      <4>1. PICK k : k = activeCampaign[w]
        OBVIOUS
      <4>2. activeCampaign'[w] = k
        BY <1>15, <3>2, <4>1
      <4>3. HasPlace(k, w) /\ k \in 1 .. Len(campaigns)
        BY <1>1, <2>3, <4>1, <4>2, PlaceOf DEF CopiesAgree
      <4>4. HasPlace(k, w)'
        <5>1. CASE k # id
          BY <1>12, <4>3, <5>1 DEF HasPlace
        <5>2. CASE k = id
          <6>1. positions'[k] = qs
            BY <1>12, <5>2
          <6>2. \E j \in 1 .. Len(ps) : ps[j].token = w
            BY <1>2, <4>3, <5>2 DEF HasPlace
          <6> QED BY <1>16, <6>1, <6>2 DEF Placed, HasPlace
        <5> QED BY <5>1, <5>2
      <4> QED BY <4>2, <4>4 DEF HasPlace
    <3> QED BY <3>1, <3>2
  <2> QED BY <1>1, <2>1, <2>2, <2>3 DEF CopiesAgree
<1>21. AccountsOK'
  <2>1. ASSUME NEW k \in 1 .. Len(campaigns), k # id
        PROVE  positions'[k] = positions[k] /\ accounts'[k] = accounts[k]
    BY <1>12, <1>13, <2>1
  <2>2. positions'[id] = qs /\ accounts'[id] = bs
    BY <1>12, <1>13
  <2>3. OwnersHaveAccounts(qs, bs)
    <3>1. ASSUME NEW j \in 1 .. Len(qs) PROVE Contains(bs, qs[j].owner)
      <4>1. CASE j = k0
        BY <1>6, <1>11, <1>16, <4>1 DEF Placed
      <4>2. CASE j # k0
        <5>1. j \in 1 .. Len(ps) /\ qs[j] = ps[j] /\ ps[j] \in Places
          BY <1>2, <1>1, <1>16, <4>2, Typed DEF Placed
        <5>2. Contains(as, ps[j].owner) /\ ps[j].owner \in Provider
          BY <1>1, <1>2, <5>1 DEF AccountsOK, OwnersHaveAccounts, Places
        <5> QED BY <1>11, <5>1, <5>2
      <4> QED BY <4>1, <4>2
    <3> QED BY <3>1 DEF OwnersHaveAccounts
  <2>4. \A w \in Provider : accrued[id][w] # 0 => Contains(bs, w)
    BY <1>1, <1>2, <1>11 DEF AccountsOK
  <2>5. ASSUME NEW k \in 1 .. Len(campaigns)
        PROVE  /\ Distinct(accounts'[k]) /\ OwnersHaveAccounts(positions'[k], accounts'[k])
               /\ \A w \in Provider : accrued[k][w] # 0 => Contains(accounts'[k], w)
    <3>1. CASE k = id
      BY <1>11, <2>2, <2>3, <2>4, <3>1
    <3>2. CASE k # id
      BY <1>1, <2>1, <3>2 DEF AccountsOK
    <3> QED BY <3>1, <3>2
  <2> QED BY <1>1, <2>5 DEF AccountsOK
<1>22. ExactEverywhere'
  <2>1. ASSUME NEW k \in 1 .. Len(campaigns) PROVE Exact(k)'
    <3>1. Exact(k)
      BY <1>1 DEF ExactEverywhere
    <3>2. CASE k # id
      BY <1>1, <1>4, <1>12, <1>13, <3>1, <3>2 DEF Exact, DueOf, AccountsTotal
    <3>3. CASE k = id
      <4>1. positions'[id] = qs /\ accounts'[id] = bs
        BY <1>12, <1>13
      <4>2. \A w : DueOf(id, w)' = DueOf(id, w)
        BY <1>2, <1>4, <1>10, <4>1 DEF DueOf, DueAlike
      <4>3. AccountsTotal(id)' = AccountsTotal(id)
        BY <1>1, <1>2, <1>11, <4>1 DEF AccountsTotal, Totalled
      <4> QED BY <1>1, <3>1, <3>3, <4>2, <4>3 DEF Exact
    <3> QED BY <3>2, <3>3
  <2> QED BY <1>1, <2>1 DEF ExactEverywhere
<1>23. CursorsOK'
  <2>1. ASSUME NEW k \in 1 .. Len(campaigns)
        PROVE  /\ campaigns'[k].settleCursor = 0 /\ campaigns'[k].allocationCursor = 0
               /\ campaigns'[k].allocated = 0
    BY <1>1, NothingAllocatedYet
  <2> QED BY <1>1, <1>14, <2>1, FreshCursorsNext DEF CursorsOK
<1> QED BY <1>1, <1>14, <1>19, <1>21, <1>22, <1>23 DEF LedgerInv

-----------------------------------------------------------------------------
(* A new campaign.                                                         *)

CampaignAdded(amount) ==
  LET n == Len(campaigns)
  IN  /\ Len(campaigns') = n + 1
      /\ \A id \in 1 .. n : campaigns'[id] = campaigns[id]
      /\ campaigns'[n + 1].amount = amount /\ campaigns'[n + 1].allocated = 0

LEMMA CampaignKeeps ==
  ASSUME LedgerInv, NEW amount \in Nat, NEW k \in LPPool, NEW minimum \in MinimumValues, NEW ph,
         AddCampaign(ph, amount, k, minimum)
  PROVE  LedgerInv' /\ CampaignAdded(amount)
<1>1. /\ LPTypeOK /\ CopiesAgree /\ AccountsOK /\ ExactEverywhere /\ CursorsOK
      /\ UNCHANGED <<now, activeCampaign, marketVars>>
  BY DEF LedgerInv, AddCampaign
<1>2. PICK n : n = Len(campaigns)
  OBVIOUS
<1>3. n \in Nat /\ n + 1 \in 1 .. n + 1 /\ now \in Nat
  BY <1>1, <1>2, Typed DEF LPTypeOK
<1>4. ASSUME NEW id \in 1 .. n + 1 PROVE id \in 1 .. n \/ id = n + 1
  BY <1>3
<1>5. PICK s : s = [pool |-> k, amount |-> amount, minimumValue |-> minimum, price |-> slot0[k],
        updatedAt |-> now, sourceBlock |-> 0, totalAccrued |-> 0, settleCursor |-> 0,
        allocationCursor |-> 0, allocated |-> 0, finalized |-> FALSE]
  OBVIOUS
<1>6. slot0[k] \in Prices
  BY <1>1 DEF LPTypeOK
<1>7. /\ s \in Campaigns /\ s.amount = amount /\ s.allocated = 0 /\ s.totalAccrued = 0
      /\ s.settleCursor = 0 /\ s.allocationCursor = 0
  BY ONLY <1>3, <1>5, <1>6, k \in LPPool, amount \in Nat, minimum \in MinimumValues DEF Campaigns
<1>8. PICK z : z = [v \in Provider |-> 0]
  OBVIOUS
<1>9. z \in [Provider -> Nat] /\ << >> \in Seq(Places) /\ << >> \in Seq(Provider)
  BY <1>8
<1>10. /\ campaigns' = Append(campaigns, s) /\ positions' = Append(positions, << >>)
       /\ accounts' = Append(accounts, << >>) /\ accrued' = Append(accrued, z)
       /\ earned' = Append(earned, z)
  BY <1>5, <1>8 DEF AddCampaign
<1>11. /\ campaigns \in Seq(Campaigns) /\ positions \in Seq(Seq(Places))
       /\ accounts \in Seq(Seq(Provider)) /\ accrued \in Seq([Provider -> Nat])
       /\ earned \in Seq([Provider -> Nat])
       /\ Len(positions) = n /\ Len(accounts) = n /\ Len(accrued) = n /\ Len(earned) = n
  BY <1>1, <1>2 DEF LPTypeOK
<1>12. /\ campaigns' \in Seq(Campaigns) /\ Len(campaigns') = n + 1 /\ campaigns'[n + 1] = s
       /\ \A id \in 1 .. n : campaigns'[id] = campaigns[id]
  <2>1. /\ Append(campaigns, s) \in Seq(Campaigns) /\ Len(Append(campaigns, s)) = Len(campaigns) + 1
        /\ Append(campaigns, s)[Len(campaigns) + 1] = s
        /\ \A id \in 1 .. Len(campaigns) : Append(campaigns, s)[id] = campaigns[id]
    BY ONLY <1>7, <1>11, AppendIs
  <2> QED BY ONLY <1>2, <1>10, <2>1
<1>13. /\ positions' \in Seq(Seq(Places)) /\ Len(positions') = n + 1 /\ positions'[n + 1] = << >>
       /\ \A id \in 1 .. n : positions'[id] = positions[id]
  <2>1. /\ Append(positions, << >>) \in Seq(Seq(Places))
        /\ Len(Append(positions, << >>)) = Len(positions) + 1
        /\ Append(positions, << >>)[Len(positions) + 1] = << >>
        /\ \A id \in 1 .. Len(positions) : Append(positions, << >>)[id] = positions[id]
    BY ONLY <1>9, <1>11, AppendIs
  <2> QED BY ONLY <1>10, <1>11, <2>1
<1>14. /\ accounts' \in Seq(Seq(Provider)) /\ Len(accounts') = n + 1 /\ accounts'[n + 1] = << >>
       /\ \A id \in 1 .. n : accounts'[id] = accounts[id]
  <2>1. /\ Append(accounts, << >>) \in Seq(Seq(Provider))
        /\ Len(Append(accounts, << >>)) = Len(accounts) + 1
        /\ Append(accounts, << >>)[Len(accounts) + 1] = << >>
        /\ \A id \in 1 .. Len(accounts) : Append(accounts, << >>)[id] = accounts[id]
    BY ONLY <1>9, <1>11, AppendIs
  <2> QED BY ONLY <1>10, <1>11, <2>1
<1>15. /\ accrued' \in Seq([Provider -> Nat]) /\ Len(accrued') = n + 1 /\ accrued'[n + 1] = z
       /\ \A id \in 1 .. n : accrued'[id] = accrued[id]
  <2>1. /\ Append(accrued, z) \in Seq([Provider -> Nat]) /\ Len(Append(accrued, z)) = Len(accrued) + 1
        /\ Append(accrued, z)[Len(accrued) + 1] = z
        /\ \A id \in 1 .. Len(accrued) : Append(accrued, z)[id] = accrued[id]
    BY ONLY <1>9, <1>11, AppendIs
  <2> QED BY ONLY <1>10, <1>11, <2>1
<1>16. /\ earned' \in Seq([Provider -> Nat]) /\ Len(earned') = n + 1 /\ earned'[n + 1] = z
       /\ \A id \in 1 .. n : earned'[id] = earned[id]
  <2>1. /\ Append(earned, z) \in Seq([Provider -> Nat]) /\ Len(Append(earned, z)) = Len(earned) + 1
        /\ Append(earned, z)[Len(earned) + 1] = z
        /\ \A id \in 1 .. Len(earned) : Append(earned, z)[id] = earned[id]
    BY ONLY <1>9, <1>11, AppendIs
  <2> QED BY ONLY <1>10, <1>11, <2>1
<1>17. Len(<< >>) = 0 /\ 1 .. 0 = {} /\ Until' = Until
  BY <1>1 DEF Until
<1>18. LPTypeOK'
  <2>1. activeCampaign' \in [Position -> 0 .. n + 1]
    <3>1. 0 .. n \subseteq 0 .. n + 1
      BY <1>3
    <3> QED BY <1>1, <1>2, <3>1 DEF LPTypeOK
  <2> QED BY <1>1, <1>12, <1>13, <1>14, <1>15, <1>16, <2>1 DEF LPTypeOK, marketVars
<1>19. CopiesAgree'
  <2>1. ASSUME NEW id \in 1 .. n + 1, NEW j \in 1 .. Len(positions'[id])
        PROVE  CopyAgrees(id, positions[id][j])'
    <3>1. CASE id = n + 1
      BY <1>13, <1>17, <3>1
    <3>2. CASE id \in 1 .. n
      <4>1. CopyAgrees(id, positions[id][j]) /\ positions'[id] = positions[id]
        BY <1>1, <1>2, <1>13, <3>2 DEF CopiesAgree
      <4> QED BY <1>1, <1>12, <1>17, <3>2, <4>1 DEF CopyAgrees, marketVars
    <3> QED BY <1>4, <3>1, <3>2
  <2>2. ASSUME NEW id \in 1 .. n + 1 PROVE OncePerToken(id)'
    <3>1. CASE id = n + 1
      BY <1>13, <1>17, <3>1 DEF OncePerToken
    <3>2. CASE id \in 1 .. n
      BY <1>1, <1>2, <1>13, <3>2 DEF OncePerToken, CopiesAgree
    <3> QED BY <1>4, <3>1, <3>2
  <2>3. ASSUME NEW t \in Position, activeCampaign[t] # 0 PROVE HasPlace(activeCampaign[t], t)'
    <3>1. HasPlace(activeCampaign[t], t) /\ activeCampaign[t] \in 1 .. n
      BY <1>1, <1>2, <2>3, PlaceOf DEF CopiesAgree
    <3> QED BY <1>1, <1>13, <3>1 DEF HasPlace
  <2> QED BY <1>1, <1>12, <2>1, <2>2, <2>3 DEF CopiesAgree
<1>20. AccountsOK'
  <2>1. ASSUME NEW id \in 1 .. n + 1
        PROVE  /\ Distinct(accounts[id])' /\ OwnersHaveAccounts(positions[id], accounts[id])'
               /\ \A v \in Provider : accrued'[id][v] # 0 => Contains(accounts'[id], v)
    <3>1. CASE id = n + 1
      <4>1. positions'[id] = << >> /\ accounts'[id] = << >> /\ \A v \in Provider : accrued'[id][v] = 0
        BY <1>8, <1>13, <1>14, <1>15, <3>1
      <4>2. DOMAIN << >> = {}
        OBVIOUS
      <4> QED BY <1>17, <4>1, <4>2 DEF Distinct, OwnersHaveAccounts
    <3>2. CASE id \in 1 .. n
      <4>1. /\ positions'[id] = positions[id] /\ accounts'[id] = accounts[id]
            /\ accrued'[id] = accrued[id]
        BY <1>13, <1>14, <1>15, <3>2
      <4>2. /\ Distinct(accounts[id]) /\ OwnersHaveAccounts(positions[id], accounts[id])
            /\ \A v \in Provider : accrued[id][v] # 0 => Contains(accounts[id], v)
        BY <1>1, <1>2, <3>2 DEF AccountsOK
      <4> QED BY <4>1, <4>2
    <3> QED BY <1>4, <3>1, <3>2
  <2> QED BY <1>12, <2>1 DEF AccountsOK
<1>21. ExactEverywhere'
  <2>1. ASSUME NEW id \in 1 .. n + 1 PROVE Exact(id)'
    <3>1. CASE id = n + 1
      <4>1. /\ positions'[id] = << >> /\ accounts'[id] = << >> /\ campaigns'[id] = s
            /\ \A v \in Provider : accrued'[id][v] = 0 /\ earned'[id][v] = 0
        BY <1>8, <1>12, <1>13, <1>14, <1>15, <1>16, <3>1
      <4>2. ASSUME NEW v PROVE DueOf(id, v)' = 0
        <5>1. Due(<< >>, Until', 1 .. 0, v) \in [1 .. 0 -> Int]
          BY <1>17 DEF Due
        <5> QED BY <1>17, <4>1, <5>1, EmptySum DEF DueOf
      <4>3. AccountsTotal(id)' = 0
        <5>1. PICK f : f = [i \in 1 .. 0 |-> accrued'[id][accounts'[id][i]]]
          OBVIOUS
        <5>2. f \in [1 .. 0 -> Int]
          BY <1>17, <5>1
        <5>3. Sum(f, 0) = 0
          BY <5>2, EmptySum
        <5> QED BY <1>17, <4>1, <5>1, <5>3 DEF AccountsTotal
      <4> QED BY <1>7, <4>1, <4>2, <4>3 DEF Exact
    <3>2. CASE id \in 1 .. n
      <4>1. Exact(id)
        BY <1>1, <1>2, <3>2 DEF ExactEverywhere
      <4>2. /\ positions'[id] = positions[id] /\ accounts'[id] = accounts[id]
            /\ campaigns'[id] = campaigns[id] /\ accrued'[id] = accrued[id] /\ earned'[id] = earned[id]
        BY <1>12, <1>13, <1>14, <1>15, <1>16, <3>2
      <4> QED BY <1>17, <4>1, <4>2 DEF Exact, DueOf, AccountsTotal
    <3> QED BY <1>4, <3>1, <3>2
  <2> QED BY <1>12, <2>1 DEF ExactEverywhere
<1>22. CursorsOK'
  <2>1. ASSUME NEW id \in 1 .. n + 1
        PROVE  /\ Settling(id)'
               /\ (campaigns[id].allocated =
                     PrefixSum(Shares(id), Len(accounts[id]))[campaigns[id].allocationCursor])'
    <3>1. CASE id = n + 1
      <4>1. /\ campaigns'[id].settleCursor = 0 /\ campaigns'[id].allocationCursor = 0
            /\ campaigns'[id].allocated = 0
        BY <1>7, <1>12, <3>1
      <4> QED BY <1>12, <1>18, <4>1, FreshCursorsNext
    <3>2. CASE id \in 1 .. n
      <4>1. /\ positions'[id] = positions[id] /\ accounts'[id] = accounts[id]
            /\ campaigns'[id] = campaigns[id] /\ accrued'[id] = accrued[id]
        BY <1>12, <1>13, <1>14, <1>15, <3>2
      <4>2. Shares(id)' = Shares(id)
        BY <4>1 DEF Shares
      <4>3. /\ Settling(id)
            /\ campaigns[id].allocated =
                 PrefixSum(Shares(id), Len(accounts[id]))[campaigns[id].allocationCursor]
        BY <1>1, <1>2, <3>2 DEF CursorsOK
      <4>4. Settling(id)'
        BY <1>1, <4>1, <4>3 DEF Settling
      <4> QED BY <4>1, <4>2, <4>3, <4>4
    <3> QED BY <1>4, <3>1, <3>2
  <2> QED BY <1>12, <2>1 DEF CursorsOK
<1> QED BY <1>2, <1>7, <1>12, <1>18, <1>19, <1>20, <1>21, <1>22 DEF LedgerInv, CampaignAdded

-----------------------------------------------------------------------------
(* Time.                                                                   *)

\* What the position at place i of campaign id is worth to v in one tick.
Worth(id, v) ==
  [i \in 1 .. Len(positions[id]) |->
     LET t == positions[id][i].token
     IN  IF activeCampaign[t] = id /\ ownerOf[t] = v
         THEN Value(liquidityOf[t], campaigns[id].price) ELSE 0]

\* Before the deadline a tick adds to what is due exactly what positions are worth.
LEMMA TickIsDue ==
  ASSUME LPTypeOK, CopiesAgree, now < Deadline, NEW id \in 1 .. Len(campaigns), NEW v \in Provider
  PROVE  /\ Sum(Worth(id, v), Len(positions[id])) \in Nat
         /\ Sum(Due(positions[id], now + 1, 1 .. Len(positions[id]), v), Len(positions[id])) =
              Sum(Due(positions[id], now, 1 .. Len(positions[id]), v), Len(positions[id]))
                + Sum(Worth(id, v), Len(positions[id]))
<1>1. PICK ps, n, u : ps = positions[id] /\ n = Len(positions[id]) /\ u = now
  OBVIOUS
<1>2. /\ ps \in Seq(Places) /\ n \in Nat /\ n = Len(ps) /\ u \in Nat /\ u + 1 \in Nat
      /\ \A i \in 1 .. n : ps[i] \in Places
  <2>1. positions[id] \in Seq(Places) /\ now \in Nat
    BY Typed DEF LPTypeOK
  <2>2. ps \in Seq(Places) /\ n = Len(ps) /\ u \in Nat
    BY ONLY <1>1, <2>1
  <2> QED BY ONLY <2>2
<1>3. SettledBy(ps, u) /\ SettledBy(ps, u + 1)
  <2>1. Until = u
    BY <1>1, <1>2, UntilIs
  <2>2. ASSUME NEW i \in 1 .. n PROVE ps[i].settledAt <= u /\ ps[i].settledAt <= u + 1
    <3>1. CopyAgrees(id, ps[i]) /\ ps[i] \in Places
      BY <1>1, <1>2 DEF CopiesAgree
    <3>2. ps[i].settledAt <= u /\ ps[i].settledAt \in Nat
      BY <2>1, <3>1 DEF CopyAgrees, Places
    <3> QED BY <1>2, <3>2
  <2> QED BY <1>2, <2>2 DEF SettledBy
<1>4. PICK f, g, h : /\ f = Due(ps, u, 1 .. n, v) /\ g = Worth(id, v)
                     /\ h = Due(ps, u + 1, 1 .. n, v)
  OBVIOUS
<1>5. f \in [1 .. n -> Nat] /\ f \in [1 .. n -> Int] /\ h \in [1 .. n -> Int]
  BY <1>2, <1>3, <1>4, DueNat
<1>6. ASSUME NEW i \in 1 .. n PROVE g[i] \in Nat /\ h[i] = f[i] + g[i]
  <2>1. PICK p, t, r, s : p = ps[i] /\ t = ps[i].token /\ r = ps[i].rate /\ s = ps[i].settledAt
    OBVIOUS
  <2>2. /\ p \in Places /\ CopyAgrees(id, p) /\ t \in Position /\ r \in Nat /\ s \in Nat
        /\ activeCampaign[t] \in 0 .. Len(campaigns)
    <3>1. p \in Places /\ CopyAgrees(id, p)
      BY <1>1, <1>2, <2>1 DEF CopiesAgree
    <3> QED BY <2>1, <3>1 DEF Places, LPTypeOK
  <2>3. g[i] = IF activeCampaign[t] = id /\ ownerOf[t] = v
               THEN Value(liquidityOf[t], campaigns[id].price) ELSE 0
    BY <1>1, <1>4, <2>1 DEF Worth
  <2>4. /\ f[i] = IF p.owner = v THEN r * (u - s) ELSE 0
        /\ h[i] = IF p.owner = v THEN r * ((u + 1) - s) ELSE 0
    <3>1. i \in 1 .. Len(ps) /\ i \in 1 .. n
      BY <1>2
    <3>2. PICK w : w = u + 1
      OBVIOUS
    <3>3. f[i] = IF ps[i].owner = v THEN ps[i].rate * (u - ps[i].settledAt) ELSE 0
      BY ONLY <1>4, <3>1 DEF Due
    <3>4. h = Due(ps, w, 1 .. n, v)
      BY <1>4, <3>2
    <3>5. h[i] = IF ps[i].owner = v THEN ps[i].rate * (w - ps[i].settledAt) ELSE 0
      BY ONLY <3>1, <3>4 DEF Due
    <3>6. f[i] = IF p.owner = v THEN r * (u - s) ELSE 0
      BY ONLY <2>1, <3>3, Zenon
    <3>7. h[i] = IF p.owner = v THEN r * (w - s) ELSE 0
      BY ONLY <2>1, <3>5, Zenon
    <3> QED BY ONLY <3>2, <3>6, <3>7, Zenon
  <2>5. g[i] = IF p.owner = v THEN r ELSE 0
    <3>1. CASE p.active
      <4>1. /\ activeCampaign[t] = id /\ p.owner = ownerOf[t]
            /\ r = Value(liquidityOf[t], campaigns[id].price)
        BY <2>1, <2>2, <3>1 DEF CopyAgrees
      <4> QED BY <2>3, <4>1
    <3>2. CASE ~p.active
      <4>1. activeCampaign[t] # id /\ r = 0
        BY <2>1, <2>2, <3>2 DEF CopyAgrees
      <4> QED BY <2>3, <4>1
    <3> QED BY <3>1, <3>2
  <2>6. r * ((u + 1) - s) = r * (u - s) + r
    <3>1. PICK d : d = u - s
      OBVIOUS
    <3>2. d \in Int /\ (u + 1) - s = d + 1
      BY <1>2, <2>2, <3>1
    <3>3. r * (d + 1) = r * d + r
      BY <2>2, <3>2
    <3> QED BY <3>1, <3>2, <3>3
  <2>7. CASE p.owner = v
    BY <2>2, <2>4, <2>5, <2>6, <2>7
  <2>8. CASE p.owner # v
    BY <2>4, <2>5, <2>8
  <2> QED BY <2>7, <2>8
<1>7. g \in [1 .. n -> Nat] /\ g \in [1 .. n -> Int]
  <2>1. g \in [1 .. n -> Nat]
    BY <1>1, <1>4, <1>6 DEF Worth
  <2> QED BY <2>1
<1>8. Sum(h, n) = Sum(f, n) + Sum(g, n)
  BY <1>2, <1>5, <1>6, <1>7, SumOfSums
<1>9. Sum(g, n) \in Nat
  BY <1>2, <1>7, SumNat
<1> QED BY <1>1, <1>2, <1>4, <1>8, <1>9

LEMMA TickKeeps ==
  ASSUME LedgerInv, Tick
  PROVE  LedgerInv' /\ UNCHANGED campaigns
<1>1. /\ LPTypeOK /\ CopiesAgree /\ AccountsOK /\ ExactEverywhere /\ CursorsOK
      /\ UNCHANGED <<ledgerVars, marketVars>> /\ now' = now + 1
  BY DEF LedgerInv, Tick
<1>2. now \in Nat /\ now' \in Nat /\ Deadline \in Nat /\ Until \in Nat /\ Until' \in Nat
      /\ Until <= Until'
  BY <1>1, LPAssumption DEF LPTypeOK, Until
<1>3. /\ DOMAIN earned = 1 .. Len(campaigns) /\ Len(earned) = Len(campaigns)
      /\ Len(campaigns) \in Nat
      /\ \A id \in 1 .. Len(campaigns) : earned[id] \in [Provider -> Nat]
  BY <1>1, Typed DEF LPTypeOK
<1>4. /\ earned' \in Seq([Provider -> Nat]) /\ Len(earned') = Len(campaigns)
      /\ \A id \in 1 .. Len(campaigns), v \in Provider :
           earned'[id][v] = earned[id][v] + IF now < Deadline
                                            THEN Sum(Worth(id, v), Len(positions[id])) ELSE 0
  <2>1. CASE now >= Deadline
    <3>1. earned' = earned
      BY <2>1 DEF Tick
    <3>2. ~(now < Deadline)
      BY <1>2, <2>1
    <3>3. ASSUME NEW id \in 1 .. Len(campaigns), NEW v \in Provider
          PROVE  earned[id][v] = earned[id][v] + 0
      <4>1. earned[id][v] \in Nat
        BY <1>3
      <4> QED BY <4>1
    <3> QED BY <1>1, <3>1, <3>2, <3>3 DEF LPTypeOK
  <2>2. CASE now < Deadline
    <3>1. ~(now >= Deadline)
      BY <1>2, <2>2
    <3>2. earned' = [id \in DOMAIN earned |-> [v \in Provider |->
                       earned[id][v] + Sum(Worth(id, v), Len(positions[id]))]]
      BY <3>1 DEF Tick, Worth
    <3>3. ASSUME NEW id \in 1 .. Len(campaigns), NEW v \in Provider
          PROVE  earned[id][v] + Sum(Worth(id, v), Len(positions[id])) \in Nat
      <4>1. earned[id][v] \in Nat /\ Sum(Worth(id, v), Len(positions[id])) \in Nat
        BY <1>1, <1>3, <2>2, TickIsDue
      <4> QED BY <4>1
    <3>4. earned' \in [1 .. Len(campaigns) -> [Provider -> Nat]]
      BY <1>3, <3>2, <3>3
    <3>5. earned' \in Seq([Provider -> Nat]) /\ Len(earned') = Len(campaigns)
      BY <1>3, <3>4, FunctionIsSeq
    <3> QED BY <1>3, <2>2, <3>2, <3>5
  <2> QED BY <1>2, <2>1, <2>2
<1>5. LPTypeOK'
  BY <1>1, <1>2, <1>4 DEF LPTypeOK, ledgerVars, marketVars
<1>6. CopiesAgree'
  <2>1. ASSUME NEW k \in 1 .. Len(campaigns), NEW j \in 1 .. Len(positions[k])
        PROVE  CopyAgrees(k, positions[k][j])'
    <3>1. PICK r : r = positions[k][j]
      OBVIOUS
    <3>2. CopyAgrees(k, r) /\ r \in Places
      BY <1>1, <3>1, Typed DEF CopiesAgree
    <3>3. r.settledAt <= Until'
      BY <1>2, <3>2 DEF CopyAgrees, Places
    <3>4. now' < Deadline => now < Deadline
      BY <1>1, <1>2
    <3> QED BY <1>1, <3>1, <3>2, <3>3, <3>4 DEF CopyAgrees, ledgerVars, marketVars
  <2> QED BY <1>1, <2>1 DEF CopiesAgree, OncePerToken, HasPlace, ledgerVars
<1>7. AccountsOK'
  BY <1>1 DEF AccountsOK, ledgerVars
<1>8. ExactEverywhere'
  <2>1. ASSUME NEW id \in 1 .. Len(campaigns), NEW v \in Provider
        PROVE  accrued[id][v] + DueOf(id, v)' = earned'[id][v]
    <3>1. accrued[id][v] + DueOf(id, v) = earned[id][v] /\ accrued[id][v] \in Nat
          /\ earned[id][v] \in Nat
      BY <1>1, Typed DEF ExactEverywhere, Exact
    <3>2. PICK a, b, e, n : /\ a = accrued[id][v] /\ b = DueOf(id, v) /\ e = earned[id][v]
                            /\ n = Len(positions[id])
      OBVIOUS
    <3>3. b \in Nat
      <4>1. positions[id] \in Seq(Places) /\ SettledBy(positions[id], Until)
        BY <1>1, Typed, AllSettledBy
      <4> QED BY <1>2, <3>2, <4>1, SumOfDue DEF DueOf
    <3>4. DueOf(id, v)' = Sum(Due(positions[id], Until', 1 .. n, v), n)
      BY <1>1, <3>2 DEF DueOf, ledgerVars
    <3>5. CASE now < Deadline
      <4>1. Until = now /\ Until' = now + 1
        BY <1>1, <1>2, <3>5, LPAssumption DEF Until
      <4>2. PICK w : w = Sum(Worth(id, v), n)
        OBVIOUS
      <4>3. w \in Nat /\ DueOf(id, v)' = b + w
        BY <1>1, <3>2, <3>4, <3>5, <4>1, <4>2, TickIsDue DEF DueOf
      <4>4. earned'[id][v] = e + w
        BY <1>4, <3>2, <3>5, <4>2
      <4>5. a + b = e /\ a \in Nat
        BY <3>1, <3>2
      <4>6. a + (b + w) = e + w
        BY ONLY <3>3, <4>3, <4>5
      <4> QED BY <3>2, <4>3, <4>4, <4>6
    <3>6. CASE ~(now < Deadline)
      <4>1. Until' = Until
        BY <1>1, <1>2, <3>6 DEF Until
      <4>2. earned'[id][v] = e + 0
        BY <1>4, <3>2, <3>6
      <4> QED BY <3>1, <3>2, <3>4, <4>1, <4>2 DEF DueOf
    <3> QED BY <3>5, <3>6
  <2>2. ASSUME NEW id \in 1 .. Len(campaigns) PROVE Exact(id)'
    <3>1. campaigns[id].totalAccrued = AccountsTotal(id)
      BY <1>1 DEF ExactEverywhere, Exact
    <3> QED BY <1>1, <2>1, <3>1 DEF Exact, AccountsTotal, ledgerVars
  <2> QED BY <1>1, <2>2 DEF ExactEverywhere, ledgerVars
<1>9. CursorsOK'
  <2>1. now >= Deadline => now' >= Deadline
    BY <1>1, <1>2
  <2> QED BY <1>1, <2>1 DEF CursorsOK, Settling, Shares, ledgerVars
<1> QED BY <1>1, <1>5, <1>6, <1>7, <1>8, <1>9 DEF LedgerInv, ledgerVars

-----------------------------------------------------------------------------
(* Shares.                                                                 *)

Shifted(g, f, a, k) == \A i \in 1 .. k : g[i] = f[a + i]

\* The total of the next k terms after the first a.
LEMMA SumShifted ==
  ASSUME NEW n \in Nat, NEW f \in [1 .. n -> Int], NEW a \in Nat, NEW k \in Nat, a + k <= n,
         NEW g \in [1 .. k -> Int], Shifted(g, f, a, k)
  PROVE  PrefixSum(f, n)[a + k] = PrefixSum(f, n)[a] + Sum(g, k)
<1>1. PICK F : F = PrefixSum(f, n)
  OBVIOUS
<1>2. F \in [0 .. n -> Int] /\ \A i \in 1 .. n : F[i] = F[i - 1] + f[i]
  BY <1>1, PrefixSumUnfold
<1>3. PICK p : p = [j \in 0 .. k |-> F[a + j] - F[a]]
  OBVIOUS
<1>4. ASSUME NEW j \in 0 .. k PROVE F[a + j] \in Int /\ F[a] \in Int /\ p[j] = F[a + j] - F[a]
  <2>1. a + j \in 0 .. n /\ a \in 0 .. n
    OBVIOUS
  <2> QED BY <1>2, <1>3, <2>1
<1>5. p \in [0 .. k -> Int]
  <2>1. ASSUME NEW j \in 0 .. k PROVE F[a + j] - F[a] \in Int
    <3>1. PICK x, z : x = F[a + j] /\ z = F[a]
      OBVIOUS
    <3>2. x \in Int /\ z \in Int
      BY <1>4, <3>1
    <3>3. x - z \in Int
      BY ONLY <3>2
    <3> QED BY <3>1, <3>3
  <2> QED BY <1>3, <2>1
<1>6. 0 \in 0 .. k /\ k \in 0 .. k /\ a + 0 = a
  OBVIOUS
<1>7. p[0] = 0
  <2>1. PICK z : z = F[a]
    OBVIOUS
  <2>2. p[0] = z - z /\ z \in Int
    BY <1>4, <1>6, <2>1
  <2> QED BY <2>2
<1>8. ASSUME NEW i \in 1 .. k PROVE g[i] = p[i] - p[i - 1]
  <2>1. a + i \in 1 .. n /\ (a + i) - 1 = a + (i - 1) /\ i \in 0 .. k /\ i - 1 \in 0 .. k
    OBVIOUS
  <2>2. F[a + i] = F[a + (i - 1)] + f[a + i]
    BY <1>2, <2>1
  <2>3. /\ p[i] = F[a + i] - F[a] /\ p[i - 1] = F[a + (i - 1)] - F[a]
        /\ F[a + i] \in Int /\ F[a] \in Int /\ F[a + (i - 1)] \in Int
    BY <1>4, <2>1
  <2>4. PICK x, y, z, w : x = F[a + i] /\ y = F[a + (i - 1)] /\ z = F[a] /\ w = f[a + i]
    OBVIOUS
  <2>5. w \in Int /\ x \in Int /\ y \in Int /\ z \in Int /\ x = y + w
    BY <2>1, <2>2, <2>3, <2>4
  <2>6. g[i] = w /\ p[i] = x - z /\ p[i - 1] = y - z
    BY <2>3, <2>4 DEF Shifted
  <2>7. w = (x - z) - (y - z)
    BY ONLY <2>5
  <2> QED BY <2>6, <2>7
<1>9. Sum(g, k) = p[k]
  BY <1>5, <1>7, <1>8, SumTelescopes
<1>10. p[k] = F[a + k] - F[a] /\ F[a + k] \in Int /\ F[a] \in Int
  BY <1>4, <1>6
<1> QED BY <1>1, <1>9, <1>10

LEMMA PrefixBounded ==
  ASSUME NEW n \in Nat, NEW f \in [1 .. n -> Nat], NEW a \in 0 .. n
  PROVE  PrefixSum(f, n)[a] <= Sum(f, n) /\ PrefixSum(f, n)[a] \in Nat
<1>1. PICK k, g : k = n - a /\ g = [i \in 1 .. k |-> f[a + i]]
  OBVIOUS
<1>2. k \in Nat /\ a \in Nat /\ a + k = n /\ f \in [1 .. n -> Int]
  BY <1>1
<1>3. ASSUME NEW i \in 1 .. k PROVE f[a + i] \in Nat
  <2>1. a + i \in 1 .. n
    BY <1>2
  <2> QED BY <2>1
<1>4. g \in [1 .. k -> Nat] /\ g \in [1 .. k -> Int] /\ Shifted(g, f, a, k)
  <2>1. g = [i \in 1 .. k |-> f[a + i]]
    BY <1>1
  <2>2. g \in [1 .. k -> Nat]
    BY <1>3, <2>1
  <2>3. g \in [1 .. k -> Int]
    BY <2>2
  <2> QED BY <2>1, <2>2, <2>3 DEF Shifted
<1>5. a + k <= n
  BY <1>2
<1>6. PrefixSum(f, n)[a + k] = PrefixSum(f, n)[a] + Sum(g, k)
  BY ONLY n \in Nat, <1>2, <1>4, <1>5, SumShifted
<1>7. Sum(g, k) \in Nat
  BY <1>2, <1>4, SumNat
<1>8. PrefixSum(f, n) \in [0 .. n -> Nat]
  BY PrefixSumNat
<1>9. PICK x, y, z : x = PrefixSum(f, n)[a] /\ y = PrefixSum(f, n)[n] /\ z = Sum(g, k)
  OBVIOUS
<1>10. x \in Nat /\ z \in Nat /\ y = x + z
  BY <1>2, <1>6, <1>7, <1>8, <1>9
<1>11. x <= y
  BY ONLY <1>10
<1> QED BY <1>9, <1>10, <1>11 DEF Sum

\* Rounded down, the shares of the parts of a total are within the amount.
LEMMA SharesFit ==
  ASSUME NEW m \in Nat, NEW own \in [1 .. m -> Nat], NEW s \in Campaigns,
         NEW f \in [1 .. m -> Nat], \A i \in 1 .. m : f[i] = ShareOf(s, own[i], Sum(own, m))
  PROVE  Sum(f, m) <= s.amount
<1>1. PICK A, T : A = s.amount /\ T = Sum(own, m)
  OBVIOUS
<1>2. A \in Nat /\ T \in Nat
  BY <1>1, SumNat DEF Campaigns
<1>3. CASE T = 0
  <2>1. \A i \in 1 .. m : f[i] = 0
    BY <1>1, <1>3 DEF ShareOf
  <2>2. f \in [1 .. m -> Int]
    OBVIOUS
  <2>3. Sum(f, m) = 0
    BY <2>1, <2>2, SumOfZeros
  <2> QED BY <1>1, <1>2, <2>3
<1>4. CASE T # 0
  <2>1. T > 0
    BY <1>2, <1>4
  <2>2. PICK F, O : F = PrefixSum(f, m) /\ O = PrefixSum(own, m)
    OBVIOUS
  <2>3. own \in [1 .. m -> Int] /\ f \in [1 .. m -> Int]
    OBVIOUS
  <2>4. /\ F \in [0 .. m -> Nat] /\ F[0] = 0 /\ \A i \in 1 .. m : F[i] = F[i - 1] + f[i]
        /\ O \in [0 .. m -> Nat] /\ O[0] = 0 /\ \A i \in 1 .. m : O[i] = O[i - 1] + own[i]
    BY <2>2, <2>3, PrefixSumNat, PrefixSumUnfold
  <2>5. ASSUME NEW i \in 1 .. m PROVE f[i] * T <= A * own[i] /\ f[i] \in Nat /\ own[i] \in Nat
    <3>1. PICK o : o = own[i]
      OBVIOUS
    <3>a. PICK x : x = A * o
      OBVIOUS
    <3>2. o \in Nat /\ x \in Nat
      <4>1. o \in Nat
        BY <3>1
      <4> QED BY ONLY <1>2, <3>a, <4>1
    <3>3. f[i] = x \div T
      BY <1>1, <1>4, <3>1, <3>a DEF ShareOf
    <3>4. (x \div T) * T <= x
      BY <1>2, <2>1, <3>2, Quotient
    <3> QED BY <3>1, <3>a, <3>2, <3>3, <3>4
  <2> DEFINE G == {k \in Nat : k <= m => F[k] * T <= A * O[k]}
  <2>6. 0 \in G
    BY <1>2, <2>4
  <2>7. ASSUME NEW k \in G, k < m PROVE k + 1 \in G
    <3>1. k \in 0 .. m /\ k + 1 \in 1 .. m /\ (k + 1) - 1 = k
      BY <2>7
    <3>2. PICK fk, ok, fi, oi : fk = F[k] /\ ok = O[k] /\ fi = f[k + 1] /\ oi = own[k + 1]
      OBVIOUS
    <3>3. /\ fk \in Nat /\ ok \in Nat /\ fi \in Nat /\ oi \in Nat
          /\ F[k + 1] = fk + fi /\ O[k + 1] = ok + oi
      BY <2>4, <2>5, <3>1, <3>2
    <3>4. fk * T <= A * ok
      BY <2>7, <3>1, <3>2
    <3>5. fi * T <= A * oi
      BY <2>5, <3>1, <3>2
    <3>6. (fk + fi) * T = fk * T + fi * T /\ A * (ok + oi) = A * ok + A * oi
      BY ONLY <1>2, <3>3
    <3>7. fk * T \in Nat /\ fi * T \in Nat /\ A * ok \in Nat /\ A * oi \in Nat
      BY ONLY <1>2, <3>3
    <3>8. (fk + fi) * T <= A * (ok + oi)
      BY ONLY <3>4, <3>5, <3>6, <3>7
    <3> QED BY <3>3, <3>8
  <2>8. m \in G
    <3>1. G \in SUBSET Nat
      OBVIOUS
    <3> HIDE DEF G
    <3>2. 0 .. m \subseteq G
      BY <2>6, <2>7, <3>1, InductionUpTo
    <3> QED BY <3>2
  <2>9. F[m] * T <= A * O[m] /\ F[m] \in Nat /\ O[m] = T /\ F[m] = Sum(f, m)
    BY <1>1, <2>2, <2>4, <2>8 DEF Sum
  <2>10. PICK x : x = Sum(f, m)
    OBVIOUS
  <2>11. x * T <= A * T /\ x \in Nat
    BY <2>9, <2>10
  <2>12. ~(A < x)
    <3> SUFFICES ASSUME A < x PROVE FALSE
      OBVIOUS
    <3>1. PICK d \in Nat : x = A + 1 + d
      <4>1. x - (A + 1) \in Nat /\ x = A + 1 + (x - (A + 1))
        BY <1>2, <2>11
      <4> QED BY <4>1
    <3>2. (A + 1 + d) * T = A * T + T + d * T
      BY <1>2
    <3>3. d * T \in Nat /\ A * T \in Nat
      BY <1>2
    <3> QED BY <1>2, <2>1, <2>11, <3>1, <3>2, <3>3
  <2> QED BY <1>1, <1>2, <2>10, <2>11, <2>12
<1> QED BY <1>3, <1>4


\* What each account has accrued once the positions I are settled, and its share then.
OwnAfter(id, I) ==
  [i \in 1 .. Len(accounts[id]) |->
     accrued[id][accounts[id][i]] + PendingOf(id, I, accounts[id][i])]

TotalAfter(id, I) == campaigns[id].totalAccrued + PendingAll(id, I)

NewShares(id, I) ==
  [i \in 1 .. Len(accounts[id]) |->
     ShareOf(campaigns[id], accrued[id][accounts[id][i]] + PendingOf(id, I, accounts[id][i]),
             TotalAfter(id, I))]

\* The positions the next call settles.
SettleSteps(id, x) == Min2(x, Len(positions[id]) - campaigns[id].settleCursor)

SettleSet(id, x) ==
  campaigns[id].settleCursor + 1 .. campaigns[id].settleCursor + SettleSteps(id, x)

LEMMA OwnAfterTotal ==
  ASSUME LedgerInv, NEW id \in 1 .. Len(campaigns), NEW I
  PROVE  /\ OwnAfter(id, I) \in [1 .. Len(accounts[id]) -> Nat]
         /\ Sum(OwnAfter(id, I), Len(accounts[id])) = TotalAfter(id, I)
<1>1. LPTypeOK /\ CopiesAgree /\ AccountsOK /\ Exact(id)
  BY DEF LedgerInv, ExactEverywhere
<1>2. PICK ps, u, n, as, m : /\ ps = positions[id] /\ u = Until /\ n = Len(positions[id])
                             /\ as = accounts[id] /\ m = Len(accounts[id])
  OBVIOUS
<1>3. /\ ps \in Seq(Places) /\ u \in Nat /\ SettledBy(ps, u)
      /\ as \in Seq(Provider) /\ m \in Nat /\ \A j \in 1 .. m : as[j] \in Provider
  BY <1>1, <1>2, Typed, UntilIs, AllSettledBy DEF LPTypeOK
<1>4. PICK f, g, h : /\ f = [j \in 1 .. m |-> accrued[id][as[j]]]
                     /\ g = [j \in 1 .. m |-> PendingOf(id, I, as[j])]
                     /\ h = OwnAfter(id, I)
  OBVIOUS
<1>5. ASSUME NEW j \in 1 .. m PROVE /\ f[j] \in Nat /\ g[j] \in Nat /\ h[j] \in Nat
                                    /\ h[j] = f[j] + g[j]
  <2>1. accrued[id][as[j]] \in Nat /\ PendingOf(id, I, as[j]) \in Nat
    BY <1>1, <1>3, Typed, PendingNat
  <2>2. PICK a, b : a = accrued[id][as[j]] /\ b = PendingOf(id, I, as[j])
    OBVIOUS
  <2>3. f[j] = a /\ g[j] = b /\ h[j] = a + b
    BY <1>2, <1>4, <2>2 DEF OwnAfter
  <2>4. a \in Nat /\ b \in Nat
    BY <2>1, <2>2
  <2> QED BY ONLY <2>3, <2>4
<1>6. h \in [1 .. m -> Nat]
  <2>1. h = [j \in 1 .. m |-> h[j]]
    BY <1>2, <1>4 DEF OwnAfter
  <2> QED BY <1>5, <2>1
<1>7. f \in [1 .. m -> Int] /\ g \in [1 .. m -> Int] /\ h \in [1 .. m -> Int]
  <2>1. h \in [1 .. m -> Int]
    BY <1>6
  <2>2. \A j \in 1 .. m : f[j] \in Int /\ g[j] \in Int
    BY <1>5
  <2>3. f = [j \in 1 .. m |-> f[j]] /\ g = [j \in 1 .. m |-> g[j]]
    BY <1>4
  <2>4. f \in [1 .. m -> Int] /\ g \in [1 .. m -> Int]
    BY ONLY <2>2, <2>3
  <2> QED BY <2>1, <2>4
<1>8. Sum(h, m) = Sum(f, m) + Sum(g, m)
  BY <1>3, <1>5, <1>7, SumOfSums
<1>9. Sum(f, m) = campaigns[id].totalAccrued
  BY <1>1, <1>2, <1>4 DEF Exact, AccountsTotal
<1>10. Sum(g, m) = PendingAll(id, I)
  <2>1. Distinct(as) /\ OwnersHaveAccounts(ps, as)
    BY <1>1, <1>2 DEF AccountsOK
  <2>2. Sum([j \in 1 .. Len(as) |-> Sum(Due(ps, u, I, as[j]), Len(ps))], Len(as)) =
          Sum(DueAll(ps, u, I), Len(ps))
    BY ONLY <1>3, <2>1, DuePerAccount
  <2>3. ASSUME NEW j \in 1 .. m PROVE g[j] = Sum(Due(ps, u, I, as[j]), Len(ps))
    BY <1>2, <1>4, PendingIsDue
  <2>4. g = [j \in 1 .. m |-> Sum(Due(ps, u, I, as[j]), Len(ps))]
    BY <1>4, <2>3
  <2> QED BY <1>2, <2>2, <2>4, PendingIsDue
<1> QED BY <1>2, <1>4, <1>6, <1>8, <1>9, <1>10 DEF TotalAfter

LEMMA NewSharesFit ==
  ASSUME LedgerInv, NEW id \in 1 .. Len(campaigns), NEW I
  PROVE  /\ NewShares(id, I) \in [1 .. Len(accounts[id]) -> Nat]
         /\ Len(accounts[id]) \in Nat
         /\ Sum(NewShares(id, I), Len(accounts[id])) <= campaigns[id].amount
<1>1. PICK m, own, s, f : /\ m = Len(accounts[id]) /\ own = OwnAfter(id, I)
                          /\ s = campaigns[id] /\ f = NewShares(id, I)
  OBVIOUS
<1>2. m \in Nat /\ s \in Campaigns
  BY <1>1, Typed DEF LedgerInv
<1>3. own \in [1 .. m -> Nat] /\ Sum(own, m) = TotalAfter(id, I)
  BY <1>1, OwnAfterTotal
<1>4. ASSUME NEW i \in 1 .. m PROVE f[i] = ShareOf(s, own[i], Sum(own, m)) /\ f[i] \in Nat
  <2>1. f[i] = ShareOf(s, own[i], Sum(own, m))
    BY <1>1, <1>3 DEF NewShares, OwnAfter
  <2>2. own[i] \in Nat /\ Sum(own, m) \in Nat
    BY <1>2, <1>3, SumNat
  <2> QED BY <1>2, <2>1, <2>2, ShareNat
<1>5. f \in [1 .. m -> Nat]
  <2>1. f = [i \in 1 .. m |-> f[i]]
    BY <1>1 DEF NewShares
  <2> QED BY <1>4, <2>1
<1>6. Sum(f, m) <= s.amount
  BY ONLY <1>2, <1>3, <1>4, <1>5, SharesFit
<1> QED BY <1>1, <1>2, <1>5, <1>6

LEMMA StepsAre ==
  ASSUME LedgerInv, NEW id \in 1 .. Len(campaigns), NEW x \in Nat
  PROVE  /\ SettleSteps(id, x) \in Nat /\ x - SettleSteps(id, x) \in Nat
         /\ campaigns[id].settleCursor + SettleSteps(id, x) <= Len(positions[id])
         /\ campaigns[id].settleCursor = Len(positions[id]) => SettleSteps(id, x) = 0
<1>1. PICK n, sc, st : n = Len(positions[id]) /\ sc = campaigns[id].settleCursor /\ st = SettleSteps(id, x)
  OBVIOUS
<1>2. n \in Nat /\ sc \in Nat /\ sc <= n
  BY <1>1, Typed DEF LedgerInv, Campaigns, CursorsOK, Settling
<1>3. st = IF x < n - sc THEN x ELSE n - sc
  BY <1>1 DEF SettleSteps, Min2
<1>4. st \in Nat /\ x - st \in Nat /\ sc + st <= n /\ (sc = n => st = 0)
  BY ONLY <1>2, <1>3, x \in Nat
<1> QED BY <1>1, <1>4


\* What a call allocates continues the running total of the shares as they are
\* once it has settled its positions.
LEMMA AllocationIs ==
  ASSUME LedgerInv, NEW id \in 1 .. Len(campaigns), NEW x \in Nat
  PROVE  LET pays == Allocation(id, x)
             a    == campaigns[id].allocationCursor
             m    == Len(accounts[id])
         IN  /\ Len(pays) \in Nat /\ AllocationWeight(pays) \in Nat /\ a + Len(pays) <= m
             /\ campaigns[id].allocated + AllocationWeight(pays)
                  = PrefixSum(NewShares(id, SettleSet(id, x)), m)[a + Len(pays)]
             /\ a + Len(pays) > 0 =>
                  campaigns[id].settleCursor + SettleSteps(id, x) = Len(positions[id])
<1>1. PICK pays, a, m, n, sc, st, al :
        /\ pays = Allocation(id, x) /\ a = campaigns[id].allocationCursor /\ m = Len(accounts[id])
        /\ n = Len(positions[id]) /\ sc = campaigns[id].settleCursor /\ st = SettleSteps(id, x)
        /\ al = campaigns[id].allocated
  OBVIOUS
<1>2. PICK I, f : I = SettleSet(id, x) /\ f = NewShares(id, SettleSet(id, x))
  OBVIOUS
<1>3. LPTypeOK /\ CopiesAgree /\ CursorsOK /\ Settling(id)
  BY DEF LedgerInv, CursorsOK
<1>4. /\ a \in Nat /\ sc \in Nat /\ m \in Nat /\ n \in Nat /\ al \in Nat /\ a <= m
      /\ a > 0 => sc = n
  BY <1>1, <1>3, Typed DEF Campaigns, Settling
<1>5. st \in Nat /\ x - st \in Nat /\ sc + st <= n /\ (sc = n => st = 0)
  BY <1>1, StepsAre
<1>6. /\ f \in [1 .. m -> Nat] /\ f \in [1 .. m -> Int]
      /\ PrefixSum(f, m) \in [0 .. m -> Nat] /\ PrefixSum(f, m)[0] = 0
  <2>1. f \in [1 .. m -> Nat]
    BY <1>1, <1>2, NewSharesFit
  <2>2. f \in [1 .. m -> Int]
    BY <2>1
  <2>3. PrefixSum(f, m) \in [0 .. m -> Nat]
    BY <1>4, <2>1, PrefixSumNat
  <2>4. PrefixSum(f, m)[0] = 0
    BY <1>4, <2>2, PrefixSumUnfold
  <2> QED BY <2>1, <2>2, <2>3, <2>4
<1>7. al = PrefixSum(f, m)[a]
  <2>1. al = PrefixSum(Shares(id), m)[a]
    BY <1>1, <1>3 DEF CursorsOK
  <2>2. CASE a = 0
    <3>1. PrefixSum(Shares(id), m)[0] = 0
      BY <1>1, <1>3, SharesNat
    <3> QED BY <1>6, <2>1, <2>2, <3>1
  <2>3. CASE a > 0
    <3>1. PendingAll(id, I) = 0 /\ \A v : PendingOf(id, I, v) = 0
      BY <1>1, <1>3, <2>3, NothingPending
    <3>2. campaigns[id].totalAccrued \in Nat
      BY <1>3, Typed DEF Campaigns
    <3>3. TotalAfter(id, I) = campaigns[id].totalAccrued
      BY <3>1, <3>2 DEF TotalAfter
    <3>4. ASSUME NEW i \in 1 .. m
          PROVE  accrued[id][accounts[id][i]] + PendingOf(id, I, accounts[id][i])
                   = accrued[id][accounts[id][i]]
      <4>1. accrued[id][accounts[id][i]] \in Nat
        BY <1>1, <1>3, Typed
      <4>2. PICK z : z = accrued[id][accounts[id][i]]
        OBVIOUS
      <4>3. PendingOf(id, I, accounts[id][i]) = 0
        BY <3>1
      <4>4. z + 0 = z
        BY <4>1, <4>2
      <4> QED BY <4>2, <4>3, <4>4
    <3>5. f = Shares(id)
      BY <1>1, <1>2, <3>3, <3>4 DEF NewShares, Shares
    <3> QED BY <2>1, <3>5
  <2> QED BY <1>4, <2>2, <2>3
<1>8. CASE sc + st # n
  <2>1. pays = << >>
    BY <1>1, <1>8 DEF Allocation, SettleSteps
  <2>2. Len(pays) = 0 /\ DOMAIN pays = 1 .. 0
    BY <2>1
  <2>3. AllocationWeight(pays) = 0
    <3>1. PICK w : w = [i \in DOMAIN pays |-> pays[i].weight]
      OBVIOUS
    <3>2. w \in [1 .. 0 -> Int]
      BY <2>2, <3>1
    <3>3. Sum(w, 0) = 0
      BY <3>2, EmptySum
    <3> QED BY <2>2, <3>1, <3>3 DEF AllocationWeight
  <2>4. a = 0
    BY <1>4, <1>5, <1>8
  <2>5. al = 0
    BY <1>6, <1>7, <2>4
  <2> QED BY <1>1, <1>2, <1>4, <1>6, <2>2, <2>3, <2>4, <2>5
<1>9. CASE sc + st = n
  <2>1. PICK k : k = Min2(x - st, m - a)
    OBVIOUS
  <2>2. k \in Nat /\ a + k <= m
    BY <1>4, <1>5, <2>1 DEF Min2
  <2>3. PICK w : w = [i \in 1 .. k |-> f[a + i]]
    OBVIOUS
  <2>4. /\ Len(pays) = k /\ DOMAIN pays = 1 .. k
        /\ \A i \in 1 .. k : pays[i].weight = f[a + i]
    <3>1. pays = [i \in 1 .. k |->
              [who |-> accounts[id][a + i],
               weight |-> ShareOf(campaigns[id], accrued[id][accounts[id][a + i]] +
                            PendingOf(id, I, accounts[id][a + i]), TotalAfter(id, I))]]
      BY <1>1, <1>2, <1>9, <2>1 DEF Allocation, SettleSteps, SettleSet, TotalAfter
    <3>2. ASSUME NEW i \in 1 .. k
          PROVE  f[a + i] = ShareOf(campaigns[id], accrued[id][accounts[id][a + i]] +
                              PendingOf(id, I, accounts[id][a + i]), TotalAfter(id, I))
      <4>1. a + i \in 1 .. m
        BY <1>4, <2>2
      <4> QED BY <1>1, <1>2, <4>1 DEF NewShares
    <3>3. Len(pays) = k /\ DOMAIN pays = 1 .. k
      BY <2>2, <3>1
    <3> QED BY <3>1, <3>2, <3>3
  <2>5. w \in [1 .. k -> Nat] /\ w \in [1 .. k -> Int] /\ Shifted(w, f, a, k)
    <3>1. ASSUME NEW i \in 1 .. k PROVE f[a + i] \in Nat
      <4>1. a + i \in 1 .. m
        BY <1>4, <2>2
      <4> QED BY <1>6, <4>1
    <3>2. w \in [1 .. k -> Nat]
      BY <2>3, <3>1
    <3>3. w \in [1 .. k -> Int]
      BY <3>2
    <3> QED BY <2>3, <3>2, <3>3 DEF Shifted
  <2>6. AllocationWeight(pays) = Sum(w, k)
    <3>1. w = [i \in DOMAIN pays |-> pays[i].weight]
      BY <2>3, <2>4
    <3> QED BY <2>4, <3>1 DEF AllocationWeight
  <2>7. PrefixSum(f, m)[a + k] = PrefixSum(f, m)[a] + Sum(w, k)
    <3>1. /\ m \in Nat /\ f \in [1 .. m -> Int] /\ a \in Nat /\ k \in Nat /\ a + k <= m
          /\ w \in [1 .. k -> Int] /\ Shifted(w, f, a, k)
      BY <1>4, <1>6, <2>2, <2>5
    <3> QED BY ONLY <3>1, SumShifted
  <2>8. Sum(w, k) \in Nat
    BY <2>2, <2>5, SumNat
  <2> QED BY <1>1, <1>2, <1>7, <1>9, <2>2, <2>4, <2>6, <2>7, <2>8
<1> QED BY <1>8, <1>9


\* Campaign id's allocation grows by what the call pays; the others stay.
Allocates(id, x) ==
  /\ Len(campaigns') = Len(campaigns)
  /\ \A k \in 1 .. Len(campaigns) :
       /\ campaigns'[k].amount = campaigns[k].amount
       /\ k # id => campaigns'[k].allocated = campaigns[k].allocated
  /\ campaigns'[id].allocated = campaigns[id].allocated + AllocationWeight(Allocation(id, x))

LEMMA FinalizeSettles ==
  ASSUME LedgerInv, NEW id \in 1 .. Len(campaigns), NEW x \in Nat, NEW ph, FinalizeLP(ph, id, x)
  PROVE  /\ LPTypeOK' /\ CopiesAgree' /\ Settles(id, SettleSet(id, x)) /\ now >= Deadline
         /\ campaigns'[id].amount = campaigns[id].amount
         /\ campaigns'[id].settleCursor = campaigns[id].settleCursor + SettleSteps(id, x)
         /\ campaigns'[id].allocationCursor = campaigns[id].allocationCursor + Len(Allocation(id, x))
         /\ campaigns'[id].allocated = campaigns[id].allocated + AllocationWeight(Allocation(id, x))
<1>1. PICK ps, n, c, u, I, pays : /\ ps = positions[id] /\ n = Len(positions[id])
                                  /\ c = campaigns[id] /\ u = Until
                                  /\ I = SettleSet(id, x) /\ pays = Allocation(id, x)
  OBVIOUS
<1>2. LPTypeOK /\ CopiesAgree
  BY DEF LedgerInv
<1>3. /\ ps \in Seq(Places) /\ n \in Nat /\ DOMAIN ps = 1 .. n /\ c \in Campaigns /\ u \in Nat
      /\ \A i \in 1 .. n : ps[i] \in Places
  BY <1>1, <1>2, Typed, UntilIs DEF LPTypeOK
<1>4. ASSUME NEW i \in 1 .. n PROVE CopyAgrees(id, ps[i])
  BY <1>1, <1>2 DEF CopiesAgree
<1>5. PICK qs : qs = [i \in 1 .. n |-> IF i \in I THEN Settled(ps[i]) ELSE ps[i]]
  OBVIOUS
<1>6. ASSUME NEW i \in 1 .. n
      PROVE  /\ qs[i] \in Places /\ qs[i].token = ps[i].token /\ qs[i].owner = ps[i].owner
             /\ i \in I => qs[i].settledAt = u
             /\ i \notin I => qs[i] = ps[i]
             /\ qs[i].settledAt \in {u, ps[i].settledAt}
             /\ qs[i].active = ps[i].active /\ qs[i].liquidity = ps[i].liquidity
             /\ qs[i].rate = ps[i].rate
  <2>1. PICK p : p = ps[i]
    OBVIOUS
  <2>2. p \in Places
    BY <1>3, <2>1
  <2>3. CASE i \in I
    <3>1. qs[i] = [p EXCEPT !.settledAt = u]
      BY <1>1, <1>5, <2>1, <2>3 DEF Settled
    <3>2. /\ qs[i] \in Places /\ qs[i].token = p.token /\ qs[i].owner = p.owner
          /\ qs[i].settledAt = u
      BY ONLY <1>3, <2>2, <3>1 DEF Places
    <3>3. qs[i].active = p.active /\ qs[i].liquidity = p.liquidity /\ qs[i].rate = p.rate
      BY ONLY <1>3, <2>2, <3>1 DEF Places
    <3> QED BY <2>1, <2>3, <3>2, <3>3
  <2>4. CASE i \notin I
    BY <1>3, <1>5, <2>4
  <2> QED BY <2>3, <2>4
<1>7. qs \in Seq(Places) /\ Len(qs) = n
  <2>1. qs \in [1 .. n -> Places]
    BY <1>5, <1>6
  <2> QED BY <1>3, <2>1, FunctionIsSeq
<1>8. SettlesTo(ps, qs, u, I) /\ TokensStay(ps, qs)
  BY <1>1, <1>3, <1>6, <1>7 DEF SettlesTo, Settled1, TokensStay
<1>9. PICK t, sc, ac, al :
        /\ t = c.totalAccrued + PendingAll(id, I)
        /\ sc = c.settleCursor + SettleSteps(id, x)
        /\ ac = c.allocationCursor + Len(pays)
        /\ al = c.allocated + AllocationWeight(pays)
  OBVIOUS
<1>17. PICK fin : fin = (/\ c.settleCursor + SettleSteps(id, x) = n
                         /\ c.allocationCursor + Len(pays) = Len(accounts[id]))
  OBVIOUS
<1>10. t \in Nat /\ sc \in Nat /\ ac \in Nat /\ al \in Nat /\ fin \in BOOLEAN
  <2>1. /\ c.totalAccrued \in Nat /\ c.settleCursor \in Nat /\ c.allocationCursor \in Nat
        /\ c.allocated \in Nat
    BY <1>3 DEF Campaigns
  <2>2. PendingAll(id, I) \in Nat
    BY <1>2, PendingNat
  <2>3. SettleSteps(id, x) \in Nat
    BY StepsAre
  <2>4. Len(pays) \in Nat /\ AllocationWeight(pays) \in Nat
    BY <1>1, AllocationIs
  <2>5. PICK a, b, d, e : /\ a = c.totalAccrued /\ b = c.settleCursor
                          /\ d = c.allocationCursor /\ e = c.allocated
    OBVIOUS
  <2>6. PICK k, l, o, q : /\ k = PendingAll(id, I) /\ l = SettleSteps(id, x)
                          /\ o = Len(pays) /\ q = AllocationWeight(pays)
    OBVIOUS
  <2>7. t = a + k /\ sc = b + l /\ ac = d + o /\ al = e + q
    BY <1>9, <2>5, <2>6
  <2>8. /\ a \in Nat /\ b \in Nat /\ d \in Nat /\ e \in Nat
        /\ k \in Nat /\ l \in Nat /\ o \in Nat /\ q \in Nat
    BY <2>1, <2>2, <2>3, <2>4, <2>5, <2>6
  <2>10. t \in Nat /\ sc \in Nat /\ ac \in Nat /\ al \in Nat
    BY ONLY <2>7, <2>8
  <2>9. fin \in BOOLEAN
    BY <1>17
  <2> QED BY <2>9, <2>10
<1>11. PICK s : s = [c EXCEPT !.totalAccrued = t, !.settleCursor = sc, !.allocationCursor = ac,
                              !.allocated = al, !.finalized = fin]
  OBVIOUS
<1>12. /\ s \in Campaigns /\ s.totalAccrued = t /\ s.settleCursor = sc
       /\ s.allocationCursor = ac /\ s.allocated = al /\ s.amount = c.amount /\ s.price = c.price
  <2>1. s \in Campaigns /\ s.totalAccrued = t /\ s.settleCursor = sc
    BY ONLY <1>3, <1>10, <1>11 DEF Campaigns
  <2>2. s.allocationCursor = ac /\ s.allocated = al /\ s.amount = c.amount /\ s.price = c.price
    BY ONLY <1>3, <1>10, <1>11 DEF Campaigns
  <2> QED BY <2>1, <2>2
<1>13. Writes(id, I, qs, s) /\ UNCHANGED <<activeCampaign, marketVars>> /\ now >= Deadline
  <2>1. UNCHANGED <<now, accounts, earned, activeCampaign, marketVars>> /\ now >= Deadline
    BY DEF FinalizeLP, Settle
  <2>2. accrued' = [accrued EXCEPT ![id] = [v \in Provider |-> @[v] + PendingOf(id, I, v)]]
    BY <1>1 DEF FinalizeLP, Settle, SettleSet, SettleSteps
  <2>3. positions' = [positions EXCEPT ![id] = qs]
    <3>1. positions' = [positions EXCEPT ![id] =
            [i \in DOMAIN @ |-> IF i \in I THEN Settled(@[i]) ELSE @[i]]]
      BY <1>1 DEF FinalizeLP, Settle, SettleSet, SettleSteps
    <3> QED BY <1>1, <1>3, <1>5, <3>1
  <2>4. campaigns' = [campaigns EXCEPT ![id] = s]
    <3>1. campaigns' = [campaigns EXCEPT ![id] = [campaigns[id] EXCEPT
            !.totalAccrued = campaigns[id].totalAccrued + PendingAll(id, SettleSet(id, x)),
            !.settleCursor = campaigns[id].settleCursor + SettleSteps(id, x),
            !.allocationCursor = campaigns[id].allocationCursor + Len(Allocation(id, x)),
            !.allocated = campaigns[id].allocated + AllocationWeight(Allocation(id, x)),
            !.finalized = /\ campaigns[id].settleCursor + SettleSteps(id, x) = Len(positions[id])
                          /\ campaigns[id].allocationCursor + Len(Allocation(id, x)) = Len(accounts[id])]]
      BY DEF FinalizeLP, Settle, SettleSet, SettleSteps
    <3> QED BY ONLY <1>1, <1>9, <1>17, <1>11, <3>1
  <2> QED BY <2>1, <2>2, <2>3, <2>4 DEF Writes
<1>14. campaigns'[id] = s /\ Until' = Until /\ now' = now
  BY <1>2, <1>13 DEF Writes, Until, LPTypeOK
<1>15. AllAgree(id, qs)'
  <2> SUFFICES ASSUME NEW i \in 1 .. Len(qs) PROVE CopyAgrees(id, qs[i])'
    BY DEF AllAgree
  <2>1. i \in 1 .. n
    BY <1>7
  <2>2. CopyAgrees(id, ps[i])
    BY <1>4, <2>1
  <2>3. u <= u
    BY <1>3
  <2> QED BY <1>1, <1>6, <1>12, <1>13, <1>14, <2>1, <2>2, <2>3 DEF CopyAgrees, marketVars
<1>16. LPTypeOK' /\ CopiesAgree' /\ Settles(id, I)
  BY <1>1, <1>2, <1>7, <1>8, <1>9, <1>12, <1>13, <1>15, ManySettle
<1> QED BY <1>1, <1>9, <1>12, <1>13, <1>14, <1>16


LEMMA FinalizeCursors ==
  ASSUME LedgerInv, NEW id \in 1 .. Len(campaigns), NEW x \in Nat, NEW ph, FinalizeLP(ph, id, x)
  PROVE  CursorsOK'
<1>1. PICK n, m, I, sc, st, a, k : /\ n = Len(positions[id]) /\ m = Len(accounts[id])
                                   /\ I = SettleSet(id, x) /\ sc = campaigns[id].settleCursor
                                   /\ st = SettleSteps(id, x)
                                   /\ a = campaigns[id].allocationCursor /\ k = Len(Allocation(id, x))
  OBVIOUS
<1>2. /\ LPTypeOK' /\ CopiesAgree' /\ Settles(id, I) /\ now >= Deadline
      /\ campaigns'[id].amount = campaigns[id].amount
      /\ campaigns'[id].settleCursor = sc + st
      /\ campaigns'[id].allocationCursor = a + k
      /\ campaigns'[id].allocated = campaigns[id].allocated + AllocationWeight(Allocation(id, x))
  BY <1>1, FinalizeSettles
<1>3. /\ k \in Nat /\ a + k <= m
      /\ campaigns[id].allocated + AllocationWeight(Allocation(id, x))
           = PrefixSum(NewShares(id, I), m)[a + k]
      /\ a + k > 0 => sc + st = n
  BY <1>1, AllocationIs
<1>4. st \in Nat /\ sc + st <= n
  BY <1>1, StepsAre
<1>5. LPTypeOK /\ CursorsOK /\ Settling(id) /\ sc \in Nat /\ n \in Nat /\ a \in Nat /\ m \in Nat
  BY <1>1, Typed DEF LedgerInv, CursorsOK, Campaigns
<1>6. accounts' = accounts /\ now' = now /\ Len(campaigns') = Len(campaigns) /\ SameElsewhere(id)
  BY <1>2 DEF Settles
<1>7. Until = Deadline /\ SettlesTo(positions[id], positions'[id], Until, I)
  BY <1>2, <1>5, UntilIs DEF LPTypeOK, Settles
<1>8. Len(positions'[id]) = n
  BY <1>1, <1>7 DEF SettlesTo
<1>9. ASSUME NEW i \in 1 .. sc + st PROVE positions'[id][i].settledAt = Deadline
  <2>1. i \in 1 .. n
    BY <1>4, <1>5
  <2>2. Settled1(positions[id][i], positions'[id][i], Deadline, i \in I)
    BY <1>1, <1>7, <2>1 DEF SettlesTo
  <2>3. CASE i \in I
    BY <2>2, <2>3 DEF Settled1
  <2>4. CASE i \notin I
    <3>1. I = sc + 1 .. sc + st
      BY <1>1 DEF SettleSet
    <3>2. i \in 1 .. sc
      BY <1>4, <1>5, <2>4, <3>1
    <3>3. positions[id][i].settledAt = Deadline
      BY <1>1, <1>5, <3>2 DEF Settling
    <3> QED BY <2>2, <2>4, <3>3 DEF Settled1
  <2> QED BY <2>3, <2>4
<1>10. Settling(id)'
  <2>1. sc + st <= n /\ a + k <= m /\ now' >= Deadline
    BY <1>2, <1>3, <1>4, <1>6
  <2>2. \A i \in 1 .. sc + st : positions'[id][i].settledAt = Deadline
    BY <1>9
  <2> QED BY <1>1, <1>2, <1>3, <1>6, <1>8, <2>1, <2>2 DEF Settling
<1>11. Shares(id)' = NewShares(id, I)
  <2>1. campaigns'[id].totalAccrued = TotalAfter(id, I)
    BY <1>2 DEF Settles, TotalAfter
  <2>2. ASSUME NEW i \in 1 .. m
        PROVE  accrued'[id][accounts[id][i]]
                 = accrued[id][accounts[id][i]] + PendingOf(id, I, accounts[id][i])
    <3>1. accounts[id][i] \in Provider
      BY <1>1, <1>5, Typed
    <3> QED BY <1>2, <3>1 DEF Settles
  <2>3. ASSUME NEW o, NEW t PROVE ShareOf(campaigns'[id], o, t) = ShareOf(campaigns[id], o, t)
    BY <1>2 DEF ShareOf
  <2> QED BY <1>1, <1>6, <2>1, <2>2, <2>3 DEF Shares, NewShares
<1>12. campaigns'[id].allocated
         = PrefixSum(Shares(id)', Len(accounts'[id]))[campaigns'[id].allocationCursor]
  BY <1>1, <1>2, <1>3, <1>6, <1>11
<1>13. ASSUME NEW j \in 1 .. Len(campaigns), j # id
       PROVE  /\ Settling(j)'
              /\ campaigns'[j].allocated =
                   PrefixSum(Shares(j)', Len(accounts'[j]))[campaigns'[j].allocationCursor]
  <2>1. positions'[j] = positions[j] /\ accrued'[j] = accrued[j] /\ campaigns'[j] = campaigns[j]
    BY <1>6, <1>13 DEF SameElsewhere
  <2>2. Settling(j)
    BY <1>5 DEF CursorsOK
  <2>3. Shares(j)' = Shares(j)
    BY <1>6, <2>1 DEF Shares
  <2> QED BY <1>5, <1>6, <2>1, <2>2, <2>3 DEF CursorsOK, Settling
<1> QED BY <1>6, <1>10, <1>12, <1>13 DEF CursorsOK

LEMMA FinalizeKeeps ==
  ASSUME LedgerInv, NEW id \in 1 .. Len(campaigns), NEW x \in Nat, NEW ph, FinalizeLP(ph, id, x)
  PROVE  LedgerInv' /\ Allocates(id, x)
<1>1. PICK I : I = SettleSet(id, x)
  OBVIOUS
<1>2. /\ LPTypeOK' /\ CopiesAgree' /\ Settles(id, I)
      /\ campaigns'[id].amount = campaigns[id].amount
      /\ campaigns'[id].allocated = campaigns[id].allocated + AllocationWeight(Allocation(id, x))
  BY <1>1, FinalizeSettles
<1>3. LPTypeOK /\ CopiesAgree /\ AccountsOK /\ ExactEverywhere
  BY DEF LedgerInv
<1>4. ExactEverywhere'
  BY <1>2, <1>3, SettlingKeepsExact
<1>5. AccountsOK'
  BY <1>2, <1>3, SettlingKeepsAccounts
<1>6. CursorsOK'
  BY FinalizeCursors
<1>7. Len(campaigns') = Len(campaigns) /\ SameElsewhere(id)
  BY <1>2 DEF Settles
<1>8. Allocates(id, x)
  BY <1>2, <1>7 DEF Allocates, SameElsewhere
<1> QED BY <1>2, <1>4, <1>5, <1>6, <1>8 DEF LedgerInv


-----------------------------------------------------------------------------
(* Credits.                                                                *)

\* What a campaign has allocated, with what the next call adds, is within its money.
LEMMA AllocatedFits ==
  ASSUME LedgerInv, NEW id \in 1 .. Len(campaigns), NEW x \in Nat
  PROVE  /\ campaigns[id].allocated + AllocationWeight(Allocation(id, x)) <= campaigns[id].amount
         /\ campaigns[id].allocated <= campaigns[id].amount
         /\ AllocationWeight(Allocation(id, x)) \in Nat
<1>1. PICK m, f, b, al, w, am : /\ m = Len(accounts[id]) /\ f = NewShares(id, SettleSet(id, x))
                                /\ b = campaigns[id].allocationCursor + Len(Allocation(id, x))
                                /\ al = campaigns[id].allocated /\ am = campaigns[id].amount
                                /\ w = AllocationWeight(Allocation(id, x))
  OBVIOUS
<1>2. /\ Len(Allocation(id, x)) \in Nat /\ w \in Nat /\ b <= m
      /\ al + w = PrefixSum(f, m)[b]
  BY <1>1, AllocationIs
<1>3. campaigns[id].allocationCursor \in Nat /\ al \in Nat /\ am \in Nat
  BY <1>1, Typed DEF LedgerInv, Campaigns
<1>4. f \in [1 .. m -> Nat] /\ m \in Nat /\ Sum(f, m) <= am
  BY <1>1, NewSharesFit
<1>5. b \in 0 .. m
  <2>1. PICK c, k : c = campaigns[id].allocationCursor /\ k = Len(Allocation(id, x))
    OBVIOUS
  <2>2. c \in Nat /\ k \in Nat /\ b = c + k
    BY <1>1, <1>2, <1>3, <2>1
  <2> QED BY ONLY <1>2, <1>4, <2>2
<1>6. PrefixSum(f, m)[b] <= Sum(f, m) /\ PrefixSum(f, m)[b] \in Nat
  BY ONLY <1>4, <1>5, PrefixBounded
<1>7. Sum(f, m) \in Nat
  BY <1>4, SumNat
<1>8. PICK y, z : y = PrefixSum(f, m)[b] /\ z = Sum(f, m)
  OBVIOUS
<1>9. /\ al + w = y /\ y <= z /\ z <= am /\ y \in Nat /\ z \in Nat
      /\ al \in Nat /\ w \in Nat /\ am \in Nat
  BY <1>2, <1>3, <1>4, <1>6, <1>7, <1>8
<1>10. al + w <= am /\ al <= am
  BY ONLY <1>9
<1> QED BY <1>1, <1>2, <1>10

LEMMA PaidTyped ==
  LPTypeOK => /\ Len(campaigns) \in Nat
              /\ PaidOut \in [1 .. Len(campaigns) -> Nat] /\ PaidIn \in [1 .. Len(campaigns) -> Nat]
              /\ PaidOut \in [1 .. Len(campaigns) -> Int] /\ PaidIn \in [1 .. Len(campaigns) -> Int]
<1> SUFFICES ASSUME LPTypeOK
             PROVE  /\ Len(campaigns) \in Nat
                    /\ PaidOut \in [1 .. Len(campaigns) -> Nat]
                    /\ PaidIn \in [1 .. Len(campaigns) -> Nat]
                    /\ PaidOut \in [1 .. Len(campaigns) -> Int]
                    /\ PaidIn \in [1 .. Len(campaigns) -> Int]
  OBVIOUS
<1>1. \A id \in 1 .. Len(campaigns) : campaigns[id].allocated \in Nat /\ campaigns[id].amount \in Nat
  BY Typed DEF Campaigns
<1>2. PaidOut \in [1 .. Len(campaigns) -> Nat] /\ PaidIn \in [1 .. Len(campaigns) -> Nat]
  BY <1>1 DEF PaidOut, PaidIn
<1>3. \A id \in 1 .. Len(campaigns) : PaidOut[id] \in Int /\ PaidIn[id] \in Int
  BY <1>2
<1>4. PaidOut \in [1 .. Len(campaigns) -> Int] /\ PaidIn \in [1 .. Len(campaigns) -> Int]
  BY <1>3 DEF PaidOut, PaidIn
<1> QED BY <1>2, <1>4, Typed

LEMMA PaidTypedNext ==
  (LPTypeOK => /\ Len(campaigns) \in Nat
               /\ PaidOut \in [1 .. Len(campaigns) -> Nat] /\ PaidIn \in [1 .. Len(campaigns) -> Nat]
               /\ PaidOut \in [1 .. Len(campaigns) -> Int] /\ PaidIn \in [1 .. Len(campaigns) -> Int])'
BY PaidTyped, PTL

\* So the pool can always credit what the next call allocates.
LEMMA NextIsCovered ==
  ASSUME LedgerInv, CreditsOK, NEW id \in 1 .. Len(campaigns), NEW x \in Nat
  PROVE  AllocationWeight(Allocation(id, x)) <= lpBudget - lpGranted
<1>1. PICK n, f, g, w, h : /\ n = Len(campaigns) /\ f = PaidOut /\ g = PaidIn
                           /\ w = AllocationWeight(Allocation(id, x))
                           /\ h = [k \in 1 .. n |-> IF k = id THEN f[k] + w ELSE f[k]]
  OBVIOUS
<1>2. /\ n \in Nat /\ f \in [1 .. n -> Nat] /\ g \in [1 .. n -> Nat] /\ f \in [1 .. n -> Int]
      /\ id \in 1 .. n
  BY <1>1, PaidTyped DEF LedgerInv
<1>3. w \in Nat
  BY <1>1, AllocatedFits
<1>4. ASSUME NEW k \in 1 .. n PROVE h[k] \in Nat /\ h[k] <= g[k]
  <2>1. f[k] = campaigns[k].allocated /\ g[k] = campaigns[k].amount /\ f[k] \in Nat /\ g[k] \in Nat
    BY <1>1, <1>2 DEF PaidOut, PaidIn
  <2>2. PICK a, b : a = f[k] /\ b = g[k]
    OBVIOUS
  <2>3. CASE k = id
    <3>1. a + w <= b /\ a \in Nat
      BY <1>1, <2>1, <2>2, <2>3, AllocatedFits
    <3>2. h[k] = a + w
      BY <1>1, <2>2, <2>3
    <3> QED BY <1>3, <2>2, <3>1, <3>2
  <2>4. CASE k # id
    <3>1. a <= b /\ a \in Nat
      <4>1. 0 \in Nat
        OBVIOUS
      <4> QED BY <1>1, <2>1, <2>2, <4>1, AllocatedFits
    <3>2. h[k] = a
      BY <1>1, <2>2, <2>4
    <3> QED BY <2>2, <3>1, <3>2
  <2> QED BY <2>3, <2>4
<1>5. h \in [1 .. n -> Nat]
  <2>1. h = [k \in 1 .. n |-> h[k]]
    BY <1>1
  <2> QED BY <1>4, <2>1
<1>6. h \in [1 .. n -> Int]
  BY <1>5
<1>7. Sum(h, n) <= Sum(g, n) /\ Sum(h, n) \in Nat /\ Sum(g, n) \in Nat
  BY <1>2, <1>4, <1>5, SumBounds
<1>8. Sum(h, n) = Sum(f, n) + (h[id] - f[id])
  <2>1. \A k \in 1 .. n : k # id => h[k] = f[k]
    BY <1>1
  <2> QED BY <1>2, <1>6, <2>1, SumChanges
<1>9. Sum(f, n) \in Nat
  BY <1>2, SumNat
<1>10. PICK F, G, H, a, b : F = Sum(f, n) /\ G = Sum(g, n) /\ H = Sum(h, n) /\ a = f[id] /\ b = h[id]
  OBVIOUS
<1>11. /\ F \in Nat /\ G \in Nat /\ H \in Nat /\ H <= G /\ H = F + (b - a)
       /\ b = a + w /\ a \in Nat
  BY <1>1, <1>2, <1>7, <1>8, <1>9, <1>10
<1>12. w <= G - F
  BY ONLY <1>3, <1>11
<1> QED BY <1>1, <1>10, <1>12 DEF CreditsOK

LEMMA FinalizeCredits ==
  ASSUME LedgerInv, LedgerInv', CreditsOK, NEW id \in 1 .. Len(campaigns), NEW x \in Nat,
         Allocates(id, x), lpGranted' = lpGranted + AllocationWeight(Allocation(id, x)),
         lpBudget' = lpBudget
  PROVE  CreditsOK'
<1>1. PICK n, f, h, w : /\ n = Len(campaigns) /\ f = PaidOut /\ h = PaidOut'
                        /\ w = AllocationWeight(Allocation(id, x))
  OBVIOUS
<1>2. /\ Len(campaigns') = n /\ n \in Nat /\ id \in 1 .. n
      /\ f \in [1 .. n -> Nat] /\ f \in [1 .. n -> Int] /\ h \in [1 .. n -> Int]
  BY <1>1, PaidTyped, PaidTypedNext DEF LedgerInv, Allocates
<1>3. PaidIn' = PaidIn
  BY <1>1, <1>2 DEF PaidIn, Allocates
<1>4. (\A k \in 1 .. n : k # id => h[k] = f[k]) /\ h[id] = f[id] + w
  BY <1>1, <1>2 DEF PaidOut, Allocates
<1>5. Sum(h, n) = Sum(f, n) + (h[id] - f[id])
  BY <1>2, <1>4, SumChanges
<1>6. w \in Nat
  BY <1>1, AllocatedFits
<1>7. PICK a, b : a = f[id] /\ b = h[id]
  OBVIOUS
<1>8. a \in Nat /\ b = a + w /\ b - a = w
  BY <1>2, <1>4, <1>6, <1>7
<1>9. Sum(h, n) = Sum(f, n) + w
  BY <1>5, <1>7, <1>8
<1> QED BY <1>1, <1>2, <1>3, <1>9 DEF CreditsOK

LEMMA CampaignCredits ==
  ASSUME LedgerInv, LedgerInv', CreditsOK, NEW amount \in Nat, CampaignAdded(amount),
         lpBudget' = lpBudget + amount, lpGranted' = lpGranted
  PROVE  CreditsOK'
<1>1. PICK n, f, g, h, k : /\ n = Len(campaigns) /\ f = PaidOut /\ h = PaidOut'
                           /\ g = PaidIn /\ k = PaidIn'
  OBVIOUS
<1>2. /\ Len(campaigns') = n + 1 /\ n \in Nat
      /\ f \in [1 .. n -> Nat] /\ f \in [1 .. n -> Int] /\ h \in [1 .. (n + 1) -> Int]
      /\ g \in [1 .. n -> Int] /\ k \in [1 .. (n + 1) -> Int]
  BY <1>1, PaidTyped, PaidTypedNext DEF LedgerInv, CampaignAdded
<1>3. /\ \A i \in 1 .. n : h[i] = f[i] /\ k[i] = g[i]
      /\ h[n + 1] = 0 /\ k[n + 1] = amount
  BY <1>1, <1>2 DEF PaidOut, PaidIn, CampaignAdded
<1>4. Sum(h, n + 1) = Sum(f, n) + h[n + 1]
  BY <1>2, <1>3, SumExtends
<1>5. Sum(k, n + 1) = Sum(g, n) + k[n + 1]
  BY <1>2, <1>3, SumExtends
<1>6. Sum(f, n) \in Nat
  BY <1>2, SumNat
<1>7. Sum(h, n + 1) = Sum(f, n) /\ Sum(k, n + 1) = Sum(g, n) + amount
  BY <1>3, <1>4, <1>5, <1>6
<1> QED BY <1>1, <1>2, <1>7 DEF CreditsOK


-----------------------------------------------------------------------------
(* The invariant.                                                          *)

LEMMA ReportsStay ==
  ASSUME LedgerInv, LedgerInv', LPReportsOK, UNCHANGED reports, Len(campaigns') >= Len(campaigns)
  PROVE  LPReportsOK'
<1>1. Len(campaigns) \in Nat /\ Len(campaigns') \in Nat
  <2>1. Len(campaigns') \in Nat
    BY DEF LedgerInv, LPTypeOK
  <2> QED BY <2>1, Typed DEF LedgerInv
<1>2. \A i \in 1 .. Len(campaigns) : i \in 1 .. Len(campaigns')
  BY <1>1
<1> QED BY <1>2 DEF LPReportsOK

LEMMA SameCampaigns ==
  ASSUME LPInv, LedgerInv', TermsKept, UNCHANGED <<reports, lpGranted, lpBudget>>
  PROVE  LPInv'
<1>1. LedgerInv /\ CreditsOK /\ LPReportsOK /\ LPTypeOK
  BY DEF LPInv, LedgerInv
<1>2. CASE UNCHANGED campaigns
  <2>1. CreditsOK'
    BY <1>1, <1>2 DEF CreditsOK, PaidOut, PaidIn
  <2>2. LPReportsOK'
    BY <1>1, <1>2 DEF LPReportsOK
  <2> QED BY <2>1, <2>2 DEF LPInv
<1>3. CASE \E id \in 1 .. Len(campaigns) : \E I : Settles(id, I) /\ SameTerms(id)
  <2>1. PICK id \in 1 .. Len(campaigns) : \E I : Settles(id, I) /\ SameTerms(id)
    BY <1>3
  <2>2. PICK I : Settles(id, I) /\ SameTerms(id)
    BY <2>1
  <2>3. CreditsOK'
    BY <1>1, <2>2, SettlingKeepsCredits
  <2>4. Len(campaigns') = Len(campaigns) /\ Len(campaigns) \in Nat
    BY <1>1, <2>2, Typed DEF Settles
  <2>5. LPReportsOK'
    BY <1>1, <2>4, ReportsStay
  <2> QED BY <2>3, <2>5 DEF LPInv
<1> QED BY <1>2, <1>3 DEF TermsKept

LEMMA LedgerUntouched ==
  ASSUME LPInv, UNCHANGED <<lpVars, reports, lpGranted, lpBudget>>
  PROVE  LPInv'
<1>1. UNCHANGED <<now, ledgerVars, marketVars, earned>>
  BY DEF lpVars
<1>2. LPTypeOK' /\ CopiesAgree'
  <2>1. LPTypeOK'
    BY <1>1 DEF LPInv, LedgerInv, LPTypeOK, ledgerVars, marketVars
  <2>2. CopiesAgree'
    BY <1>1 DEF LPInv, LedgerInv, CopiesAgree, CopyAgrees, OncePerToken, HasPlace, Until,
                ledgerVars, marketVars
  <2> QED BY <2>1, <2>2
<1>3. AccountsOK'
  BY <1>1 DEF LPInv, LedgerInv, AccountsOK, ledgerVars
<1>4. ExactEverywhere'
  BY <1>1 DEF LPInv, LedgerInv, ExactEverywhere, Exact, DueOf, AccountsTotal, Until, ledgerVars
<1>5. CursorsOK'
  BY <1>1 DEF LPInv, LedgerInv, CursorsOK, Settling, Shares, ledgerVars
<1>6. LedgerInv' /\ TermsKept
  BY <1>1, <1>2, <1>3, <1>4, <1>5 DEF LedgerInv, TermsKept, ledgerVars
<1> QED BY <1>6, SameCampaigns

LEMMA FinalizingKeeps ==
  ASSUME LPInv, NEW id \in 1 .. Len(campaigns), NEW x \in Nat, Finalize_LP(id, x), UNCHANGED reports
  PROVE  LPInv'
<1>1. LedgerInv /\ CreditsOK /\ LPReportsOK
  BY DEF LPInv
<1>2. /\ FinalizeLP(phase, id, x) /\ lpBudget' = lpBudget
      /\ lpGranted' = lpGranted + AllocationWeight(Allocation(id, x))
  BY DEF Finalize_LP
<1>3. LedgerInv' /\ Allocates(id, x)
  BY <1>1, <1>2, FinalizeKeeps
<1>4. CreditsOK'
  BY <1>1, <1>2, <1>3, FinalizeCredits
<1>5. Len(campaigns') = Len(campaigns) /\ Len(campaigns) \in Nat
  BY <1>1, <1>3, Typed DEF Allocates, LedgerInv
<1>6. LPReportsOK'
  BY <1>1, <1>3, <1>5, ReportsStay
<1> QED BY <1>3, <1>4, <1>6 DEF LPInv

LEMMA SponsoringKeeps ==
  ASSUME LPInv, NEW amount \in Amounts, NEW fee, NEW k \in LPPool, NEW minimum \in MinimumValues,
         SponsorLP(amount, fee, k, minimum)
  PROVE  LPInv'
<1>1. LedgerInv /\ CreditsOK /\ LPReportsOK /\ amount \in Nat
  BY SealedInputsAssumption DEF LPInv
<1>2. /\ AddCampaign(phase, amount, k, minimum) /\ lpBudget' = lpBudget + amount
      /\ UNCHANGED <<lpGranted, reports>>
  BY DEF SponsorLP
<1>3. LedgerInv' /\ CampaignAdded(amount)
  BY <1>1, <1>2, CampaignKeeps
<1>4. CreditsOK'
  BY <1>1, <1>2, <1>3, CampaignCredits
<1>5. Len(campaigns') = Len(campaigns) + 1 /\ Len(campaigns) \in Nat
  BY <1>1, <1>3, Typed DEF CampaignAdded, LedgerInv
<1>6. Len(campaigns') >= Len(campaigns)
  BY <1>5
<1>7. LPReportsOK'
  BY <1>1, <1>2, <1>3, <1>6, ReportsStay
<1> QED BY <1>3, <1>4, <1>7 DEF LPInv

LEMMA WorkflowKeeps ==
  ASSUME LPInv, Workflow
  PROVE  LPInv'
<1>1. LedgerInv /\ CreditsOK /\ LPReportsOK /\ LPTypeOK /\ DOMAIN campaigns = 1 .. Len(campaigns)
  BY Typed DEF LPInv, LedgerInv
<1>2. UNCHANGED <<lpVars, lpGranted, lpBudget>>
  BY DEF Workflow, lpPoolVars
<1>3. LedgerInv' /\ CreditsOK' /\ campaigns' = campaigns
  <2>1. UNCHANGED <<now, ledgerVars, marketVars, earned>>
    BY <1>2 DEF lpVars
  <2>2. LPTypeOK'
    BY <1>1, <2>1 DEF LPTypeOK, ledgerVars, marketVars
  <2>3. CopiesAgree'
    BY <1>1, <2>1 DEF LedgerInv, CopiesAgree, CopyAgrees, OncePerToken, HasPlace, Until,
                      ledgerVars, marketVars
  <2>4. AccountsOK'
    BY <1>1, <2>1 DEF LedgerInv, AccountsOK, ledgerVars
  <2>5. ExactEverywhere'
    BY <1>1, <2>1 DEF LedgerInv, ExactEverywhere, Exact, DueOf, AccountsTotal, Until, ledgerVars
  <2>6. CursorsOK'
    BY <1>1, <2>1 DEF LedgerInv, CursorsOK, Settling, Shares, ledgerVars
  <2>7. CreditsOK'
    BY <1>1, <1>2, <2>1 DEF CreditsOK, PaidOut, PaidIn, ledgerVars
  <2> QED BY <2>1, <2>2, <2>3, <2>4, <2>5, <2>6, <2>7 DEF LedgerInv, ledgerVars
<1> DEFINE Fine(r) == /\ r.kind = "price" => /\ r.id \in 1 .. Len(campaigns) /\ r.price \in Prices
                                             /\ r.sourceBlock \in Nat
                      /\ r.kind = "finalize" => r.id \in 1 .. Len(campaigns) /\ r.maxItems \in Nat
<1>4. \E r : SendReport(r) /\ Fine(r)
  <2>1. CASE \E id \in DOMAIN campaigns : PriceReport(id) \/ FinalizeReport(id)
    <3>1. PICK id \in 1 .. Len(campaigns) : PriceReport(id) \/ FinalizeReport(id)
      BY <1>1, <2>1
    <3>2. CASE PriceReport(id)
      <4>1. PICK r : r = [kind |-> "price", id |-> id, price |-> slot0[campaigns[id].pool],
                          sourceBlock |-> now, observedAt |-> now]
        OBVIOUS
      <4>2. SendReport(r)
        BY <3>2, <4>1 DEF PriceReport
      <4>3. slot0[campaigns[id].pool] \in Prices /\ now \in Nat
        BY <1>1, Typed DEF LPTypeOK, Campaigns
      <4> QED BY <4>1, <4>2, <4>3
    <3>3. CASE FinalizeReport(id)
      <4>1. PICK r : r = [kind |-> "finalize", id |-> id, maxItems |-> CloseChunk]
        OBVIOUS
      <4>2. SendReport(r)
        BY <3>3, <4>1 DEF FinalizeReport
      <4> QED BY <4>1, <4>2, CreAssumption
    <3> QED BY <3>1, <3>2, <3>3
  <2>2. CASE ReportClose
    <3>1. PICK r : r = IF arkivBallots THEN [kind |-> "closeArkiv", cursor |-> closeCursor, ballots |-> Page]
                       ELSE [kind |-> "close", maxVoters |-> CloseChunk]
      OBVIOUS
    <3>2. SendReport(r)
      BY <2>2, <3>1 DEF ReportClose
    <3>3. r.kind \in {"closeArkiv", "close"}
      BY <3>1
    <3> QED BY <3>2, <3>3
  <2>3. CASE \E order \in Orders : ReportResult(order)
    <3>1. PICK order \in Orders : ReportResult(order)
      BY <2>3
    <3>2. PICK r : r = [kind |-> "result", inputs |-> inputsHash, order |-> order]
      OBVIOUS
    <3>3. SendReport(r)
      BY <3>1, <3>2 DEF ReportResult
    <3> QED BY <3>2, <3>3
  <2> QED BY <2>1, <2>2, <2>3 DEF Workflow
<1>5. \A r \in reports : Fine(r)
  BY <1>1 DEF LPReportsOK
<1>6. PICK r : SendReport(r) /\ Fine(r)
  BY <1>4
<1>7. reports' = reports \cup {r}
  BY <1>6 DEF SendReport
<1>8. \A q \in reports' : Fine(q)
  <2> HIDE DEF Fine
  <2> QED BY <1>5, <1>6, <1>7
<1>9. LPReportsOK'
  BY <1>3, <1>8 DEF LPReportsOK
<1> QED BY <1>3, <1>9 DEF LPInv


LEMMA OwnersKeep ==
  ASSUME LPInv, Owners
  PROVE  LPInv'
<1>1. LedgerInv /\ LPTypeOK /\ DOMAIN campaigns = 1 .. Len(campaigns)
  BY Typed DEF LPInv, LedgerInv
<1>2. UNCHANGED <<reports, lpGranted, lpBudget>>
  BY DEF Owners, vars
<1>3. LedgerInv' /\ TermsKept
  <2>1. CASE \E t \in Position, id \in DOMAIN campaigns : NotifySubscribe(phase, t, id)
    <3>1. PICK t \in Position, id \in 1 .. Len(campaigns) : NotifySubscribe(phase, t, id)
      BY <1>1, <2>1
    <3>2. LedgerInv' /\ UNCHANGED campaigns
      BY <1>1, <3>1, SubscribeKeeps
    <3> QED BY <3>2 DEF TermsKept
  <2>2. CASE \E t \in Position, l \in Liquidities : l # liquidityOf[t] /\ ModifyLiquidity(t, l)
    <3>1. PICK t \in Position, l \in Liquidities : ModifyLiquidity(t, l)
      BY <2>2
    <3> QED BY <1>1, <3>1, ModifyKeeps DEF TermsKept
  <2>3. CASE \E t \in Position : Unsubscribe(t)
    BY <1>1, <2>3, UnsubscribeKeeps
  <2>4. CASE \E t \in Position, to \in Provider : to # ownerOf[t] /\ Transfer(t, to)
    BY <1>1, <2>4, TransferKeeps
  <2>5. CASE \E k \in LPPool, price \in Prices : price # slot0[k] /\ MovePrice(k, price)
    <3>1. PICK k \in LPPool, price \in Prices : MovePrice(k, price)
      BY <2>5
    <3>2. LedgerInv' /\ UNCHANGED campaigns
      BY <1>1, <3>1, MovePriceKeeps
    <3> QED BY <3>2 DEF TermsKept
  <2> QED BY <2>1, <2>2, <2>3, <2>4, <2>5 DEF Owners
<1> QED BY <1>2, <1>3, SameCampaigns

LEMMA ReportingKeeps ==
  ASSUME LPInv, NEW r \in reports, OnLPReport(r)
  PROVE  LPInv'
<1>1. LedgerInv /\ LPReportsOK
  BY DEF LPInv
<1>2. CASE /\ r.kind = "price"
           /\ SetPrice(phase, r.id, r.price, r.sourceBlock, r.observedAt)
           /\ UNCHANGED <<vars, lpPoolVars>>
  <2>1. UNCHANGED <<reports, lpGranted, lpBudget>>
    BY <1>2 DEF vars, lpPoolVars
  <2>2. r.id \in 1 .. Len(campaigns) /\ r.price \in Prices /\ r.sourceBlock \in Nat
    BY <1>1, <1>2 DEF LPReportsOK
  <2>3. PICK id, price, block, at : id = r.id /\ price = r.price /\ block = r.sourceBlock
                                    /\ at = r.observedAt
    OBVIOUS
  <2>4. SetPrice(phase, id, price, block, at)
    BY ONLY <1>2, <2>3
  <2>5. id \in 1 .. Len(campaigns) /\ price \in Prices /\ block \in Nat
    BY ONLY <2>2, <2>3
  <2>6. LedgerInv' /\ \E I : Settles(id, I) /\ SameTerms(id)
    BY <1>1, <2>4, <2>5, PriceKeeps
  <2>7. TermsKept
    BY <2>5, <2>6 DEF TermsKept
  <2> QED BY <2>1, <2>6, <2>7, SameCampaigns
<1>3. CASE r.kind = "finalize" /\ Finalize_LP(r.id, r.maxItems) /\ UNCHANGED reports
  <2>1. r.id \in 1 .. Len(campaigns) /\ r.maxItems \in Nat
    BY <1>1, <1>3 DEF LPReportsOK
  <2> QED BY <1>3, <2>1, FinalizingKeeps
<1>4. CASE OnReport(r) /\ UNCHANGED <<lpVars, lpPoolVars>>
  <2>1. UNCHANGED <<lpVars, reports, lpGranted, lpBudget>>
    BY <1>4 DEF OnReport, lpPoolVars
  <2> QED BY <2>1, LedgerUntouched
<1> QED BY <1>2, <1>3, <1>4 DEF OnLPReport

LEMMA TimeKeeps ==
  ASSUME LPInv, TimePasses
  PROVE  LPInv'
<1>1. UNCHANGED <<reports, lpGranted, lpBudget>>
  BY DEF TimePasses, vars, lpPoolVars
<1>2. LedgerInv' /\ UNCHANGED campaigns
  <2>1. LedgerInv /\ Tick
    BY DEF LPInv, TimePasses
  <2> QED BY <2>1, TickKeeps
<1> QED BY <1>1, <1>2, SameCampaigns DEF TermsKept

LEMMA LPStep ==
  ASSUME LPInv, [LPNext]_lpAllVars
  PROVE  LPInv'
<1>1. DOMAIN campaigns = 1 .. Len(campaigns)
  BY Typed DEF LPInv, LedgerInv
<1>2. CASE UNCHANGED <<lpVars, reports, lpGranted, lpBudget>>
  BY <1>2, LedgerUntouched
<1>3. CASE UNCHANGED lpAllVars
  <2>1. UNCHANGED <<lpVars, reports, lpGranted, lpBudget>>
    BY <1>3 DEF lpAllVars, vars, lpPoolVars
  <2> QED BY <1>2, <2>1
<1>4. CASE CommonSteps /\ UNCHANGED <<reports, lpVars, lpPoolVars>>
  BY <1>2, <1>4 DEF lpPoolVars
<1>5. CASE VoteLP /\ UNCHANGED <<reports, lpVars, lpPoolVars>>
  BY <1>2, <1>5 DEF lpPoolVars
<1>6. CASE SetLPVoting
  <2>1. UNCHANGED <<lpVars, reports, lpGranted, lpBudget>>
    BY <1>6 DEF SetLPVoting, vars
  <2> QED BY <1>2, <2>1
<1>7. CASE \E amount \in Amounts, fee \in Fees, k \in LPPool, minimum \in MinimumValues :
             SponsorLP(amount, fee, k, minimum)
  BY <1>7, SponsoringKeeps
<1>8. CASE Owners
  BY <1>8, OwnersKeep
<1>9. CASE AnyoneFinalizes
  <2>1. PICK id \in 1 .. Len(campaigns), n \in Nat : Finalize_LP(id, n) /\ UNCHANGED reports
    BY <1>1, <1>9, LPChunksAssumption DEF AnyoneFinalizes
  <2> QED BY <2>1, FinalizingKeeps
<1>10. CASE AnyoneCloses
  <2>1. UNCHANGED <<lpVars, reports, lpGranted, lpBudget>>
    BY <1>10 DEF AnyoneCloses, lpPoolVars
  <2> QED BY <1>2, <2>1
<1>11. CASE Workflow
  BY <1>11, WorkflowKeeps
<1>12. CASE \E r \in reports : OnLPReport(r)
  BY <1>12, ReportingKeeps
<1>13. CASE TimePasses
  BY <1>13, TimeKeeps
<1> QED BY <1>3, <1>4, <1>5, <1>6, <1>7, <1>8, <1>9, <1>10, <1>11, <1>12, <1>13 DEF LPNext

LEMMA LPStart ==
  ASSUME LPSpecInit
  PROVE  LPInv
<1>1. /\ now = 0 /\ campaigns = << >> /\ positions = << >> /\ accounts = << >>
      /\ accrued = << >> /\ earned = << >> /\ Len(campaigns) = 0
      /\ activeCampaign = [t \in Position |-> 0]
      /\ liquidityOf \in [Position -> Liquidities] /\ ownerOf \in [Position -> Provider]
      /\ slot0 \in [LPPool -> Prices]
      /\ lpGranted = 0 /\ lpBudget = 0 /\ reports = {}
  BY DEF LPSpecInit, LPInit, Init
<1>2. LPTypeOK
  BY <1>1 DEF LPTypeOK
<1>3. CopiesAgree /\ AccountsOK /\ ExactEverywhere /\ CursorsOK
  BY <1>1 DEF CopiesAgree, AccountsOK, ExactEverywhere, CursorsOK
<1>4. CreditsOK
  <2>1. PaidOut \in [1 .. 0 -> Int] /\ PaidIn \in [1 .. 0 -> Int]
    BY <1>1, <1>2, PaidTyped
  <2>2. Sum(PaidOut, 0) = 0 /\ Sum(PaidIn, 0) = 0
    BY <2>1, EmptySum
  <2> QED BY <1>1, <2>2 DEF CreditsOK
<1>5. LPReportsOK
  BY <1>1 DEF LPReportsOK
<1> QED BY <1>2, <1>3, <1>4, <1>5 DEF LPInv, LedgerInv

\* The ledger of LPVoting.sol agrees with the market, every owner has one
\* account, accrual is exact and allocation follows the shares, however owners
\* subscribe, change, move and stop their positions while prices are reported
\* and the clock ticks, and however far the campaigns are finalised.
THEOREM LiquidityInvariant == LPSpec => []LPInv
<1>1. LPSpecInit => LPInv
  BY LPStart
<1>2. LPInv /\ [LPNext]_lpAllVars => LPInv'
  BY LPStep
<1> QED BY <1>1, <1>2, PTL DEF LPSpec

\* Lazy settling (_settle of LPVoting.sol) never loses or repeats a moment:
\* what an owner accrued and has pending is the value of its subscribed
\* liquidity over time, and totalAccrued is the sum over the accounts.
THEOREM AccrualIsExact == LPSpec => []AccrualExact
<1>1. LPInv => AccrualExact
  BY ExactIs DEF LPInv, LedgerInv
<1> QED BY <1>1, LiquidityInvariant, PTL

\* What finalizeLP allocates is within what the sponsors deposited, so that
\* creditLP of LPCreRankedShares.sol never refuses a share and a closing round
\* is never stuck on it.
THEOREM CreditsAlwaysCovered == LPSpec => []CreditsCovered
<1>1. LPInv => CreditsCovered
  <2> SUFFICES ASSUME LPInv PROVE CreditsCovered
    OBVIOUS
  <2>1. DOMAIN campaigns = 1 .. Len(campaigns) /\ LedgerInv /\ CreditsOK
    BY Typed DEF LPInv, LedgerInv
  <2>2. ASSUME NEW id \in DOMAIN campaigns, NEW n \in LPChunks, phase = "Closing"
        PROVE  CanCredit(AllocationWeight(Allocation(id, n)))
    <3>1. n \in Nat /\ id \in 1 .. Len(campaigns)
      BY <2>1, LPChunksAssumption
    <3>2. AllocationWeight(Allocation(id, n)) <= lpBudget - lpGranted
      BY <2>1, <3>1, NextIsCovered
    <3> QED BY <2>2, <3>2 DEF CanCredit
  <2> QED BY <2>1, <2>2 DEF CreditsCovered, CreditsOK, PaidOut, PaidIn
<1> QED BY <1>1, LiquidityInvariant, PTL
===============================================================================
