-------------------------- MODULE RankedSharesProofs --------------------------
(***************************************************************************)
(* The public pool, for any number of voters, tokens, projects, deposits,  *)
(* sponsorships and ballots, with ballots in the pool or in Arkiv.         *)
(*                                                                         *)
(* PoolInv is the induction hypothesis of every theorem here.  It joins    *)
(* what the engine keeps (EngineInv), types, and three parts that no       *)
(* property states by itself: where ballots can be while the round is set  *)
(* up and in which of the two stores (BallotsInv), what each address was   *)
(* given its weight for (WeightIsEarned), and what the custody owes at     *)
(* each phase (EscrowInv).                                                 *)
(***************************************************************************)
EXTENDS RankedShares, TallyProofs, PoolBaseProofs

PoolTypeOK ==
  /\ ballot \in [Voter -> Seq(Nat)] /\ defaultRank \in [Voter -> Nat]
  /\ votingOpen \in BOOLEAN /\ pastDeadline \in BOOLEAN
  /\ balance \in Nat
  /\ CustodyOK(Voter)
  /\ contributed \in [Voter -> Nat]
  /\ arkivBallots \in BOOLEAN
  /\ publicRefs \in [Voter -> [payload: Seq(Nat), revision: Nat]]

\* Ballots exist only once voting is open, in one of the two stores.
BallotsInv ==
  /\ ~votingOpen => ~tallyStarted
  /\ arkivBallots \/ ~votingOpen => \A v \in Voter : ballot[v] = << >>
  /\ ~arkivBallots \/ ~votingOpen => \A v \in Voter : publicRefs[v] = NoRef
  /\ \A v \in Voter : publicRefs[v].revision = 0 => publicRefs[v].payload = << >>
  /\ ~tallyStarted => BallotsOK(ballot) /\ BallotsOK(Payloads)

ClaimedCosts == [c \in 1 .. Len(costs) |-> IF c \in claimed THEN costs[c] ELSE 0]

\* The custody holds the budget until the outcome is known, and from then on
\* what the outcome still owes.
EscrowInv ==
  /\ claimed \subseteq funded
  /\ claimedTotal = Sum(ClaimedCosts, Len(costs))
  /\ ~tallyDone => claimed = {}
  /\ tallyStarted /\ ~tallyDone => balance >= budget
  /\ tallyDone => balance >= spent - claimedTotal

PoolInv == EngineInv /\ PoolTypeOK /\ BallotsInv /\ WeightIsEarned /\ EscrowInv

-----------------------------------------------------------------------------
(* Phases, and the engine before the tally.                                *)

LEMMA Phases ==
  /\ phase = "Setup" => ~tallyDone /\ ~tallyStarted /\ ~votingOpen
  /\ phase = "Open" => ~tallyDone /\ ~tallyStarted /\ votingOpen
  /\ phase = "Done" => tallyDone
BY DEF phase

LEMMA LedgerBefore ==
  ASSUME EngineInv, ~tallyStarted
  PROVE  /\ LedgerOK(ledger)
         /\ spent = 0 /\ funded = {} /\ fundedOrder = << >> /\ ~tallyDone
<1>1. RosterWeight(ledger) \in Nat /\ ledger \in Ledgers
  BY RosterWeightNat DEF EngineInv, EngineTypeOK
<1> QED BY <1>1 DEF EngineInv, LedgerOK

\* Before the tally the engine only needs a good ledger and positive costs.
LEMMA EngineBefore ==
  ASSUME EngineInv, ~tallyStarted, LedgerOK(ledger'), costs' \in Seq(Nat \ {0}),
         UNCHANGED tallyVars
  PROVE  EngineInv'
<1>1. UNCHANGED <<budget, rankLevel, spent, funded, fundedOrder, tallyStarted, tallyDone>>
  BY DEF tallyVars
<1>2. spent' = 0 /\ funded' = {} /\ fundedOrder' = << >> /\ ~tallyDone' /\ ~tallyStarted'
  BY <1>1, LedgerBefore
<1>3. EngineTypeOK'
  <2>1. << >> \in Seq(Projects')
    OBVIOUS
  <2> QED BY <1>1, <1>2, <2>1 DEF EngineInv, EngineTypeOK, LedgerOK
<1>4. (spent = Sum(CostIfFunded, Len(costs)))'
  <2>1. Len(costs') \in Nat /\ CostIfFunded' \in [1 .. Len(costs') -> Int]
        /\ \A c \in 1 .. Len(costs') : CostIfFunded'[c] = 0
    BY <1>2 DEF CostIfFunded
  <2>2. Sum(CostIfFunded', Len(costs')) = 0
    BY <2>1, SumOfZeros
  <2> QED BY <1>2, <2>2
<1>5. /\ RosterOK(ledger') /\ ledger'.granted = RosterWeight(ledger')
      /\ ledger'.granted <= ledger'.total /\ RosterWeight(ledger') \in Nat
      /\ \A v \in Voter : ~IsVoter(ledger', v) => ledger'.weight[v] = 0
  BY RosterWeightNat DEF LedgerOK
<1>6. (\A v \in Voter : ~IsVoter(ledger, v) => ledger.weight[v] = 0)'
  BY <1>5 DEF IsVoter
<1> QED BY <1>2, <1>3, <1>4, <1>5, <1>6, RosterOfPrimed DEF EngineInv

-----------------------------------------------------------------------------
(* Granting.                                                               *)

\* The ledger M is L with the voters of the roster still on it.
Extends(M, L) == \A v \in Voter : IsVoter(L, v) => IsVoter(M, v)

LEMMA ContributionKeeps ==
  ASSUME LedgerOK(ledger), NEW who \in Voter, NEW amount \in Nat,
         CanGrant(IncreaseTotalWeight(ledger, amount), amount)
  PROVE  LET M == WithContribution(who, amount)
         IN  /\ LedgerOK(M) /\ Extends(M, ledger)
             /\ M.weight = [ledger.weight EXCEPT ![who] = @ + amount]
<1> DEFINE T == IncreaseTotalWeight(ledger, amount)
           M == GrantWeight(T, who, amount)
<1>1. /\ LedgerOK(T) /\ T.voters = ledger.voters /\ T.weight = ledger.weight
  BY IncreaseKeeps
<1>2. Extends(T, ledger)
  BY <1>1 DEF Extends, IsVoter
<1> HIDE DEF T
<1>3. CanGrant(T, amount)
  BY DEF T
<1>4. /\ LedgerOK(M) /\ Extends(M, T)
      /\ M.weight = [T.weight EXCEPT ![who] = @ + amount]
  BY <1>1, <1>3, GrantKeeps DEF Extends
<1> QED BY <1>1, <1>2, <1>4 DEF WithContribution, Extends, T

\* The loop of sponsor() exists as a function and unfolds one seat at a time.
LEMMA GrantSeatsUnfold ==
  ASSUME NEW L, NEW members, Len(members) \in Nat, NEW p
  PROVE  \E after : /\ after[0] = L
                    /\ \A i \in 1 .. Len(members) :
                         after[i] = GrantWeight(after[i - 1], members[i], p)
                    /\ GrantSeats(L, members, p) = after[Len(members)]
<1> DEFINE n == Len(members)
           IsLoop(f, k) == f = [i \in 0 .. k |-> IF i = 0 THEN L ELSE GrantWeight(f[i - 1], members[i], p)]
           G == {k \in Nat : k <= n => \E f : IsLoop(f, k)}
<1>1. 0 \in G
  <2> DEFINE f == [i \in 0 .. 0 |-> L]
  <2>1. IsLoop(f, 0)
    OBVIOUS
  <2> QED BY <2>1
<1>2. ASSUME NEW k \in G PROVE k + 1 \in G
  <2> SUFFICES ASSUME k + 1 <= n PROVE \E f : IsLoop(f, k + 1)
    <3> HIDE DEF IsLoop
    <3> QED OBVIOUS
  <2>1. PICK f : IsLoop(f, k)
    OBVIOUS
  <2> DEFINE g == [i \in 0 .. (k + 1) |-> IF i = k + 1 THEN GrantWeight(f[k], members[k + 1], p) ELSE f[i]]
  <2>2. \A i \in 0 .. (k + 1) : g[i] = IF i = 0 THEN L ELSE GrantWeight(g[i - 1], members[i], p)
    <3> TAKE i \in 0 .. (k + 1)
    <3>1. CASE i = k + 1
      <4>1. g[i] = GrantWeight(f[k], members[k + 1], p) /\ g[i - 1] = f[k]
        BY <3>1
      <4> HIDE DEF g
      <4> QED BY <3>1, <4>1
    <3>2. CASE i # k + 1
      <4>1. i \in 0 .. k /\ g[i] = f[i] /\ (i # 0 => g[i - 1] = f[i - 1])
        BY <3>2
      <4>2. f[i] = IF i = 0 THEN L ELSE GrantWeight(f[i - 1], members[i], p)
        BY <4>1, <2>1
      <4> HIDE DEF g
      <4> QED BY <4>1, <4>2
    <3> QED BY <3>1, <3>2
  <2>3. IsLoop(g, k + 1)
    <3>1. g = [i \in 0 .. (k + 1) |-> g[i]]
      OBVIOUS
    <3> HIDE DEF g
    <3> QED BY <2>2, <3>1
  <2> HIDE DEF g, IsLoop
  <2> QED BY <2>3
<1>3. n \in G
  <2> HIDE DEF G
  <2> G \in SUBSET Nat
    BY DEF G
  <2> QED BY <1>1, <1>2, InductionOnSets
<1> DEFINE after == CHOOSE f : IsLoop(f, n)
<1>4. IsLoop(after, n)
  <2>1. \E f : IsLoop(f, n)
    BY <1>3
  <2> HIDE DEF IsLoop
  <2> QED BY <2>1
<1>5. GrantSeats(L, members, p) = after[n]
  BY DEF GrantSeats
<1> HIDE DEF after
<1>6. after[0] = L /\ \A i \in 1 .. n : after[i] = GrantWeight(after[i - 1], members[i], p)
  BY <1>4
<1> QED BY <1>5, <1>6

\* A list sponsorship gives every named address its share as often as it is
\* named, when the sum of the shares may be granted.
LEMMA GrantSeatsKeeps ==
  ASSUME NEW L, LedgerOK(L), NEW members \in Seq(Voter), NEW p \in Nat,
         CanGrant(L, p * Len(members))
  PROVE  LET M == GrantSeats(L, members, p)
         IN  /\ LedgerOK(M) /\ Extends(M, L)
             /\ \A v \in Voter :
                  M.weight[v] = L.weight[v] + p * Times(members, v, Len(members))
<1> DEFINE n == Len(members)
<1>0. n \in Nat /\ \A i \in 1 .. n : members[i] \in Voter
  OBVIOUS
<1>1. PICK after : /\ after[0] = L
                   /\ \A i \in 1 .. n : after[i] = GrantWeight(after[i - 1], members[i], p)
                   /\ GrantSeats(L, members, p) = after[n]
  <2>1. Len(members) \in Nat
    OBVIOUS
  <2>2. PICK g : g = GrantSeats(L, members, p)
    OBVIOUS
  <2> QED BY <2>1, <2>2, GrantSeatsUnfold
<1> HIDE DEF n
<1> DEFINE Good(k, M) == /\ LedgerOK(M) /\ Extends(M, L)
                         /\ M.granted = L.granted + p * k /\ M.total = L.total
                         /\ \A v \in Voter : M.weight[v] = L.weight[v] + p * Times(members, v, k)
           G == {k \in Nat : k <= n => Good(k, after[k])}
<1>2. L.granted \in Nat /\ L.total \in Nat /\ L.weight \in [Voter -> Nat]
      /\ L.granted + p * n <= L.total
  BY DEF LedgerOK, Ledgers, CanGrant, n
<1>3. 0 \in G
  <2>1. \A v \in Voter : Times(members, v, 0) = 0
    BY TimesStep
  <2> QED BY <1>1, <1>2, <2>1 DEF Extends
<1>4. ASSUME NEW k \in G, k < n PROVE k + 1 \in G
  <2> DEFINE A == after[k]
             v == members[k + 1]
             M == GrantWeight(A, v, p)
  <2>1. k \in Nat /\ k + 1 \in 1 .. n /\ (k + 1) - 1 = k
    BY <1>0, <1>4
  <2>2. Good(k, A)
    BY <1>4, <1>0, <2>1
  <2>3. v \in Voter /\ after[k + 1] = M
    BY <1>0, <1>1, <2>1
  <2> HIDE DEF v, A
  <2>4. p * (k + 1) = p * k + p /\ p * k \in Nat /\ p * (k + 1) <= p * n
    <3>1. PICK j \in Nat : j = k + 1 /\ j <= n
      BY <1>0, <1>4, <2>1
    <3>2. p * j <= p * n
      BY <1>0, <3>1, ProductMonotone
    <3>3. p * (k + 1) = p * k + p /\ p * k \in Nat
      BY <2>1
    <3> QED BY <3>1, <3>2, <3>3
  <2>5. LedgerOK(A) /\ CanGrant(A, p)
    <3>1. A.granted = L.granted + p * k /\ A.total = L.total /\ LedgerOK(A)
      BY <2>2
    <3>2. p * n \in Nat
      BY <1>0
    <3> HIDE DEF Good, G
    <3> QED BY <1>2, <2>4, <3>1, <3>2 DEF CanGrant
  <2>6. /\ LedgerOK(M)
        /\ \A u \in Voter : IsVoter(A, u) => IsVoter(M, u)
        /\ M.weight = [A.weight EXCEPT ![v] = @ + p]
        /\ M.granted = A.granted + p /\ M.total = A.total
    BY <2>3, <2>5, GrantKeeps
  <2>7. ASSUME NEW u \in Voter
        PROVE  M.weight[u] = L.weight[u] + p * Times(members, u, k + 1)
    <3>1. A.weight \in [Voter -> Nat] /\ A.weight[u] = L.weight[u] + p * Times(members, u, k)
      BY <2>2 DEF LedgerOK, Ledgers
    <3>2. Times(members, u, k) \in Nat
          /\ Times(members, u, k + 1) = Times(members, u, k) + IF v = u THEN 1 ELSE 0
      <4> HIDE DEF G, Good, M
      <4> QED BY <2>1, TimesStep DEF v
    <3>3. M.weight[u] = A.weight[u] + IF v = u THEN p ELSE 0
      BY <2>3, <2>6, <3>1
    <3>4. p * (Times(members, u, k) + 1) = p * Times(members, u, k) + p
          /\ p * Times(members, u, k) \in Nat
      BY <3>2
    <3>5. L.weight[u] \in Nat
      BY <1>2
    <3> HIDE DEF G, Good, M
    <3>6. CASE v = u
      BY <3>1, <3>2, <3>3, <3>4, <3>5, <3>6
    <3>7. CASE v # u
      BY <3>1, <3>2, <3>3, <3>4, <3>5, <3>7
    <3> QED BY <3>6, <3>7
  <2>8. Good(k + 1, M)
    <3>1. Extends(M, L)
      BY <2>2, <2>6 DEF Extends
    <3>2. M.granted = L.granted + p * (k + 1) /\ M.total = L.total
      BY <1>2, <2>2, <2>4, <2>6
    <3> QED BY <2>6, <2>7, <3>1, <3>2
  <2> HIDE DEF Good, M
  <2> QED BY <2>1, <2>3, <2>8
<1>5. Good(n, after[n])
  <2> HIDE DEF Good
  <2>1. G \in SUBSET Nat
    OBVIOUS
  <2> HIDE DEF G
  <2>2. 0 .. n \subseteq G
    BY <1>0, <1>3, <1>4, <2>1, InductionUpTo
  <2> QED BY <1>0, <2>2 DEF G
<1> QED BY <1>1, <1>5 DEF n

-----------------------------------------------------------------------------
(* Weight earned.                                                          *)

LEMMA EarnedIs ==
  WeightIsEarned <=>
    (~tallyStarted =>
       \A v \in Voter :
         ledger.weight[v] = contributed[v] + Sum(SeatWeight(v), Len(sponsorships)))
BY DEF WeightIsEarned, SeatWeight

\* Neither seats nor weights move, or the tally begins.
LEMMA EarnedSame ==
  ASSUME WeightIsEarned, UNCHANGED <<sponsorships, seatHolder, contributed>>,
         ~tallyStarted' => ~tallyStarted /\ ledger'.weight = ledger.weight
  PROVE  WeightIsEarned'
BY DEF WeightIsEarned, SeatsHeld

LEMMA EarnedByDeposit ==
  ASSUME WeightIsEarned, PoolTypeOK, ~tallyStarted, ledger \in Ledgers,
         NEW who \in Voter, NEW amount \in Nat,
         UNCHANGED <<sponsorships, seatHolder>>,
         contributed' = [contributed EXCEPT ![who] = @ + amount],
         ledger'.weight = [ledger.weight EXCEPT ![who] = @ + amount]
  PROVE  WeightIsEarned'
<1> SUFFICES ASSUME NEW v \in Voter
             PROVE  ledger'.weight[v] = contributed'[v] + Sum(SeatWeight(v)', Len(sponsorships'))
  BY DEF WeightIsEarned, SeatWeight
<1>1. SeatWeight(v)' = SeatWeight(v)
  BY DEF SeatWeight, SeatsHeld
<1>2. ledger.weight[v] = contributed[v] + Sum(SeatWeight(v), Len(sponsorships))
  BY EarnedIs
<1>3. Sum(SeatWeight(v), Len(sponsorships)) \in Nat
  BY SeatWeightNat DEF PoolTypeOK, CustodyOK
<1>4. contributed \in [Voter -> Nat] /\ ledger.weight \in [Voter -> Nat]
  BY DEF PoolTypeOK, CustodyOK, Ledgers
<1> HIDE DEF SeatWeight
<1> QED BY <1>1, <1>2, <1>3, <1>4


LEMMA EarnedByPush ==
  ASSUME WeightIsEarned, PoolTypeOK, ~tallyStarted, ledger \in Ledgers,
         NEW s \in Sponsorship(Voter), PushSponsorship(s), UNCHANGED contributed,
         \A v \in Voter : ledger'.weight[v]
                            = ledger.weight[v] + s.perSeat * Times(s.members, v, Len(s.members))
  PROVE  WeightIsEarned'
<1> SUFFICES ASSUME NEW v \in Voter
             PROVE  ledger'.weight[v] = contributed'[v] + Sum(SeatWeight(v)', Len(sponsorships'))
  BY DEF WeightIsEarned, SeatWeight
<1>0. PICK old, new, share : /\ old = Sum(SeatWeight(v), Len(sponsorships))
                             /\ new = Sum(SeatWeight(v)', Len(sponsorships'))
                             /\ share = s.perSeat * Times(s.members, v, Len(s.members))
  OBVIOUS
<1>1. share \in Nat /\ new = old + share
  BY <1>0, PushEarns DEF PoolTypeOK
<1>2. old \in Nat
  BY <1>0, SeatWeightNat DEF PoolTypeOK, CustodyOK
<1>3. ledger.weight[v] = contributed[v] + old /\ ledger'.weight[v] = ledger.weight[v] + share
  BY <1>0, EarnedIs
<1>4. contributed[v] \in Nat /\ ledger.weight[v] \in Nat
  BY DEF PoolTypeOK, CustodyOK, Ledgers
<1> QED BY <1>0, <1>1, <1>2, <1>3, <1>4

LEMMA EarnedByClaim ==
  ASSUME WeightIsEarned, PoolTypeOK, ~tallyStarted, ledger \in Ledgers,
         NEW who \in Voter, NEW id \in 1 .. Len(sponsorships), NEW t \in TokenId,
         TakeSeat(who, id, t), UNCHANGED contributed,
         \A v \in Voter :
           ledger'.weight[v] =
             ledger.weight[v]
             + (IF v = who THEN sponsorships[id].perSeat ELSE 0)
             - (IF v = seatHolder[id][t] /\ v # NoHolder THEN sponsorships[id].perSeat ELSE 0)
  PROVE  WeightIsEarned'
<1> SUFFICES ASSUME NEW v \in Voter
             PROVE  ledger'.weight[v] = contributed'[v] + Sum(SeatWeight(v)', Len(sponsorships'))
  BY DEF WeightIsEarned, SeatWeight
<1>0. PICK old, new, gain, loss :
        /\ old = Sum(SeatWeight(v), Len(sponsorships))
        /\ new = Sum(SeatWeight(v)', Len(sponsorships'))
        /\ gain = (IF v = who THEN sponsorships[id].perSeat ELSE 0)
        /\ loss = (IF v = seatHolder[id][t] /\ v # NoHolder THEN sponsorships[id].perSeat ELSE 0)
  OBVIOUS
<1>1. new = old + gain - loss
  BY <1>0, TakeEarns DEF PoolTypeOK
<1>2. gain \in Nat /\ loss \in Nat /\ old \in Nat
  <2>1. sponsorships[id] \in Sponsorship(Voter)
    BY DEF PoolTypeOK, CustodyOK
  <2>2. sponsorships[id].perSeat \in Nat
    BY <2>1 DEF Sponsorship
  <2> QED BY <1>0, <2>2, SeatWeightNat DEF PoolTypeOK, CustodyOK
<1>3. ledger.weight[v] = contributed[v] + old /\ ledger'.weight[v] = ledger.weight[v] + gain - loss
  BY <1>0, EarnedIs
<1>4. PICK before, after, own : before = ledger.weight[v] /\ after = ledger'.weight[v] /\ own = contributed[v]
  OBVIOUS
<1>5. own \in Nat
  BY <1>4 DEF PoolTypeOK, CustodyOK
<1>6. before = own + old /\ after = before + gain - loss
  BY <1>3, <1>4
<1>7. after = own + new
  BY <1>1, <1>2, <1>5, <1>6
<1> QED BY <1>0, <1>4, <1>7

-----------------------------------------------------------------------------
(* What keeps each part of PoolInv.                                        *)

LEMMA EngineSame ==
  ASSUME EngineInv, UNCHANGED engineVars
  PROVE  EngineInv'
<1>1. UNCHANGED <<costs, ledger, budget, rankLevel, spent, funded, fundedOrder, tallyStarted, tallyDone>>
  BY DEF engineVars, tallyVars
<1>2. /\ budget' \in Nat /\ rankLevel' \in Nat /\ tallyStarted' \in BOOLEAN /\ tallyDone' \in BOOLEAN
      /\ tallyStarted' => budget' = ledger.total
      /\ ~tallyStarted' => ~tallyStarted /\ ~tallyDone'
  BY <1>1 DEF EngineInv, EngineTypeOK
<1> QED BY <1>1, <1>2, ControlKeepsEngine

\* Until the tally starts nothing was awarded and nothing paid.
LEMMA EscrowBefore ==
  ASSUME EngineInv, EscrowInv, ~tallyStarted, EngineInv', ~tallyStarted', UNCHANGED payVars
  PROVE  EscrowInv'
<1>1. funded = {} /\ ~tallyDone /\ funded' = {} /\ ~tallyDone'
  BY DEF EngineInv
<1>2. claimed = {} /\ claimed' = {} /\ claimedTotal' = claimedTotal
  BY <1>1 DEF EscrowInv, payVars
<1>3. Len(costs) \in Nat /\ Len(costs') \in Nat
  BY DEF EngineInv, EngineTypeOK
<1>4. /\ ClaimedCosts \in [1 .. Len(costs) -> Int] /\ \A c \in 1 .. Len(costs) : ClaimedCosts[c] = 0
      /\ ClaimedCosts' \in [1 .. Len(costs') -> Int] /\ \A c \in 1 .. Len(costs') : ClaimedCosts'[c] = 0
  BY <1>2 DEF ClaimedCosts
<1>5. Sum(ClaimedCosts, Len(costs)) = 0 /\ Sum(ClaimedCosts', Len(costs')) = 0
  BY <1>3, <1>4, SumOfZeros
<1> QED BY <1>1, <1>2, <1>5 DEF EscrowInv

\* A step before the tally: the rest of PoolInv follows from the parts the
\* step touches.
LEMMA BeforeTally ==
  ASSUME PoolInv, ~tallyStarted, UNCHANGED <<tallyVars, payVars>>,
         costs' \in Seq(Nat \ {0}), LedgerOK(ledger'), PoolTypeOK', BallotsInv', WeightIsEarned'
  PROVE  PoolInv'
<1>1. EngineInv'
  BY EngineBefore DEF PoolInv
<1>2. ~tallyStarted'
  BY DEF tallyVars
<1>3. EscrowInv'
  BY <1>1, <1>2, EscrowBefore DEF PoolInv
<1> QED BY <1>1, <1>3 DEF PoolInv

LEMMA PayloadsStayOK ==
  ASSUME BallotsOK(Payloads), UNCHANGED <<costs, publicRefs, defaultRank>>,
         Extends(ledger', ledger)
  PROVE  BallotsOK(Payloads)'
<1>1. \A v \in Voter : ValidBallot(Payloads[v])' <=> ValidBallot(Payloads[v])
  BY DEF ValidBallot, RankedBelow, Payloads
<1>2. \A v \in Voter : LastTier(Payloads[v])' = LastTier(Payloads[v])
  BY DEF LastTier, Payloads
<1>3. \A v \in Voter : IsVoter(ledger, v) => IsVoter(ledger, v)'
  BY DEF IsVoter, Extends
<1>4. \A v \in Voter : Payloads[v]' = Payloads[v]
  BY DEF Payloads
<1> QED BY <1>1, <1>2, <1>3, <1>4 DEF BallotsOK

\* No ballot moves, and nobody leaves the roster.
LEMMA BallotsSame ==
  ASSUME BallotsInv, UNCHANGED <<costs, ballot, defaultRank, publicRefs, arkivBallots, votingOpen>>,
         tallyStarted' = tallyStarted, Extends(ledger', ledger)
  PROVE  BallotsInv'
<1>1. ~tallyStarted => BallotsOK(ballot)' /\ BallotsOK(Payloads)'
  BY BallotsStayOK, PayloadsStayOK DEF BallotsInv, Extends
<1>2. /\ ~votingOpen' => ~tallyStarted'
      /\ arkivBallots' \/ ~votingOpen' => \A v \in Voter : ballot'[v] = << >>
      /\ ~arkivBallots' \/ ~votingOpen' => \A v \in Voter : publicRefs'[v] = NoRef
      /\ \A v \in Voter : publicRefs'[v].revision = 0 => publicRefs'[v].payload = << >>
  BY DEF BallotsInv
<1> QED BY <1>1, <1>2 DEF BallotsInv

\* While the round is set up there are no ballots.
LEMMA NoBallotsYet ==
  ASSUME BallotsInv, ~votingOpen, ~tallyStarted, ~tallyStarted', UNCHANGED <<ballot, publicRefs>>
  PROVE  BallotsInv'
<1>1. \A v \in Voter : ballot[v] = << >> /\ publicRefs[v] = NoRef
  BY DEF BallotsInv
<1>2. \A v \in Voter : ballot'[v] = << >> /\ publicRefs'[v] = NoRef /\ Payloads'[v] = << >>
                       /\ publicRefs'[v].payload = << >>
  BY <1>1 DEF Payloads, NoRef
<1>3. BallotsOK(ballot)' /\ BallotsOK(Payloads)'
  BY <1>2 DEF BallotsOK
<1> QED BY <1>2, <1>3 DEF BallotsInv

\* A seat that changes hands moves its share in the ledger.
LEMMA ClaimKeeps ==
  ASSUME PoolTypeOK, LedgerOK(ledger), NEW who \in Voter, NEW id \in 1 .. Len(sponsorships),
         NEW t \in TokenId, seatHolder[id][t] # who, SeatCanMove(id, t)
  PROVE  LET M == GrantWeight(WithoutHolder(id, t), who, sponsorships[id].perSeat)
         IN  /\ LedgerOK(M) /\ Extends(M, ledger)
             /\ \A v \in Voter :
                  M.weight[v] =
                    ledger.weight[v]
                    + (IF v = who THEN sponsorships[id].perSeat ELSE 0)
                    - (IF v = seatHolder[id][t] /\ v # NoHolder THEN sponsorships[id].perSeat ELSE 0)
<1> DEFINE W == WithoutHolder(id, t)
           M == GrantWeight(W, who, sponsorships[id].perSeat)
<1>0. PICK p, h : p = sponsorships[id].perSeat /\ h = seatHolder[id][t]
  OBVIOUS
<1>1. p \in Nat /\ h \in Voter \cup {NoHolder} /\ h # who
  <2>1. sponsorships[id] \in Sponsorship(Voter) /\ seatHolder[id] \in [TokenId -> Voter \cup {NoHolder}]
    BY DEF PoolTypeOK, CustodyOK
  <2> QED BY <1>0, <2>1 DEF Sponsorship
<1>2. /\ LedgerOK(W) /\ Extends(W, ledger)
      /\ \A v \in Voter : W.weight[v] = ledger.weight[v] - (IF v = h /\ v # NoHolder THEN p ELSE 0)
  <2>0. ledger.weight \in [Voter -> Nat]
    BY DEF LedgerOK, Ledgers
  <2>1. CASE h = NoHolder
    BY <1>0, <1>1, <2>0, <2>1 DEF WithoutHolder, Extends
  <2>2. CASE h # NoHolder
    <3>1. h \in Voter /\ CanRevoke(ledger, h, p) /\ W = RevokeWeight(ledger, h, p)
      BY <1>0, <1>1, <2>2 DEF WithoutHolder, SeatCanMove
    <3> HIDE DEF W
    <3>2. /\ LedgerOK(W) /\ \A u \in Voter : IsVoter(ledger, u) => IsVoter(W, u)
          /\ W.weight = [ledger.weight EXCEPT ![h] = @ - p]
      BY <1>1, <3>1, RevokeKeeps
    <3> QED BY <1>1, <2>0, <2>2, <3>1, <3>2 DEF Extends
  <2> QED BY <2>1, <2>2
<1>3. CanGrant(W, p)
  BY <1>0 DEF SeatCanMove
<1> HIDE DEF W
<1>4. /\ LedgerOK(M) /\ \A u \in Voter : IsVoter(W, u) => IsVoter(M, u)
      /\ M.weight = [W.weight EXCEPT ![who] = @ + p]
  BY <1>0, <1>1, <1>2, <1>3, GrantKeeps
<1>5. Extends(M, ledger)
  BY <1>2, <1>4 DEF Extends
<1>6. ASSUME NEW v \in Voter
      PROVE  M.weight[v] = ledger.weight[v] + (IF v = who THEN p ELSE 0)
                           - (IF v = h /\ v # NoHolder THEN p ELSE 0)
  <2>1. W.weight \in [Voter -> Nat] /\ ledger.weight \in [Voter -> Nat]
    BY <1>2 DEF LedgerOK, Ledgers
  <2>2. M.weight[v] = W.weight[v] + (IF v = who THEN p ELSE 0)
    BY <1>1, <1>4, <2>1
  <2>3. W.weight[v] = ledger.weight[v] - (IF v = h /\ v # NoHolder THEN p ELSE 0)
    BY <1>2
  <2>4. W.weight[v] \in Nat /\ ledger.weight[v] \in Nat
    BY <2>1
  <2> HIDE DEF M
  <2> QED BY <1>1, <2>2, <2>3, <2>4
<1> QED BY <1>0, <1>4, <1>5, <1>6 DEF W

-----------------------------------------------------------------------------
(* One lemma per action.                                                   *)

LEMMA DepositKeeps ==
  ASSUME balance \in Nat, NEW amount \in Amounts, NEW fee \in Fees, Deposit(amount, fee)
  PROVE  balance' \in Nat /\ amount \in Nat
BY InputsAssumption DEF Deposit

LEMMA TierNat ==
  ASSUME NEW ranks \in Seq(Nat)
  PROVE  LastTier(ranks) \in Nat
<1>1. {c \in DOMAIN ranks : ranks[c] # 0} \in SUBSET (1 .. Len(ranks)) /\ Len(ranks) \in Nat
  OBVIOUS
<1>2. Cardinality({c \in DOMAIN ranks : ranks[c] # 0}) \in Nat
  <2>1. IsFiniteSet(1 .. Len(ranks))
    BY <1>1, FS_Interval
  <2> QED BY <1>1, <2>1, FS_Subset, FS_CardinalityType
<1> QED BY <1>2, RankValuesAssumption DEF LastTier

LEMMA CreateProjectKeeps ==
  ASSUME PoolInv, NEW cost \in Costs, CreateProject(cost)
  PROVE  PoolInv'
<1>1. /\ ~tallyStarted /\ ~votingOpen /\ cost # 0 /\ cost \in Nat
      /\ costs' = Append(costs, cost)
      /\ UNCHANGED <<ledger, ballotVars, tallyVars, poolVars, arkivVars>>
  BY Phases, InputsAssumption DEF CreateProject, AddProject
<1>2. costs' \in Seq(Nat \ {0}) /\ LedgerOK(ledger')
  BY <1>1, LedgerBefore DEF PoolInv, EngineInv, EngineTypeOK
<1>3. PoolTypeOK'
  BY <1>1 DEF PoolInv, PoolTypeOK, CustodyOK, ballotVars, poolVars, seatVars, arkivVars
<1>4. BallotsInv'
  BY <1>1, NoBallotsYet DEF PoolInv, ballotVars, arkivVars, tallyVars
<1>5. WeightIsEarned'
  BY <1>1, EarnedSame DEF PoolInv, poolVars, seatVars
<1> QED BY <1>1, <1>2, <1>3, <1>4, <1>5, BeforeTally DEF poolVars

LEMMA EnableArkivBallotsKeeps ==
  ASSUME PoolInv, EnableArkivBallots
  PROVE  PoolInv'
<1>1. /\ ~tallyStarted /\ ~votingOpen /\ arkivBallots' = TRUE
      /\ UNCHANGED <<costs, ledger, ballotVars, tallyVars, poolVars, publicRefs>>
  BY Phases DEF EnableArkivBallots, engineVars
<1>2. costs' \in Seq(Nat \ {0}) /\ LedgerOK(ledger')
  BY <1>1, LedgerBefore DEF PoolInv, EngineInv, EngineTypeOK
<1>3. PoolTypeOK'
  BY <1>1 DEF PoolInv, PoolTypeOK, CustodyOK, ballotVars, poolVars, seatVars
<1>4. BallotsInv'
  BY <1>1, NoBallotsYet DEF PoolInv, ballotVars, tallyVars
<1>5. WeightIsEarned'
  BY <1>1, EarnedSame DEF PoolInv, poolVars, seatVars
<1> QED BY <1>1, <1>2, <1>3, <1>4, <1>5, BeforeTally DEF poolVars

LEMMA OpenVotingKeeps ==
  ASSUME PoolInv, OpenVoting
  PROVE  PoolInv'
<1>1. /\ ~tallyStarted /\ ~votingOpen /\ votingOpen' = TRUE
      /\ UNCHANGED <<costs, ledger, ballotVars, tallyVars, pastDeadline, balance, seatVars,
                     payVars, contributed, arkivVars>>
  BY Phases DEF OpenVoting, engineVars
<1>2. costs' \in Seq(Nat \ {0}) /\ LedgerOK(ledger')
  BY <1>1, LedgerBefore DEF PoolInv, EngineInv, EngineTypeOK
<1>3. PoolTypeOK'
  BY <1>1 DEF PoolInv, PoolTypeOK, CustodyOK, ballotVars, seatVars, arkivVars
<1>4. BallotsInv'
  BY <1>1, NoBallotsYet DEF PoolInv, ballotVars, tallyVars, arkivVars
<1>5. WeightIsEarned'
  BY <1>1, EarnedSame DEF PoolInv, seatVars
<1> QED BY <1>1, <1>2, <1>3, <1>4, <1>5, BeforeTally

LEMMA ContributeKeeps ==
  ASSUME PoolInv, NEW who \in Voter, NEW amount \in Amounts, NEW fee \in Fees,
         Contribute(who, amount, fee)
  PROVE  PoolInv'
<1>1. /\ ~tallyStarted /\ Deposit(amount, fee)
      /\ CanGrant(IncreaseTotalWeight(ledger, amount), amount)
      /\ ledger' = WithContribution(who, amount)
      /\ contributed' = [contributed EXCEPT ![who] = @ + amount]
      /\ UNCHANGED <<costs, ballotVars, tallyVars, votingOpen, pastDeadline, seatVars, payVars,
                     arkivVars>>
  BY Phases DEF Contribute
<1>2. balance' \in Nat /\ amount \in Nat
  BY <1>1, DepositKeeps DEF PoolInv, PoolTypeOK
<1>3. /\ costs' \in Seq(Nat \ {0}) /\ ledger \in Ledgers /\ LedgerOK(ledger)
  BY <1>1, LedgerBefore DEF PoolInv, EngineInv, EngineTypeOK
<1>4. /\ LedgerOK(ledger') /\ Extends(ledger', ledger)
      /\ ledger'.weight = [ledger.weight EXCEPT ![who] = @ + amount]
  BY <1>1, <1>2, <1>3, ContributionKeeps
<1>5. PoolTypeOK'
  <2>1. contributed' \in [Voter -> Nat]
    BY <1>1, <1>2 DEF PoolInv, PoolTypeOK, CustodyOK
  <2> QED BY <1>1, <1>2, <2>1 DEF PoolInv, PoolTypeOK, CustodyOK, ballotVars, seatVars, arkivVars
<1>6. BallotsInv'
  BY <1>1, <1>4, BallotsSame DEF PoolInv, ballotVars, arkivVars, tallyVars
<1>7. WeightIsEarned'
  BY <1>1, <1>2, <1>3, <1>4, EarnedByDeposit DEF PoolInv, seatVars
<1> QED BY <1>1, <1>3, <1>4, <1>5, <1>6, <1>7, BeforeTally

LEMMA VoteKeeps ==
  ASSUME PoolInv, NEW who \in Voter, NEW ranks \in BallotInputs, Vote(who, ranks)
  PROVE  PoolInv'
<1>0. costs' = costs /\ ValidBallot(ranks)
  BY DEF Vote, SetBallot
<1>1. /\ ~tallyStarted /\ votingOpen /\ ~arkivBallots /\ ValidBallot(ranks)
      /\ defaultRank' = [defaultRank EXCEPT ![who] = LastTier(ranks)]
      /\ ledger' = RegisterVoter(ledger, who)
      /\ ballot' = [ballot EXCEPT ![who] = ranks]
      /\ UNCHANGED <<costs, tallyVars, poolVars, arkivVars>>
  BY Phases DEF Vote, SetBallot
<1>2. ranks \in Seq(Nat) /\ LastTier(ranks) \in Nat
  BY InputsAssumption, TierNat
<1>3. costs' \in Seq(Nat \ {0}) /\ LedgerOK(ledger)
  BY <1>1, LedgerBefore DEF PoolInv, EngineInv, EngineTypeOK
<1>4. /\ LedgerOK(ledger') /\ Extends(ledger', ledger) /\ IsVoter(ledger', who)
      /\ ledger'.weight = ledger.weight
  BY <1>1, <1>3, RegisterKeeps DEF Extends
<1>5. ballot \in [Voter -> Seq(Nat)] /\ defaultRank \in [Voter -> Nat]
  BY DEF PoolInv, PoolTypeOK, CustodyOK
<1>6. PoolTypeOK'
  <2>1. ballot' \in [Voter -> Seq(Nat)] /\ defaultRank' \in [Voter -> Nat]
    BY <1>1, <1>2, <1>5
  <2> QED BY <1>1, <2>1 DEF PoolInv, PoolTypeOK, CustodyOK, poolVars, seatVars, arkivVars
<1>7. BallotsInv'
  <2>1. /\ \A v \in Voter : publicRefs[v] = NoRef
        /\ BallotsOK(ballot)
    BY <1>1 DEF PoolInv, BallotsInv
  <2>2. BallotsOK(ballot)'
    <3> SUFFICES ASSUME NEW v \in Voter, ballot'[v] # << >>
                 PROVE  ValidBallot(ballot[v])' /\ IsVoter(ledger', v)
                        /\ defaultRank'[v] = LastTier(ballot'[v])
      BY DEF BallotsOK, IsVoter, LastTier
    <3>1. CASE v = who
      <4>1. ballot'[v] = ranks /\ defaultRank'[v] = LastTier(ranks)
        BY <1>1, <1>5, <3>1
      <4>2. ValidBallot(ballot[v])'
        BY <1>0, <4>1 DEF ValidBallot, RankedBelow
      <4> QED BY <1>4, <3>1, <4>1, <4>2
    <3>2. CASE v # who
      <4>1. ballot'[v] = ballot[v] /\ defaultRank'[v] = defaultRank[v]
        BY <1>1, <1>5, <3>2
      <4>2. ValidBallot(ballot[v]) /\ IsVoter(ledger, v) /\ defaultRank[v] = LastTier(ballot[v])
        BY <2>1, <4>1 DEF BallotsOK
      <4>3. ValidBallot(ballot[v])'
        BY <1>0, <4>1, <4>2 DEF ValidBallot, RankedBelow
      <4> QED BY <1>4, <4>1, <4>2, <4>3 DEF Extends
    <3> QED BY <3>1, <3>2
  <2>3. /\ ~arkivBallots' /\ votingOpen'
        /\ \A v \in Voter : publicRefs'[v] = NoRef /\ publicRefs'[v].payload = << >>
    BY <1>1, <2>1 DEF arkivVars, poolVars, NoRef
  <2>4. BallotsOK(Payloads)'
    BY <2>3 DEF BallotsOK, Payloads
  <2> QED BY <2>2, <2>3, <2>4 DEF BallotsInv
<1>8. WeightIsEarned'
  BY <1>1, <1>4, EarnedSame DEF PoolInv, poolVars, seatVars, tallyVars
<1> QED BY <1>1, <1>3, <1>4, <1>6, <1>7, <1>8, BeforeTally DEF poolVars

\* What a ballot stored in Arkiv does to the two ballot stores.
LEMMA ArkivBallotKeeps ==
  ASSUME PoolInv, NEW who \in Voter, NEW ranks \in BallotInputs, NEW revision \in Nat,
         AcceptArkivBallot(who, ranks, revision), UNCHANGED <<costs, ballot, votingOpen, tallyVars>>,
         Extends(ledger', ledger), IsVoter(ledger', who)
  PROVE  /\ BallotsInv'
         /\ defaultRank' \in [Voter -> Nat]
         /\ publicRefs' \in [Voter -> [payload : Seq(Nat), revision : Nat]]
         /\ ~tallyStarted /\ UNCHANGED arkivBallots
<1>0. costs' = costs /\ ValidBallot(ranks)
  BY DEF AcceptArkivBallot
<1>1. /\ ~tallyStarted /\ votingOpen /\ arkivBallots /\ ValidBallot(ranks)
      /\ defaultRank' = [defaultRank EXCEPT ![who] = LastTier(ranks)]
      /\ publicRefs' = [publicRefs EXCEPT ![who] =
                          [payload |-> ranks, revision |-> publicRefs[who].revision + 1]]
      /\ UNCHANGED arkivBallots
  BY Phases DEF AcceptArkivBallot, StoreBallot
<1>2. ranks \in Seq(Nat) /\ LastTier(ranks) \in Nat
  BY InputsAssumption, TierNat
<1>3. /\ defaultRank \in [Voter -> Nat] /\ publicRefs[who].revision \in Nat
      /\ publicRefs \in [Voter -> [payload : Seq(Nat), revision : Nat]]
  BY DEF PoolInv, PoolTypeOK, CustodyOK
<1>4. defaultRank' \in [Voter -> Nat]
  BY <1>1, <1>2, <1>3
<1>5. PICK r : r = [payload |-> ranks, revision |-> publicRefs[who].revision + 1]
  OBVIOUS
<1>6. r \in [payload : Seq(Nat), revision : Nat] /\ r.payload = ranks /\ r.revision # 0
  BY <1>2, <1>3, <1>5
<1>7. publicRefs' = [publicRefs EXCEPT ![who] = r]
  BY <1>1, <1>5
<1>8. /\ publicRefs' \in [Voter -> [payload : Seq(Nat), revision : Nat]]
      /\ publicRefs'[who] = r
      /\ \A v \in Voter : v # who => publicRefs'[v] = publicRefs[v]
  BY <1>3, <1>6, <1>7
<1>9. /\ \A v \in Voter : ballot[v] = << >>
      /\ \A v \in Voter : publicRefs[v].revision = 0 => publicRefs[v].payload = << >>
      /\ BallotsOK(Payloads)
  BY <1>1 DEF PoolInv, BallotsInv
<1>10. BallotsOK(Payloads)'
  <2> SUFFICES ASSUME NEW v \in Voter, publicRefs'[v].payload # << >>
               PROVE  ValidBallot(publicRefs[v].payload)' /\ IsVoter(ledger', v)
                      /\ defaultRank'[v] = LastTier(publicRefs'[v].payload)
    BY DEF BallotsOK, IsVoter, LastTier, Payloads
  <2>1. CASE v = who
    <3>1. publicRefs'[v].payload = ranks /\ defaultRank'[v] = LastTier(ranks)
      BY <1>1, <1>3, <1>6, <1>8, <2>1
    <3>2. ValidBallot(publicRefs[v].payload)'
      BY <1>0, <3>1 DEF ValidBallot, RankedBelow
    <3> QED BY <2>1, <3>1, <3>2
  <2>2. CASE v # who
    <3>1. publicRefs'[v].payload = publicRefs[v].payload /\ defaultRank'[v] = defaultRank[v]
      BY <1>1, <1>3, <1>8, <2>2
    <3>2. /\ ValidBallot(publicRefs[v].payload) /\ IsVoter(ledger, v)
          /\ defaultRank[v] = LastTier(publicRefs[v].payload)
      BY <1>9, <3>1 DEF BallotsOK, Payloads
    <3>3. ValidBallot(publicRefs[v].payload)'
      BY <1>0, <3>1, <3>2 DEF ValidBallot, RankedBelow
    <3> QED BY <3>1, <3>2, <3>3 DEF Extends
  <2> QED BY <2>1, <2>2
<1>11. BallotsOK(ballot)'
  BY <1>9 DEF BallotsOK
<1>12. \A v \in Voter : publicRefs'[v].revision = 0 => publicRefs'[v].payload = << >>
  BY <1>6, <1>8, <1>9
<1>13. BallotsInv'
  BY <1>1, <1>9, <1>10, <1>11, <1>12 DEF BallotsInv
<1> QED BY <1>1, <1>4, <1>8, <1>13

LEMMA VoteArkivKeeps ==
  ASSUME PoolInv, NEW who \in Voter, NEW ranks \in BallotInputs, NEW revision \in Nat,
         VoteArkiv(who, ranks, revision)
  PROVE  PoolInv'
<1>1. /\ ~tallyStarted /\ AcceptArkivBallot(who, ranks, revision)
      /\ ledger' = RegisterVoter(ledger, who)
      /\ UNCHANGED <<costs, ballot, tallyVars, poolVars>>
  BY Phases DEF VoteArkiv, AcceptArkivBallot
<1>2. costs' \in Seq(Nat \ {0}) /\ LedgerOK(ledger)
  BY <1>1, LedgerBefore DEF PoolInv, EngineInv, EngineTypeOK
<1>3. /\ LedgerOK(ledger') /\ Extends(ledger', ledger) /\ IsVoter(ledger', who)
      /\ ledger'.weight = ledger.weight
  BY <1>1, <1>2, RegisterKeeps DEF Extends
<1>4. /\ BallotsInv' /\ defaultRank' \in [Voter -> Nat]
      /\ publicRefs' \in [Voter -> [payload : Seq(Nat), revision : Nat]]
      /\ UNCHANGED arkivBallots
  BY <1>1, <1>3, ArkivBallotKeeps DEF poolVars
<1>5. PoolTypeOK'
  BY <1>1, <1>4 DEF PoolInv, PoolTypeOK, CustodyOK, poolVars, seatVars
<1>6. WeightIsEarned'
  BY <1>1, <1>3, EarnedSame DEF PoolInv, poolVars, seatVars, tallyVars
<1> QED BY <1>1, <1>2, <1>3, <1>4, <1>5, <1>6, BeforeTally DEF poolVars

LEMMA CastBallotKeeps ==
  ASSUME PoolInv, NEW who \in Voter, NEW amount \in Amounts, NEW fee \in Fees,
         NEW ranks \in BallotInputs, NEW revision \in Nat,
         CastBallot(who, amount, fee, ranks, revision)
  PROVE  PoolInv'
<1>1. /\ ~tallyStarted /\ AcceptArkivBallot(who, ranks, revision) /\ Deposit(amount, fee)
      /\ CanGrant(IncreaseTotalWeight(ledger, amount), amount)
      /\ ledger' = RegisterVoter(WithContribution(who, amount), who)
      /\ contributed' = [contributed EXCEPT ![who] = @ + amount]
      /\ UNCHANGED <<costs, ballot, tallyVars, votingOpen, pastDeadline, seatVars, payVars>>
  BY Phases DEF CastBallot, AcceptArkivBallot
<1>2. balance' \in Nat /\ amount \in Nat
  BY <1>1, DepositKeeps DEF PoolInv, PoolTypeOK
<1>3. costs' \in Seq(Nat \ {0}) /\ ledger \in Ledgers /\ LedgerOK(ledger)
  BY <1>1, LedgerBefore DEF PoolInv, EngineInv, EngineTypeOK
<1>4. /\ LedgerOK(ledger') /\ Extends(ledger', ledger) /\ IsVoter(ledger', who)
      /\ ledger'.weight = [ledger.weight EXCEPT ![who] = @ + amount]
  <2> DEFINE M == WithContribution(who, amount)
  <2>1. /\ LedgerOK(M) /\ Extends(M, ledger)
        /\ M.weight = [ledger.weight EXCEPT ![who] = @ + amount]
    BY <1>1, <1>2, <1>3, ContributionKeeps
  <2> HIDE DEF M
  <2>2. /\ LedgerOK(RegisterVoter(M, who)) /\ IsVoter(RegisterVoter(M, who), who)
        /\ \A u \in Voter : IsVoter(M, u) => IsVoter(RegisterVoter(M, who), u)
        /\ RegisterVoter(M, who).weight = M.weight
    BY <2>1, RegisterKeeps
  <2>3. ledger' = RegisterVoter(M, who)
    BY <1>1 DEF M
  <2> QED BY <2>1, <2>2, <2>3 DEF Extends
<1>5. /\ BallotsInv' /\ defaultRank' \in [Voter -> Nat]
      /\ publicRefs' \in [Voter -> [payload : Seq(Nat), revision : Nat]]
      /\ UNCHANGED arkivBallots
  BY <1>1, <1>4, ArkivBallotKeeps
<1>6. PoolTypeOK'
  <2>1. contributed' \in [Voter -> Nat]
    BY <1>1, <1>2 DEF PoolInv, PoolTypeOK, CustodyOK
  <2> QED BY <1>1, <1>2, <1>5, <2>1 DEF PoolInv, PoolTypeOK, CustodyOK, seatVars
<1>7. WeightIsEarned'
  BY <1>1, <1>2, <1>3, <1>4, EarnedByDeposit DEF PoolInv, seatVars
<1> QED BY <1>1, <1>3, <1>4, <1>5, <1>6, <1>7, BeforeTally

LEMMA SponsorKeeps ==
  ASSUME PoolInv, NEW amount \in Amounts, NEW fee \in Fees, NEW members \in MemberLists,
         Sponsor(amount, fee, members)
  PROVE  PoolInv'
<1>0. PICK s, L : /\ s = NewSponsorship(amount, Len(members), FALSE, members)
                  /\ L = IncreaseTotalWeight(ledger, amount)
  OBVIOUS
<1>1. /\ ~tallyStarted /\ Deposit(amount, fee) /\ PushSponsorship(s)
      /\ CanGrant(L, s.perSeat * Len(members))
      /\ ledger' = GrantSeats(L, members, s.perSeat)
      /\ UNCHANGED <<costs, ballotVars, tallyVars, votingOpen, pastDeadline, payVars,
                     contributed, arkivVars>>
  BY <1>0, Phases DEF Sponsor
<1>2. balance' \in Nat /\ amount \in Nat
  BY <1>1, DepositKeeps DEF PoolInv, PoolTypeOK
<1>3. members \in Seq(Voter) /\ Len(members) \in Nat \ {0}
  <2>1. members \in Seq(Voter) /\ members # << >>
    BY InputsAssumption
  <2> QED BY <2>1
<1>4. s \in Sponsorship(Voter) /\ s.members = members /\ s.perSeat \in Nat
  <2>1. Len(members) <= Len(members) /\ FALSE \in BOOLEAN
    BY <1>3
  <2>2. NewSponsorship(amount, Len(members), FALSE, members) \in Sponsorship(Voter)
    BY <1>2, <1>3, <2>1, NewSponsorshipOK
  <2> QED BY <1>0, <2>1, <2>2 DEF NewSponsorship, Sponsorship
<1>5. costs' \in Seq(Nat \ {0}) /\ ledger \in Ledgers /\ LedgerOK(ledger)
  BY <1>1, LedgerBefore DEF PoolInv, EngineInv, EngineTypeOK
<1>6. LedgerOK(L) /\ L.voters = ledger.voters /\ L.weight = ledger.weight
  BY <1>0, <1>2, <1>5, IncreaseKeeps
<1>7. /\ LedgerOK(ledger') /\ Extends(ledger', ledger)
      /\ \A v \in Voter : ledger'.weight[v]
                            = ledger.weight[v] + s.perSeat * Times(s.members, v, Len(s.members))
  <2>1. /\ LedgerOK(ledger') /\ Extends(ledger', L)
        /\ \A v \in Voter : ledger'.weight[v] = L.weight[v] + s.perSeat * Times(members, v, Len(members))
    BY <1>1, <1>3, <1>4, <1>6, GrantSeatsKeeps
  <2>2. Extends(ledger', ledger)
    BY <1>6, <2>1 DEF Extends, IsVoter
  <2> QED BY <1>4, <1>6, <2>1, <2>2
<1>8. PoolTypeOK'
  <2>1. CustodyOK(Voter)'
    BY <1>1, <1>4, PushKeeps DEF PoolInv, PoolTypeOK
  <2> QED BY <1>1, <1>2, <2>1 DEF PoolInv, PoolTypeOK, ballotVars, arkivVars
<1>9. BallotsInv'
  BY <1>1, <1>7, BallotsSame DEF PoolInv, ballotVars, arkivVars, tallyVars
<1>10. WeightIsEarned'
  BY <1>1, <1>4, <1>5, <1>7, EarnedByPush DEF PoolInv
<1> QED BY <1>1, <1>5, <1>7, <1>8, <1>9, <1>10, BeforeTally

LEMMA SponsorNFTKeeps ==
  ASSUME PoolInv, NEW amount \in Amounts, NEW fee \in Fees, NEW seats \in SeatCounts,
         SponsorNFT(amount, fee, seats)
  PROVE  PoolInv'
<1>0. PICK s : s = NewSponsorship(amount, SeatsFor(seats), TRUE, << >>)
  OBVIOUS
<1>1. /\ ~tallyStarted /\ Deposit(amount, fee) /\ PushSponsorship(s) /\ SeatsFor(seats) # 0
      /\ ledger' = IncreaseTotalWeight(ledger, amount)
      /\ UNCHANGED <<costs, ballotVars, tallyVars, votingOpen, pastDeadline, payVars,
                     contributed, arkivVars>>
  BY <1>0, Phases DEF SponsorNFT
<1>2. balance' \in Nat /\ amount \in Nat
  BY <1>1, DepositKeeps DEF PoolInv, PoolTypeOK
<1>3. SeatsFor(seats) \in Nat \ {0} /\ << >> \in Seq(Voter) /\ Len(<< >>) <= SeatsFor(seats)
  BY <1>1, InputsAssumption, TokensAssumption, FS_CardinalityType DEF SeatsFor
<1>4. s \in Sponsorship(Voter) /\ s.members = << >> /\ s.perSeat \in Nat
  <2>1. PICK n : n = SeatsFor(seats)
    OBVIOUS
  <2>2. NewSponsorship(amount, n, TRUE, << >>) \in Sponsorship(Voter)
    BY <1>2, <1>3, <2>1, NewSponsorshipOK
  <2> QED BY <1>0, <2>1, <2>2 DEF NewSponsorship, Sponsorship
<1>5. costs' \in Seq(Nat \ {0}) /\ ledger \in Ledgers /\ LedgerOK(ledger)
  BY <1>1, LedgerBefore DEF PoolInv, EngineInv, EngineTypeOK
<1>6. LedgerOK(ledger') /\ ledger'.voters = ledger.voters /\ ledger'.weight = ledger.weight
  BY <1>1, <1>2, <1>5, IncreaseKeeps
<1>7. Extends(ledger', ledger)
  BY <1>6 DEF Extends, IsVoter
<1>8. \A v \in Voter : ledger'.weight[v]
                         = ledger.weight[v] + s.perSeat * Times(s.members, v, Len(s.members))
  <2> TAKE v \in Voter
  <2>1. Times(s.members, v, Len(s.members)) = 0
    BY <1>4, TimesStep
  <2>2. ledger.weight[v] \in Nat
    BY <1>5 DEF Ledgers
  <2> QED BY <1>4, <1>6, <2>1, <2>2
<1>9. PoolTypeOK'
  <2>1. CustodyOK(Voter)'
    BY <1>1, <1>4, PushKeeps DEF PoolInv, PoolTypeOK
  <2> QED BY <1>1, <1>2, <2>1 DEF PoolInv, PoolTypeOK, ballotVars, arkivVars
<1>10. BallotsInv'
  BY <1>1, <1>7, BallotsSame DEF PoolInv, ballotVars, arkivVars, tallyVars
<1>11. WeightIsEarned'
  BY <1>1, <1>4, <1>5, <1>8, EarnedByPush DEF PoolInv
<1> QED BY <1>1, <1>5, <1>6, <1>9, <1>10, <1>11, BeforeTally

LEMMA ClaimSeatKeeps ==
  ASSUME PoolInv, NEW who \in Voter, NEW id \in DOMAIN sponsorships, NEW t \in TokenId,
         ClaimSeat(who, id, t)
  PROVE  PoolInv'
<1>1. /\ ~tallyStarted /\ TakeSeat(who, id, t) /\ SeatCanMove(id, t)
      /\ ledger' = GrantWeight(WithoutHolder(id, t), who, sponsorships[id].perSeat)
      /\ UNCHANGED <<costs, ballotVars, tallyVars, votingOpen, pastDeadline, balance, payVars,
                     contributed, arkivVars>>
  BY Phases DEF ClaimSeat
<1>2. /\ sponsorships \in Seq(Sponsorship(Voter)) /\ id \in 1 .. Len(sponsorships)
      /\ seatHolder \in Seq([TokenId -> Voter \cup {NoHolder}])
      /\ Len(seatHolder) = Len(sponsorships)
      /\ nftOwner \in [TokenId -> Voter \ {NoHolder}]
  BY DEF PoolInv, PoolTypeOK, CustodyOK
<1>3. costs' \in Seq(Nat \ {0}) /\ ledger \in Ledgers /\ LedgerOK(ledger)
  BY <1>1, LedgerBefore DEF PoolInv, EngineInv, EngineTypeOK
<1>4. seatHolder[id][t] # who
  BY <1>1 DEF TakeSeat, SeatClaimable
<1>5. /\ LedgerOK(ledger') /\ Extends(ledger', ledger)
      /\ \A v \in Voter :
           ledger'.weight[v] =
             ledger.weight[v]
             + (IF v = who THEN sponsorships[id].perSeat ELSE 0)
             - (IF v = seatHolder[id][t] /\ v # NoHolder THEN sponsorships[id].perSeat ELSE 0)
  BY <1>1, <1>2, <1>3, <1>4, ClaimKeeps DEF PoolInv
<1>6. PoolTypeOK'
  <2>1. CustodyOK(Voter)'
    BY <1>1, <1>2, TakeKeeps DEF PoolInv, PoolTypeOK
  <2> QED BY <1>1, <2>1 DEF PoolInv, PoolTypeOK, ballotVars, arkivVars
<1>7. BallotsInv'
  BY <1>1, <1>5, BallotsSame DEF PoolInv, ballotVars, arkivVars, tallyVars
<1>8. WeightIsEarned'
  BY <1>1, <1>2, <1>3, <1>5, EarnedByClaim DEF PoolInv
<1> QED BY <1>1, <1>3, <1>5, <1>6, <1>7, <1>8, BeforeTally

LEMMA CloseVotingKeeps ==
  ASSUME PoolInv, CloseVoting
  PROVE  PoolInv'
<1>1. /\ ~tallyStarted /\ votingOpen /\ balance >= ledger.total /\ StartTally
      /\ tallyStarted' = TRUE /\ budget' = ledger.total
      /\ UNCHANGED <<costs, ledger, ballot, defaultRank, spent, funded, fundedOrder,
                     votingOpen, pastDeadline, balance, sponsorships, seatHolder, nftOwner,
                     claimed, claimedTotal, contributed, arkivBallots, publicRefs>>
  BY Phases DEF CloseVoting, BalanceCovers, StartTally, ballotVars, poolVars, seatVars, payVars, arkivVars
<1>2. EngineInv'
  BY <1>1, StartKeepsEngine DEF PoolInv
<1>3. PoolTypeOK'
  BY <1>1 DEF PoolInv, PoolTypeOK, CustodyOK
<1>4. BallotsInv'
  BY <1>1 DEF PoolInv, BallotsInv, NoRef
<1>5. WeightIsEarned'
  BY <1>1 DEF WeightIsEarned
<1>6. EscrowInv'
  <2>1. spent = 0 /\ funded = {} /\ claimed = {} /\ balance \in Nat /\ ~tallyDone
        /\ claimedTotal = Sum(ClaimedCosts, Len(costs))
    BY <1>1, LedgerBefore DEF PoolInv, EscrowInv, PoolTypeOK, CustodyOK
  <2>2. ClaimedCosts' = ClaimedCosts
    BY <1>1 DEF ClaimedCosts
  <2>3. claimedTotal = 0
    <3>1. Len(costs) \in Nat
      BY DEF PoolInv, EngineInv, EngineTypeOK
    <3>2. ClaimedCosts \in [1 .. Len(costs) -> Int] /\ \A c \in 1 .. Len(costs) : ClaimedCosts[c] = 0
      BY <2>1 DEF ClaimedCosts
    <3> QED BY <2>1, <3>1, <3>2, SumOfZeros
  <2> QED BY <1>1, <2>1, <2>2, <2>3 DEF EscrowInv
<1> QED BY <1>2, <1>3, <1>4, <1>5, <1>6 DEF PoolInv

LEMMA TallyStepKeeps ==
  ASSUME PoolInv, NEW STATE b, Step(b), UNCHANGED <<poolVars, arkivVars>>
  PROVE  PoolInv'
<1>1. /\ tallyStarted /\ ~tallyDone
      /\ UNCHANGED <<costs, ballot, defaultRank, budget, tallyStarted>>
  BY DEF Step, FundBest, RaiseLevel, FinishUnsupported, ballotVars
<1>2. UNCHANGED <<votingOpen, pastDeadline, balance, sponsorships, seatHolder, nftOwner,
                  claimed, claimedTotal, contributed, arkivBallots, publicRefs>>
  BY DEF poolVars, seatVars, payVars, arkivVars
<1>3. EngineInv'
  BY StepKeepsEngine DEF PoolInv
<1>4. PoolTypeOK'
  BY <1>1, <1>2 DEF PoolInv, PoolTypeOK, CustodyOK
<1>5. BallotsInv'
  BY <1>1, <1>2 DEF PoolInv, BallotsInv, NoRef
<1>6. WeightIsEarned'
  BY <1>1 DEF WeightIsEarned
<1>7. EscrowInv'
  <2>1. claimed = {} /\ balance \in Nat /\ balance >= budget
        /\ claimedTotal = Sum(ClaimedCosts, Len(costs))
    BY <1>1 DEF PoolInv, EscrowInv, PoolTypeOK, CustodyOK
  <2>2. ClaimedCosts' = ClaimedCosts
    BY <1>1, <1>2 DEF ClaimedCosts
  <2>3. claimedTotal = 0
    <3>1. Len(costs) \in Nat
      BY DEF PoolInv, EngineInv, EngineTypeOK
    <3>2. ClaimedCosts \in [1 .. Len(costs) -> Int] /\ \A c \in 1 .. Len(costs) : ClaimedCosts[c] = 0
      BY <2>1 DEF ClaimedCosts
    <3> QED BY <2>1, <3>1, <3>2, SumOfZeros
  <2>4. spent' \in Nat /\ spent' <= budget /\ budget \in Nat
    <3>1. /\ RosterWeight(ledger') \in Nat /\ ledger'.granted \in Nat /\ ledger'.total \in Nat
      BY <1>3, RosterWeightNat DEF EngineInv, EngineTypeOK, Ledgers
    <3>2. /\ RosterWeight(ledger') + spent' = ledger'.granted /\ ledger'.granted <= ledger'.total
          /\ budget' = ledger'.total /\ spent' \in Nat /\ budget' \in Nat
      BY <1>1, <1>3, RosterOfPrimed DEF EngineInv, EngineTypeOK
    <3> QED BY <1>1, <3>1, <3>2
  <2>5. claimed' \subseteq funded' /\ claimedTotal' = Sum(ClaimedCosts, Len(costs))'
    BY <1>1, <1>2, <2>1, <2>2
  <2>6. balance' >= budget' /\ balance' >= spent' - claimedTotal'
    <3>1. balance' = balance /\ claimedTotal' = 0 /\ budget' = budget
      BY <1>1, <1>2, <2>3
    <3>2. PICK s, a, d : s = spent' /\ a = balance' /\ d = budget'
      OBVIOUS
    <3>3. s \in Nat /\ a \in Nat /\ d \in Nat /\ a >= d /\ s <= d
      BY <2>1, <2>4, <3>1, <3>2
    <3>4. a >= s - 0
      BY <3>3
    <3> QED BY <3>1, <3>2, <3>3, <3>4
  <2> QED BY <1>2, <2>1, <2>5, <2>6 DEF EscrowInv
<1> QED BY <1>3, <1>4, <1>5, <1>6, <1>7 DEF PoolInv

\* After the outcome only the custody moves.
LEMMA AfterTally ==
  ASSUME PoolInv, tallyDone, UNCHANGED engineVars,
         UNCHANGED <<votingOpen, pastDeadline, sponsorships, seatHolder, nftOwner, contributed,
                     arkivBallots, publicRefs>>,
         balance' \in Nat, EscrowInv'
  PROVE  PoolInv'
<1>1. tallyStarted /\ tallyStarted' /\ UNCHANGED <<ballot, defaultRank>>
  BY DEF PoolInv, EngineInv, EngineTypeOK, engineVars, ballotVars, tallyVars
<1>2. EngineInv'
  BY EngineSame DEF PoolInv
<1>3. PoolTypeOK'
  BY <1>1 DEF PoolInv, PoolTypeOK, CustodyOK
<1>4. BallotsInv'
  BY <1>1 DEF PoolInv, BallotsInv, NoRef
<1>5. WeightIsEarned'
  BY <1>1 DEF WeightIsEarned
<1> QED BY <1>2, <1>3, <1>4, <1>5 DEF PoolInv

\* What was claimed is part of what was spent.
LEMMA ClaimedPart ==
  ASSUME PoolInv
  PROVE  /\ claimedTotal \in Nat /\ spent \in Nat /\ balance \in Nat /\ Len(costs) \in Nat
         /\ claimedTotal <= spent
         /\ ClaimedCosts \in [1 .. Len(costs) -> Nat]
         /\ ClaimedCosts \in [1 .. Len(costs) -> Int]
         /\ \A c \in 1 .. Len(costs) : costs[c] \in Nat \ {0}
<1>1. costs \in Seq(Nat \ {0}) /\ spent \in Nat /\ balance \in Nat /\ spent = Sum(CostIfFunded, Len(costs))
      /\ claimedTotal = Sum(ClaimedCosts, Len(costs)) /\ claimed \subseteq funded
  BY DEF PoolInv, EngineInv, EngineTypeOK, EscrowInv, PoolTypeOK, CustodyOK
<1>2. Len(costs) \in Nat /\ \A c \in 1 .. Len(costs) : costs[c] \in Nat \ {0}
  BY <1>1
<1>3. ClaimedCosts \in [1 .. Len(costs) -> Nat] /\ CostIfFunded \in [1 .. Len(costs) -> Nat]
      /\ \A c \in 1 .. Len(costs) : ClaimedCosts[c] <= CostIfFunded[c]
  BY <1>1, <1>2 DEF ClaimedCosts, CostIfFunded
<1>4. ClaimedCosts \in [1 .. Len(costs) -> Int]
  BY <1>3
<1>5. Sum(ClaimedCosts, Len(costs)) <= Sum(CostIfFunded, Len(costs))
      /\ Sum(ClaimedCosts, Len(costs)) \in Nat
  BY <1>2, <1>3, SumBounds
<1> QED BY <1>1, <1>2, <1>3, <1>4, <1>5

LEMMA ClaimKeepsPool ==
  ASSUME PoolInv, NEW c \in Projects, Claim(c)
  PROVE  PoolInv'
<1>1. /\ tallyDone /\ c \in funded /\ c \notin claimed
      /\ claimed' = claimed \cup {c} /\ claimedTotal' = claimedTotal + costs[c]
      /\ balance >= costs[c] /\ balance' = balance - costs[c]
      /\ UNCHANGED engineVars
      /\ UNCHANGED <<votingOpen, pastDeadline, sponsorships, seatHolder, nftOwner, contributed,
                     arkivBallots, publicRefs>>
  BY Phases DEF Claim, PayProject, seatVars, arkivVars
<1>2. UNCHANGED <<costs, spent, budget, funded, tallyStarted, tallyDone>>
  BY <1>1 DEF engineVars, tallyVars
<1>3. /\ claimedTotal \in Nat /\ spent \in Nat /\ balance \in Nat /\ Len(costs) \in Nat
      /\ ClaimedCosts \in [1 .. Len(costs) -> Int] /\ c \in 1 .. Len(costs)
      /\ costs[c] \in Nat \ {0} /\ \A d \in 1 .. Len(costs) : costs[d] \in Nat
  BY ClaimedPart DEF Projects
<1>4. balance' \in Nat
  BY <1>1, <1>3
<1>5. claimedTotal' = Sum(ClaimedCosts, Len(costs))'
  <2>1. ClaimedCosts' = [d \in 1 .. Len(costs) |-> IF d \in claimed \cup {c} THEN costs[d] ELSE 0]
    BY <1>1, <1>2 DEF ClaimedCosts
  <2>2. ClaimedCosts' \in [1 .. Len(costs) -> Int]
        /\ (\A d \in 1 .. Len(costs) : d # c => ClaimedCosts'[d] = ClaimedCosts[d])
        /\ ClaimedCosts'[c] = costs[c] /\ ClaimedCosts[c] = 0
    <3>1. ClaimedCosts = [d \in 1 .. Len(costs) |-> IF d \in claimed THEN costs[d] ELSE 0]
      BY DEF ClaimedCosts
    <3> QED BY <1>1, <1>3, <2>1, <3>1
  <2>3. Sum(ClaimedCosts', Len(costs)) = Sum(ClaimedCosts, Len(costs)) + (ClaimedCosts'[c] - ClaimedCosts[c])
    <3>1. PICK f, g, n : f = ClaimedCosts /\ g = ClaimedCosts' /\ n = Len(costs)
      OBVIOUS
    <3>2. n \in Nat /\ f \in [1 .. n -> Int] /\ g \in [1 .. n -> Int] /\ c \in 1 .. n
          /\ \A d \in 1 .. n : d # c => g[d] = f[d]
      BY <1>3, <2>2, <3>1
    <3>3. Sum(g, n) = Sum(f, n) + (g[c] - f[c])
      BY <3>2, SumChanges
    <3> QED BY <3>1, <3>3
  <2>4. claimedTotal = Sum(ClaimedCosts, Len(costs))
    BY DEF PoolInv, EscrowInv
  <2> QED BY <1>1, <1>2, <1>3, <2>2, <2>3, <2>4
<1>6. EscrowInv'
  <2>1. claimed \subseteq funded /\ balance >= spent - claimedTotal
    BY <1>1 DEF PoolInv, EscrowInv
  <2>2. balance' >= spent' - claimedTotal'
    BY <1>1, <1>2, <1>3, <2>1
  <2> QED BY <1>1, <1>2, <1>5, <2>1, <2>2 DEF EscrowInv
<1> QED BY <1>1, <1>4, <1>6, AfterTally

LEMMA SweepKeeps ==
  ASSUME PoolInv, SweepLeftover
  PROVE  PoolInv'
<1>1. /\ tallyDone /\ spent >= claimedTotal /\ balance' = spent - claimedTotal
      /\ UNCHANGED <<claimed, claimedTotal>> /\ UNCHANGED engineVars
      /\ UNCHANGED <<votingOpen, pastDeadline, sponsorships, seatHolder, nftOwner, contributed,
                     arkivBallots, publicRefs>>
  BY Phases DEF SweepLeftover, Sweep, seatVars, arkivVars, payVars
<1>2. UNCHANGED <<costs, spent, funded, budget, tallyStarted, tallyDone>>
  BY <1>1 DEF engineVars, tallyVars
<1>3. balance' \in Nat /\ balance' >= spent - claimedTotal
  BY <1>1, ClaimedPart
<1>4. EscrowInv'
  <2>1. ClaimedCosts' = ClaimedCosts
    BY <1>1, <1>2 DEF ClaimedCosts
  <2> QED BY <1>1, <1>2, <1>3, <2>1 DEF PoolInv, EscrowInv
<1> QED BY <1>1, <1>3, <1>4, AfterTally

\* Gifts, transfers of the collection's tokens, time.
LEMMA EnvironmentKeeps ==
  ASSUME PoolInv, Environment
  PROVE  PoolInv'
<1> DEFINE Effect ==
             /\ balance' \in Nat /\ balance' >= balance
             /\ nftOwner' \in [TokenId -> Voter \ {NoHolder}]
             /\ pastDeadline' \in BOOLEAN
             /\ UNCHANGED <<votingOpen, sponsorships, seatHolder, claimed, claimedTotal, contributed,
                            arkivBallots, publicRefs>>
             /\ UNCHANGED engineVars
<1>1. Effect
  <2>0. balance \in Nat /\ nftOwner \in [TokenId -> Voter \ {NoHolder}] /\ pastDeadline \in BOOLEAN
    BY DEF PoolInv, PoolTypeOK, CustodyOK
  <2>1. ASSUME NEW amount \in Amounts, Donate(amount), UNCHANGED engineVars, UNCHANGED arkivVars
        PROVE  Effect
    BY <2>0, <2>1, InputsAssumption DEF Donate, seatVars, payVars, arkivVars
  <2>2. ASSUME NEW t \in TokenId, NEW to \in Voter, TransferNFT(t, to),
               UNCHANGED engineVars, UNCHANGED arkivVars
        PROVE  Effect
    BY <2>0, <2>2 DEF TransferNFT, payVars, arkivVars
  <2>3. ASSUME TimePasses PROVE Effect
    BY <2>0, <2>3 DEF TimePasses, DeadlinePasses, seatVars, payVars, arkivVars
  <2> HIDE DEF Effect
  <2> QED BY <2>1, <2>2, <2>3 DEF Environment
<1>2. UNCHANGED <<costs, ledger, ballot, defaultRank, budget, spent, funded, tallyStarted, tallyDone>>
  BY <1>1 DEF engineVars, ballotVars, tallyVars
<1>3. EngineInv'
  BY <1>1, EngineSame DEF PoolInv
<1>4. PoolTypeOK'
  BY <1>1, <1>2 DEF PoolInv, PoolTypeOK, CustodyOK
<1>5. BallotsInv'
  BY <1>1, <1>2, BallotsSame DEF PoolInv, Extends
<1>6. WeightIsEarned'
  BY <1>1, <1>2, EarnedSame DEF PoolInv
<1>7. EscrowInv'
  <2>1. ClaimedCosts' = ClaimedCosts
    BY <1>1, <1>2 DEF ClaimedCosts
  <2>2. claimedTotal \in Nat /\ spent \in Nat /\ balance \in Nat
    BY ClaimedPart
  <2>3. budget \in Nat
    BY DEF PoolInv, EngineInv, EngineTypeOK
  <2> QED BY <1>1, <1>2, <2>1, <2>2, <2>3 DEF PoolInv, EscrowInv
<1> QED BY <1>3, <1>4, <1>5, <1>6, <1>7 DEF PoolInv

-----------------------------------------------------------------------------
(* The invariant.                                                          *)

LEMMA InitHolds ==
  ASSUME Init
  PROVE  PoolInv
<1>1. /\ costs = << >> /\ Len(costs) = 0 /\ 1 .. Len(costs) = {}
      /\ ledger = [voters |-> << >>, weight |-> [v \in Voter |-> 0], granted |-> 0, total |-> 0]
      /\ ballot = [v \in Voter |-> << >>] /\ defaultRank = [v \in Voter |-> 0]
      /\ budget = 0 /\ rankLevel = 0 /\ spent = 0 /\ funded = {} /\ fundedOrder = << >>
      /\ tallyStarted = FALSE /\ tallyDone = FALSE /\ votingOpen = FALSE /\ pastDeadline = FALSE
      /\ balance = 0 /\ sponsorships = << >> /\ seatHolder = << >>
      /\ nftOwner \in [TokenId -> Voter \ {NoHolder}]
      /\ claimed = {} /\ claimedTotal = 0 /\ contributed = [v \in Voter |-> 0]
      /\ arkivBallots = FALSE /\ publicRefs = [v \in Voter |-> NoRef]
  BY DEF Init
<1>2. /\ ledger.voters = << >> /\ Len(ledger.voters) = 0 /\ ledger.granted = 0 /\ ledger.total = 0
      /\ ledger.weight = [v \in Voter |-> 0] /\ ledger \in Ledgers
  <2>1. /\ << >> \in Seq(Voter) /\ [v \in Voter |-> 0] \in [Voter -> Nat]
    OBVIOUS
  <2> QED BY <1>1, <2>1 DEF Ledgers
<1>3. EngineInv
  <2>1. EngineTypeOK
    <3>1. << >> \in Seq(Nat \ {0}) /\ << >> \in Seq(Projects)
      OBVIOUS
    <3> QED BY <1>1, <1>2, <3>1 DEF EngineTypeOK
  <2>2. RosterWeight(ledger) = 0
    <3>1. RosterWeights(ledger) \in [1 .. 0 -> Int]
      BY <1>2 DEF RosterWeights
    <3> QED BY <1>2, <3>1, EmptySum DEF RosterWeight
  <2>3. Sum(CostIfFunded, Len(costs)) = 0
    <3>1. CostIfFunded \in [1 .. 0 -> Int]
      BY <1>1 DEF CostIfFunded
    <3> QED BY <1>1, <3>1, EmptySum
  <2>4. RosterOK(ledger) /\ \A v \in Voter : ledger.weight[v] = 0
    BY <1>2 DEF RosterOK
  <2> QED BY <1>1, <1>2, <2>1, <2>2, <2>3, <2>4 DEF EngineInv
<1>4. PoolTypeOK
  <2>1. << >> \in Seq(Sponsorship(Voter)) /\ << >> \in Seq([TokenId -> Voter \cup {NoHolder}])
        /\ Len(seatHolder) = Len(sponsorships)
    BY <1>1
  <2>2. NoRef \in [payload : Seq(Nat), revision : Nat] /\ << >> \in Seq(Nat)
    BY DEF NoRef
  <2>3. /\ ballot \in [Voter -> Seq(Nat)] /\ defaultRank \in [Voter -> Nat]
        /\ contributed \in [Voter -> Nat]
        /\ publicRefs \in [Voter -> [payload : Seq(Nat), revision : Nat]]
    BY <1>1, <2>2
  <2> QED BY <1>1, <2>1, <2>3 DEF PoolTypeOK, CustodyOK
<1>5. BallotsInv
  <2>1. \A v \in Voter : ballot[v] = << >> /\ publicRefs[v] = NoRef
    BY <1>1
  <2>2. \A v \in Voter : Payloads[v] = << >> /\ publicRefs[v].payload = << >>
    BY <2>1 DEF Payloads, NoRef
  <2>3. BallotsOK(ballot) /\ BallotsOK(Payloads)
    BY <2>1, <2>2 DEF BallotsOK
  <2> QED BY <1>1, <2>1, <2>2, <2>3 DEF BallotsInv
<1>6. WeightIsEarned
  <2> SUFFICES ASSUME NEW v \in Voter
               PROVE  ledger.weight[v] = contributed[v] + Sum(SeatWeight(v), Len(sponsorships))
    BY EarnedIs
  <2>1. Len(sponsorships) = 0 /\ SeatWeight(v) \in [1 .. 0 -> Int]
    BY <1>1 DEF SeatWeight
  <2>2. Sum(SeatWeight(v), Len(sponsorships)) = 0
    BY <2>1, EmptySum
  <2> QED BY <1>1, <1>2, <2>2
<1>7. EscrowInv
  <2>1. ClaimedCosts \in [1 .. 0 -> Int]
    BY <1>1 DEF ClaimedCosts
  <2>2. Sum(ClaimedCosts, Len(costs)) = 0
    BY <1>1, <2>1, EmptySum
  <2> QED BY <1>1, <2>2 DEF EscrowInv
<1> QED BY <1>3, <1>4, <1>5, <1>6, <1>7 DEF PoolInv

LEMMA StutterKeeps ==
  ASSUME PoolInv, UNCHANGED vars
  PROVE  PoolInv'
<1>1. /\ UNCHANGED engineVars
      /\ UNCHANGED <<votingOpen, pastDeadline, balance, sponsorships, seatHolder, nftOwner, claimed,
                     claimedTotal, contributed, arkivBallots, publicRefs>>
      /\ UNCHANGED <<costs, ledger, ballot, defaultRank, budget, rankLevel, spent, funded, tallyStarted,
                     tallyDone>>
  BY DEF vars, engineVars, poolVars, seatVars, payVars, arkivVars, ballotVars, tallyVars
<1>2. EngineInv'
  BY <1>1, EngineSame DEF PoolInv
<1>3. PoolTypeOK'
  BY <1>1 DEF PoolInv, PoolTypeOK, CustodyOK
<1>4. BallotsInv'
  BY <1>1, BallotsSame DEF PoolInv, Extends
<1>5. WeightIsEarned'
  BY <1>1, EarnedSame DEF PoolInv
<1>6. EscrowInv'
  BY <1>1 DEF PoolInv, EscrowInv, ClaimedCosts
<1> QED BY <1>2, <1>3, <1>4, <1>5, <1>6 DEF PoolInv

LEMMA NextKeeps ==
  ASSUME PoolInv, Next
  PROVE  PoolInv'
<1>1. CASE \E cost \in Costs : CreateProject(cost)
  BY <1>1, CreateProjectKeeps
<1>2. CASE EnableArkivBallots
  BY <1>2, EnableArkivBallotsKeeps
<1>3. CASE OpenVoting
  BY <1>3, OpenVotingKeeps
<1>4. CASE \E who \in Voter, amount \in Amounts, fee \in Fees : Contribute(who, amount, fee)
  BY <1>4, ContributeKeeps
<1>5. CASE \E who \in Voter, ranks \in BallotInputs : Vote(who, ranks)
  BY <1>5, VoteKeeps
<1>6. CASE \E who \in Voter, ranks \in BallotInputs, revision \in 0 .. MaxRevision :
             VoteArkiv(who, ranks, revision)
  BY <1>6, VoteArkivKeeps
<1>7. CASE \E who \in Voter, amount \in Amounts, fee \in Fees, ranks \in BallotInputs,
              revision \in 0 .. MaxRevision : CastBallot(who, amount, fee, ranks, revision)
  BY <1>7, CastBallotKeeps
<1>8. CASE \E amount \in Amounts, fee \in Fees, members \in MemberLists : Sponsor(amount, fee, members)
  BY <1>8, SponsorKeeps
<1>9. CASE \E amount \in Amounts, fee \in Fees, seats \in SeatCounts : SponsorNFT(amount, fee, seats)
  BY <1>9, SponsorNFTKeeps
<1>10. CASE \E who \in Voter, id \in DOMAIN sponsorships, t \in TokenId : ClaimSeat(who, id, t)
  BY <1>10, ClaimSeatKeeps
<1>11. CASE CloseVoting
  BY <1>11, CloseVotingKeeps
<1>12. CASE StepPublic
  BY <1>12, TallyStepKeeps DEF StepPublic
<1>13. CASE \E witness \in Witnesses : StepArkiv(witness)
  BY <1>13, TallyStepKeeps DEF StepArkiv
<1>14. CASE \E c \in Projects : Claim(c)
  BY <1>14, ClaimKeepsPool
<1>15. CASE SweepLeftover
  BY <1>15, SweepKeeps
<1>16. CASE Environment
  BY <1>16, EnvironmentKeeps
<1> QED BY <1>1, <1>2, <1>3, <1>4, <1>5, <1>6, <1>7, <1>8, <1>9, <1>10, <1>11, <1>12, <1>13, <1>14,
           <1>15, <1>16 DEF Next, TallySteps

\* PoolInv holds in every reachable state of the public pool, whatever the
\* costs, deposits, fees, ballots, member lists and seat counts its callers
\* send and however their calls interleave with gifts, transfers and the
\* deadline.
THEOREM PoolInvariant == Spec => []PoolInv
<1>1. Init => PoolInv
  BY InitHolds
<1>2. PoolInv /\ [Next]_vars => PoolInv'
  BY NextKeeps, StutterKeeps
<1> QED BY <1>1, <1>2, PTL DEF Spec

\* An address's weight is what it contributed plus its share of every seat it
\* was given or was the last to claim, through any order of deposits, claims
\* and transfers of the collection's tokens (RankedShares.sol:173-183,
\* PoolBase.sol:292-392): WeightIsEarned.
THEOREM EarnedWeight == Spec => []WeightIsEarned
<1>1. PoolInv => WeightIsEarned
  BY DEF PoolInv
<1> QED BY <1>1, PoolInvariant, PTL

\* The tally finds a ledger that adds up and only ballots that rank exactly
\* this round's projects, in the pool or in Arkiv: ReadyForTally, which is
\* what TallyProofs assumes of its initial states.
THEOREM TallyGetsGoodInputs == Spec => []ReadyForTally
<1>1. PoolInv => ReadyForTally
  BY LedgerBefore DEF PoolInv, BallotsInv, ReadyForTally
<1> QED BY <1>1, PoolInvariant, PTL

-----------------------------------------------------------------------------
(* Steps.                                                                  *)

\* Paying for a project takes weight from nobody who has none to give, and
\* gives none to anybody.
LEMMA PaymentLowers ==
  ASSUME EngineInv, NEW STATE b, FundBest(b)
  PROVE  /\ \A v \in Voter : ledger'.weight[v] <= ledger.weight[v]
         /\ fundedOrder' # fundedOrder
<1> DEFINE best == Best(b)
           D == Deductions(b, best)
           n == Len(ledger.voters)
<1>1. /\ D \in [1 .. n -> Nat]
      /\ \A i \in 1 .. n : ledger'.weight[ledger.voters[i]] = ledger.weight[ledger.voters[i]] - D[i]
      /\ \A v \in Voter : ~IsVoter(ledger, v) => ledger'.weight[v] = ledger.weight[v]
  BY FundBestEffect
<1>2. ledger.weight \in [Voter -> Nat] /\ ledger.voters \in Seq(Voter) /\ fundedOrder \in Seq(Projects)
  BY DEF EngineInv, EngineTypeOK, Ledgers
<1>3. ASSUME NEW v \in Voter PROVE ledger'.weight[v] <= ledger.weight[v]
  <2>0. ledger.weight[v] \in Nat
    BY <1>2
  <2>1. CASE IsVoter(ledger, v)
    <3>1. PICK i \in 1 .. n : ledger.voters[i] = v
      BY <2>1, <1>2 DEF IsVoter
    <3>2. D[i] \in Nat /\ ledger'.weight[v] = ledger.weight[v] - D[i]
      BY <1>1, <3>1
    <3> HIDE DEF D
    <3> QED BY <2>0, <3>2
  <2>2. CASE ~IsVoter(ledger, v)
    BY <1>1, <2>0, <2>2
  <2> QED BY <2>1, <2>2
<1>4. fundedOrder' # fundedOrder
  <2>1. fundedOrder' = Append(fundedOrder, best)
    BY DEF FundBest
  <2>2. best \in Projects
    BY FundBestEffect
  <2> HIDE DEF best
  <2>3. Len(Append(fundedOrder, best)) = Len(fundedOrder) + 1 /\ Len(fundedOrder) \in Nat
    BY <1>2, <2>2
  <2> QED BY <2>1, <2>3
<1> QED BY <1>3, <1>4

\* Once the deadline of an open round has passed nothing the tally counts can
\* change, not even by whoever runs the tally, and weight only leaves an
\* address as payment for the project that the same step funds:
\* TallyInputsFrozen (beforeDeadline and inPhase on every entry point of
\* RankedShares.sol, and the deductions of PBEAR.sol:185-207).
THEOREM FrozenAfterDeadline == Spec => TallyInputsFrozen
<1> DEFINE Frozen ==
             /\ UNCHANGED <<costs, ballotVars, publicRefs, ledger.voters, ledger.granted, ledger.total>>
             /\ fundedOrder' = fundedOrder => UNCHANGED ledger.weight
             /\ \A v \in Voter : ledger'.weight[v] <= ledger.weight[v]
<1>0. ASSUME PoolInv, UNCHANGED ledger, UNCHANGED <<costs, ballotVars, publicRefs>> PROVE Frozen
  <2>1. \A v \in Voter : ledger.weight[v] \in Nat
    BY <1>0 DEF PoolInv, EngineInv, EngineTypeOK, Ledgers
  <2>2. \A v \in Voter : ledger'.weight[v] <= ledger.weight[v]
    BY <1>0, <2>1
  <2> QED BY <1>0, <2>2
<1>1. ASSUME PoolInv, Next, votingOpen, pastDeadline PROVE Frozen
  <2> HIDE DEF Frozen
  <2>1. phase # "Setup"
    BY <1>1, Phases
  <2>2. ASSUME UNCHANGED <<engineVars, arkivVars>> PROVE Frozen
    BY <1>0, <1>1, <2>2 DEF engineVars, arkivVars
  <2>3. ASSUME NEW STATE b, Step(b), UNCHANGED <<poolVars, arkivVars>> PROVE Frozen
    <3>1. UNCHANGED <<costs, ballotVars, publicRefs>>
      BY <2>3 DEF Step, FundBest, RaiseLevel, FinishUnsupported, arkivVars
    <3>2. CASE FundBest(b)
      <4>1. ledger'.voters = ledger.voters /\ ledger'.granted = ledger.granted
            /\ ledger'.total = ledger.total
        BY <1>1, <3>2, FundBestEffect DEF PoolInv
      <4>2. fundedOrder' # fundedOrder /\ \A v \in Voter : ledger'.weight[v] <= ledger.weight[v]
        BY <1>1, <3>2, PaymentLowers DEF PoolInv
      <4> QED BY <3>1, <4>1, <4>2 DEF Frozen
    <3>3. CASE RaiseLevel(b) \/ FinishUnsupported(b)
      <4>1. UNCHANGED ledger
        BY <3>3 DEF RaiseLevel, FinishUnsupported
      <4> QED BY <1>0, <1>1, <3>1, <4>1
    <3> QED BY <2>3, <3>2, <3>3 DEF Step
  <2>4. CASE CloseVoting
    BY <1>0, <1>1, <2>4 DEF CloseVoting, StartTally, arkivVars
  <2>5. CASE TallySteps
    BY <2>3, <2>5 DEF TallySteps, StepPublic, StepArkiv
  <2>6. CASE (\E c \in Projects : Claim(c)) \/ SweepLeftover \/ Environment
    <3>1. CASE \E c \in Projects : Claim(c)
      BY <3>1, <2>2 DEF Claim
    <3>2. CASE SweepLeftover
      BY <3>2, <2>2 DEF SweepLeftover
    <3>3. CASE Environment
      <4>1. UNCHANGED engineVars /\ UNCHANGED arkivVars
        BY <3>3 DEF Environment, TimePasses
      <4> QED BY <4>1, <2>2
    <3> QED BY <2>6, <3>1, <3>2, <3>3
  <2>7. CASE ~(CloseVoting \/ TallySteps \/ (\E c \in Projects : Claim(c)) \/ SweepLeftover \/ Environment)
    <3>1. \A cost \in Costs : ~CreateProject(cost)
      BY <2>1 DEF CreateProject
    <3>2. ~EnableArkivBallots /\ ~OpenVoting
      BY <2>1 DEF EnableArkivBallots, OpenVoting
    <3>3. \A who \in Voter, amount \in Amounts, fee \in Fees : ~Contribute(who, amount, fee)
      BY <1>1 DEF Contribute, Deposit
    <3>4. \A who \in Voter, ranks \in BallotInputs : ~Vote(who, ranks)
      BY <1>1 DEF Vote
    <3>5. \A who \in Voter, ranks \in BallotInputs, revision \in 0 .. MaxRevision :
            ~VoteArkiv(who, ranks, revision)
      BY <1>1 DEF VoteArkiv, AcceptArkivBallot
    <3>6. \A who \in Voter, amount \in Amounts, fee \in Fees, ranks \in BallotInputs,
             revision \in 0 .. MaxRevision : ~CastBallot(who, amount, fee, ranks, revision)
      BY <1>1 DEF CastBallot, AcceptArkivBallot
    <3>7. \A amount \in Amounts, fee \in Fees, members \in MemberLists : ~Sponsor(amount, fee, members)
      BY <1>1 DEF Sponsor, Deposit
    <3>8. \A amount \in Amounts, fee \in Fees, seats \in SeatCounts : ~SponsorNFT(amount, fee, seats)
      BY <1>1 DEF SponsorNFT, Deposit
    <3>9. \A who \in Voter, id \in DOMAIN sponsorships, t \in TokenId : ~ClaimSeat(who, id, t)
      BY <1>1 DEF ClaimSeat, TakeSeat, SeatClaimable
    <3> QED BY <1>1, <2>7, <3>1, <3>2, <3>3, <3>4, <3>5, <3>6, <3>7, <3>8, <3>9 DEF Next
  <2> QED BY <2>4, <2>5, <2>6, <2>7
<1>2. PoolInv /\ [Next]_vars => [(votingOpen /\ pastDeadline) => Frozen]_vars
  <2> HIDE DEF Frozen
  <2> QED BY <1>1
<1> QED BY <1>2, PoolInvariant, PTL DEF Spec, TallyInputsFrozen

\* Two sets of ballots that agree on the roster make the same step: the same
\* projects are eligible, the same one is best, and its supporters are charged
\* the same.
LEMMA StepOfRoster ==
  ASSUME NEW STATE a, NEW STATE b,
         \A i \in 1 .. Len(ledger.voters) : a[ledger.voters[i]] = b[ledger.voters[i]],
         Step(a)
  PROVE  Step(b)
<1>1. ASSUME NEW c PROVE Backing(a, c) = Backing(b, c)
  <2>1. \A i \in 1 .. Len(ledger.voters) :
          Approves(a, ledger.voters[i], c) <=> Approves(b, ledger.voters[i], c)
    BY DEF Approves, EffectiveRank
  <2> QED BY <2>1 DEF Backing
<1>2. \A c : Support(a, c) = Support(b, c)
  BY <1>1 DEF Support
<1>3. Eligible(a) = Eligible(b)
  BY <1>2 DEF Eligible
<1>4. [c \in Projects |-> Support(a, c)] = [c \in Projects |-> Support(b, c)]
  BY <1>2
<1>5. Best(a) = Best(b)
  BY <1>3, <1>4 DEF Best
<1>6. \A c : Deductions(a, c) = Deductions(b, c)
  BY <1>1 DEF Deductions
<1>7. FundBest(a) => FundBest(b)
  BY <1>3, <1>5, <1>6 DEF FundBest
<1>8. RaiseLevel(a) => RaiseLevel(b)
  BY <1>3 DEF RaiseLevel
<1>9. FinishUnsupported(a) => FinishUnsupported(b)
  BY <1>3 DEF FinishUnsupported
<1> QED BY <1>7, <1>8, <1>9 DEF Step

\* The payloads a caller of runArkiv presents count for no more than the
\* references the pool stored: every step of the tally is the one the accepted
\* ballots make (ArkivBallots.sol:57-64): AcceptedBallotsDecide.
THEOREM OnlyAcceptedBallotsDecide == Spec => AcceptedBallotsDecide
<1> DEFINE Decided == Step(IF arkivBallots THEN Payloads ELSE ballot) \/ UNCHANGED engineVars
<1>1. ASSUME PoolInv, Next, phase = "Tally" PROVE Decided
  <2>0. ~tallyDone /\ tallyStarted
    BY <1>1 DEF phase
  <2>1. CASE StepPublic
    <3>1. ~arkivBallots /\ Step(ballot)
      BY <2>1 DEF StepPublic
    <3>2. (IF arkivBallots THEN Payloads ELSE ballot) = ballot
      BY <3>1
    <3> QED BY <3>1, <3>2
  <2>2. ASSUME NEW witness \in Witnesses, StepArkiv(witness) PROVE Decided
    <3>1. arkivBallots /\ Step(witness)
          /\ \A i \in DOMAIN ledger.voters : CheckBallot(ledger.voters[i], witness[ledger.voters[i]])
      BY <2>2 DEF StepArkiv
    <3>2. /\ ledger.voters \in Seq(Voter)
          /\ \A v \in Voter : publicRefs[v].revision = 0 => publicRefs[v].payload = << >>
      BY <1>1 DEF PoolInv, BallotsInv, EngineInv, EngineTypeOK, Ledgers
    <3>3. ASSUME NEW i \in 1 .. Len(ledger.voters)
          PROVE  witness[ledger.voters[i]] = Payloads[ledger.voters[i]]
      <4>1. ledger.voters[i] \in Voter /\ CheckBallot(ledger.voters[i], witness[ledger.voters[i]])
        BY <3>1, <3>2
      <4> QED BY <3>2, <4>1 DEF CheckBallot, Payloads
    <3>4. Step(Payloads)
      BY <3>1, <3>3, StepOfRoster
    <3>5. (IF arkivBallots THEN Payloads ELSE ballot) = Payloads
      BY <3>1
    <3> QED BY <3>4, <3>5
  <2>3. CASE ~TallySteps
    <3>1. UNCHANGED engineVars
      <4>1. phase # "Setup" /\ phase # "Open" /\ phase # "Done"
        BY <1>1
      <4> QED BY <1>1, <2>3, <4>1
      DEF Next, CreateProject, EnableArkivBallots, OpenVoting, Contribute, Vote,
          VoteArkiv, AcceptArkivBallot, CastBallot, Sponsor, SponsorNFT, ClaimSeat, CloseVoting, Claim,
          SweepLeftover, Environment, TimePasses
    <3> QED BY <3>1
  <2> HIDE DEF Decided
  <2> QED BY <2>1, <2>2, <2>3 DEF TallySteps
<1>2. PoolInv /\ [Next]_vars => [phase = "Tally" => Decided]_vars
  <2> HIDE DEF Decided
  <2> QED BY <1>1
<1> QED BY <1>2, PoolInvariant, PTL DEF Spec, AcceptedBallotsDecide

-----------------------------------------------------------------------------
(* The pool keeps what Escrow promises.                                    *)

Award == IF tallyDone
         THEN [c \in 1 .. Len(costs) |-> IF c \in funded THEN costs[c] ELSE 0] ELSE << >>

LEMMA PromiseSum == \A f, n : Promise!Sum(f, n) = Sum(f, n)
BY DEF Promise!Sum, Promise!PrefixSum, Sum, PrefixSum

\* What is owed is what the funded projects cost less what was claimed.
LEMMA OwedIs == PoolInv /\ tallyDone => Promise!Owed = spent - claimedTotal
<1> SUFFICES ASSUME PoolInv, tallyDone PROVE Promise!Owed = spent - claimedTotal
  OBVIOUS
<1> DEFINE n == Len(costs)
           owed == [c \in 1 .. n |-> IF c \in claimed THEN 0 ELSE CostIfFunded[c]]
<1>1. /\ n \in Nat /\ ClaimedCosts \in [1 .. n -> Int] /\ claimedTotal \in Nat /\ spent \in Nat
      /\ \A c \in 1 .. n : costs[c] \in Nat
  BY ClaimedPart
<1>2. /\ claimed \subseteq funded /\ claimedTotal = Sum(ClaimedCosts, n)
      /\ spent = Sum(CostIfFunded, n)
  BY DEF PoolInv, EscrowInv, EngineInv
<1>3. Award = CostIfFunded /\ Len(Award) = n
  <2>1. Award = CostIfFunded
    BY DEF Award, CostIfFunded
  <2>2. Len([c \in 1 .. n |-> IF c \in funded THEN costs[c] ELSE 0]) = n
    BY <1>1
  <2> QED BY <2>1, <2>2 DEF CostIfFunded
<1>4. Promise!Owed = Sum(owed, n)
  <2>1. Promise!Owed = Promise!Sum([c \in 1 .. Len(Award) |-> IF c \in claimed THEN 0 ELSE Award[c]], Len(Award))
    BY DEF Promise!Owed, Award
  <2>2. Promise!Owed = Promise!Sum(owed, n)
    BY <1>3, <2>1
  <2> HIDE DEF owed, n
  <2> QED BY <2>2, PromiseSum
<1>5. CostIfFunded \in [1 .. n -> Int] /\ owed \in [1 .. n -> Int]
  BY <1>1 DEF CostIfFunded
<1>6. \A c \in 1 .. n : CostIfFunded[c] = ClaimedCosts[c] + owed[c]
  BY <1>1, <1>2 DEF CostIfFunded, ClaimedCosts
<1> HIDE DEF owed, n
<1>7. Sum(CostIfFunded, n) = Sum(ClaimedCosts, n) + Sum(owed, n)
  BY <1>1, <1>5, <1>6, SumOfSums
<1>8. Sum(owed, n) \in Int
  <2>1. PrefixSum(owed, n) \in [0 .. n -> Int]
    BY <1>1, <1>5, PrefixSumUnfold
  <2> QED BY <1>1, <2>1 DEF Sum
<1> QED BY <1>1, <1>2, <1>4, <1>7, <1>8

LEMMA OwedNext == (PoolInv /\ tallyDone => Promise!Owed = spent - claimedTotal)'
BY OwedIs, PTL

\* Every transaction of the pool is one of Escrow's four steps or none: a
\* receipt while nothing is decided, the decision at the step that ends the
\* tally, a payment per claim, a release per sweep.
LEMMA NextIsPromised ==
  ASSUME PoolInv, PoolInv', [Next]_vars
  PROVE  [Promise!Next]_<<balance, tallyDone, Award, claimed>>
<1>0. /\ balance \in Nat /\ balance' \in Nat /\ spent \in Nat /\ claimedTotal \in Nat
      /\ budget \in Nat /\ spent' \in Nat
      /\ tallyDone \in BOOLEAN /\ tallyDone' \in BOOLEAN
  <2>1. balance \in Nat /\ spent \in Nat /\ claimedTotal \in Nat
    BY ClaimedPart
  <2> QED BY <2>1 DEF PoolInv, PoolTypeOK, EngineInv, EngineTypeOK
<1>1. ASSUME balance' >= balance, UNCHANGED <<costs, funded, tallyDone, claimed>> \/
                                  (~tallyDone /\ ~tallyDone' /\ claimed' = claimed)
      PROVE  Promise!Receive
  BY <1>0, <1>1 DEF Promise!Receive
<1>2. ASSUME ~tallyDone, tallyDone', UNCHANGED <<balance, claimed, claimedTotal>>
      PROVE  Promise!Decide
  <2>1. claimed' = {}
    BY <1>2 DEF PoolInv, EscrowInv
  <2>2. balance' >= spent' - claimedTotal'
    BY <1>2 DEF PoolInv, EscrowInv
  <2>3. Promise!Owed' = spent' - claimedTotal'
    BY <1>2, OwedNext
  <2>4. Promise!Owed' <= balance
    BY <1>0, <1>2, <2>2, <2>3
  <2> QED BY <1>2, <2>1, <2>4 DEF Promise!Decide
<1>3. ASSUME NEW c \in Projects, Claim(c) PROVE Promise!Pay
  <2>1. /\ tallyDone /\ c \in funded /\ c \notin claimed
        /\ claimed' = claimed \cup {c} /\ balance' = balance - costs[c]
        /\ UNCHANGED <<costs, funded, tallyDone>>
    BY <1>3, Phases DEF Claim, PayProject, engineVars, tallyVars
  <2>2. c \in 1 .. Len(costs) /\ costs[c] \in Nat \ {0}
    BY ClaimedPart DEF Projects
  <2>3. Award' = Award
    BY <2>1 DEF Award
  <2>4. c \in DOMAIN Award /\ Award[c] = costs[c]
    BY <2>1, <2>2 DEF Award
  <2>5. \E d \in DOMAIN Award \ claimed :
          Award[d] > 0 /\ claimed' = claimed \cup {d} /\ balance' = balance - Award[d]
    BY <2>1, <2>2, <2>4
  <2> QED BY <2>1, <2>3, <2>5 DEF Promise!Pay, Award
<1>4. ASSUME SweepLeftover PROVE Promise!Release
  <2>1. /\ tallyDone /\ balance' = spent - claimedTotal
        /\ UNCHANGED <<costs, funded, tallyDone, claimed>>
    BY <1>4, Phases DEF SweepLeftover, Sweep, payVars, engineVars, tallyVars
  <2>2. Promise!Owed = spent - claimedTotal
    BY <2>1, OwedIs
  <2>3. balance >= spent - claimedTotal
    BY <2>1 DEF PoolInv, EscrowInv
  <2>4. Promise!Owed <= balance' /\ balance' <= balance
    BY <1>0, <2>1, <2>2, <2>3
  <2>5. Award' = Award
    BY <2>1 DEF Award
  <2> QED BY <2>1, <2>4, <2>5 DEF Promise!Release, Award
<1>5. CASE UNCHANGED vars
  <2>1. UNCHANGED <<balance, tallyDone, costs, funded, claimed>>
    BY <1>5 DEF vars, engineVars, tallyVars, poolVars, payVars
  <2> QED BY <2>1 DEF Award
<1>6. CASE CloseVoting \/ TallySteps
  <2>1. /\ ~tallyDone /\ UNCHANGED <<balance, claimed, claimedTotal>>
    <3>1. CASE CloseVoting
      BY <3>1, Phases DEF CloseVoting, poolVars, payVars
    <3>2. CASE TallySteps
      BY <3>2 DEF TallySteps, StepPublic, StepArkiv, Step, FundBest, RaiseLevel, FinishUnsupported,
                  poolVars, payVars
    <3> QED BY <1>6, <3>1, <3>2
  <2>2. CASE tallyDone'
    BY <1>2, <2>1, <2>2 DEF Promise!Next
  <2>3. CASE ~tallyDone'
    BY <1>0, <1>1, <2>1, <2>3 DEF Promise!Next
  <2> QED BY <2>2, <2>3
<1>7. CASE \E c \in Projects : Claim(c)
  BY <1>3, <1>7 DEF Promise!Next
<1>8. CASE SweepLeftover
  BY <1>4, <1>8 DEF Promise!Next
<1>9. CASE Environment
  <2>1. balance' >= balance /\ UNCHANGED <<claimed, engineVars>>
    <3>1. ASSUME NEW amount \in Amounts, Donate(amount), UNCHANGED engineVars
          PROVE  balance' >= balance /\ UNCHANGED <<claimed, engineVars>>
      BY <1>0, <3>1, InputsAssumption DEF Donate, payVars
    <3>2. ASSUME NEW t \in TokenId, NEW to \in Voter, TransferNFT(t, to), UNCHANGED engineVars
          PROVE  balance' >= balance /\ UNCHANGED <<claimed, engineVars>>
      BY <1>0, <3>2 DEF TransferNFT, payVars
    <3>3. ASSUME TimePasses
          PROVE  balance' >= balance /\ UNCHANGED <<claimed, engineVars>>
      BY <1>0, <3>3 DEF TimePasses, DeadlinePasses, payVars
    <3> QED BY <1>9, <3>1, <3>2, <3>3 DEF Environment
  <2>2. UNCHANGED <<costs, funded, tallyDone, claimed>>
    BY <2>1 DEF engineVars, tallyVars
  <2> QED BY <1>1, <2>1, <2>2 DEF Promise!Next
<1>10. CASE Next /\ ~(CloseVoting \/ TallySteps \/ (\E c \in Projects : Claim(c)) \/ SweepLeftover
                      \/ Environment)
  <2>1. balance' >= balance /\ ~tallyDone /\ UNCHANGED <<claimed, tallyDone>>
    <3>1. ASSUME NEW amount \in Amounts, NEW fee \in Fees, Deposit(amount, fee)
          PROVE  balance' >= balance
      BY <1>0, <3>1, InputsAssumption DEF Deposit
    <3>2. CASE \E cost \in Costs : CreateProject(cost)
      BY <1>0, <3>2, Phases DEF CreateProject, AddProject, poolVars, payVars, tallyVars
    <3>3. CASE EnableArkivBallots \/ OpenVoting
      BY <1>0, <3>3, Phases DEF EnableArkivBallots, OpenVoting, poolVars, payVars, engineVars, tallyVars
    <3>4. CASE \E who \in Voter, amount \in Amounts, fee \in Fees : Contribute(who, amount, fee)
      BY <3>1, <3>4, Phases DEF Contribute, payVars, tallyVars
    <3>5. CASE \E who \in Voter, ranks \in BallotInputs : Vote(who, ranks)
      BY <1>0, <3>5, Phases DEF Vote, SetBallot, poolVars, payVars, tallyVars
    <3>6. CASE \E who \in Voter, ranks \in BallotInputs, revision \in 0 .. MaxRevision :
                 VoteArkiv(who, ranks, revision)
      BY <1>0, <3>6, Phases DEF VoteArkiv, AcceptArkivBallot, poolVars, payVars, tallyVars
    <3>7. CASE \E who \in Voter, amount \in Amounts, fee \in Fees, ranks \in BallotInputs,
                  revision \in 0 .. MaxRevision : CastBallot(who, amount, fee, ranks, revision)
      BY <3>1, <3>7, Phases DEF CastBallot, AcceptArkivBallot, payVars, tallyVars
    <3>8. CASE \E amount \in Amounts, fee \in Fees, members \in MemberLists : Sponsor(amount, fee, members)
      BY <3>1, <3>8, Phases DEF Sponsor, payVars, tallyVars
    <3>9. CASE \E amount \in Amounts, fee \in Fees, seats \in SeatCounts : SponsorNFT(amount, fee, seats)
      BY <3>1, <3>9, Phases DEF SponsorNFT, payVars, tallyVars
    <3>10. CASE \E who \in Voter, id \in DOMAIN sponsorships, t \in TokenId : ClaimSeat(who, id, t)
      BY <1>0, <3>10, Phases DEF ClaimSeat, payVars, tallyVars
    <3> QED BY <1>10, <3>2, <3>3, <3>4, <3>5, <3>6, <3>7, <3>8, <3>9, <3>10 DEF Next
  <2> QED BY <1>0, <1>1, <2>1 DEF Promise!Next
<1> QED BY <1>5, <1>6, <1>7, <1>8, <1>9, <1>10

\* The public pool implements Escrow: it decides once, never awards more than
\* it holds, pays each award at most once and in full, and lets the owner take
\* only what no award still needs: ImplementsEscrow.
THEOREM KeepsItsPromise == Spec => ImplementsEscrow
<1>1. Init => Promise!Init
  BY DEF Init, Promise!Init
<1>2. PoolInv /\ PoolInv' /\ [Next]_vars => [Promise!Next]_<<balance, tallyDone, Award, claimed>>
  BY NextIsPromised
<1>3. PoolInv /\ PoolInv' /\ [Next]_vars => [Promise!Next]_(Promise!escrowVars)
  BY <1>2 DEF Promise!escrowVars, Award
<1> QED BY <1>1, <1>3, PoolInvariant, PTL DEF Spec, ImplementsEscrow, Promise!Spec
=============================================================================
