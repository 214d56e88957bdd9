-------------------------------- MODULE PBEAR --------------------------------
(***************************************************************************)
(* The PB Expanding Approvals engine, src/src/PBEAR.sol: projects, ballots *)
(* of competition ranks, the weight ledger, and the tally that funds one   *)
(* project or widens every ballot by one rank in each step.                *)
(*                                                                         *)
(* PBEAR.sol is an abstract contract.  Its internal functions are here     *)
(* operators on the ledger and actions on the rest of its storage, which   *)
(* a pool (RankedShares) composes into its own transactions.  What runs on *)
(* its own is the tally of a frozen ledger: TallySpec.                     *)
(*                                                                         *)
(* Projects are numbered from 1 here and from 0 in the code.  A ballot is  *)
(* a sequence of ranks, << >> for a voter that never cast one.             *)
(*                                                                         *)
(* Operators whose names begin with Bug are not the code: each is a        *)
(* mistake its neighbour could have been written with, kept to confirm     *)
(* that a property would notice.  Nothing else refers to them.             *)
(***************************************************************************)
EXTENDS Integers, Sequences, FiniteSets, PrefixSums

CONSTANTS
  Voter,       \* the addresses that may hold weight or vote
  RankValues   \* how many values a stored rank has: 256 for uint8

ASSUME RankValuesAssumption == RankValues \in Nat /\ RankValues > 1

MAX_PROJECTS == RankValues - 1

VARIABLES
  costs,        \* _costs: a sequence, the cost of every project
  ledger,       \* _voters, _weight, _grantedWeight and totalWeight
  ballot,       \* _ballot: the ranks each voter stored in the pool
  defaultRank,  \* _defaultRank: the rank of what a voter left unranked
  budget,       \* fixed when the tally starts
  rankLevel,    \* the j of j-approval
  spent,        \* the cost of what is funded
  funded,       \* funded: the set of projects it maps to true
  fundedOrder,  \* _fundedOrder
  tallyStarted,
  tallyDone

ballotVars == <<ballot, defaultRank>>
tallyVars  == <<budget, rankLevel, spent, funded, fundedOrder, tallyStarted, tallyDone>>
engineVars == <<costs, ledger, ballotVars, tallyVars>>

Projects == 1 .. Len(costs)

-----------------------------------------------------------------------------
(* The weight ledger.  Granting and revoking are operators, because one    *)
(* transaction of a pool may apply several of them.                        *)

IsVoter(L, v) == \E i \in DOMAIN L.voters : L.voters[i] = v

BugRegisterTwice(L, v) == [L EXCEPT !.voters = Append(@, v)]

RegisterVoter(L, v) ==
  IF IsVoter(L, v) THEN L ELSE [L EXCEPT !.voters = Append(@, v)]

IncreaseTotalWeight(L, amount) == [L EXCEPT !.total = @ + amount]

CanGrant(L, amount) == L.granted + amount <= L.total

GrantWeight(L, v, amount) ==
  [RegisterVoter(L, v) EXCEPT !.weight[v] = @ + amount, !.granted = @ + amount]

CanRevoke(L, v, amount) == amount <= L.weight[v] /\ amount <= L.granted

RevokeWeight(L, v, amount) ==
  [L EXCEPT !.weight[v] = @ - amount, !.granted = @ - amount]

-----------------------------------------------------------------------------
(* Projects and ballots.                                                   *)

AddProject(cost) ==
  /\ ~tallyStarted
  /\ cost # 0
  /\ Len(costs) < MAX_PROJECTS
  /\ costs' = Append(costs, cost)
  /\ UNCHANGED <<ledger, ballotVars, tallyVars>>

RankedBelow(ranks, r) == {c \in DOMAIN ranks : ranks[c] # 0 /\ ranks[c] < r}

\* Competition ranking: rank r is used only if r - 1 projects rank better.
ValidBallot(ranks) ==
  /\ Len(ranks) = Len(costs)
  /\ \A c \in DOMAIN ranks :
       /\ ranks[c] <= Len(costs)
       /\ ranks[c] # 0 => ranks[c] = Cardinality(RankedBelow(ranks, ranks[c])) + 1

\* uint8(seen + 1): it wraps to 0 when all of MAX_PROJECTS are ranked.
LastTier(ranks) == (Cardinality({c \in DOMAIN ranks : ranks[c] # 0}) + 1) % RankValues

SetBallot(v, ranks) ==
  /\ ~tallyStarted
  /\ ValidBallot(ranks)
  /\ defaultRank' = [defaultRank EXCEPT ![v] = LastTier(ranks)]
  /\ ledger' = RegisterVoter(ledger, v)
  /\ ballot' = [ballot EXCEPT ![v] = ranks]
  /\ UNCHANGED <<costs, tallyVars>>

-----------------------------------------------------------------------------
(* The tally.  `ballots` gives the ranks a step reads: the stored ones, or *)
(* the payloads a caller presents when ballots are kept outside the pool.  *)

NothingFits(remaining, done) == \A c \in Projects \ done : costs[c] > remaining

IsExhausted == NothingFits(budget - spent, funded)

StartTally ==
  /\ ~tallyStarted
  /\ costs # << >>
  /\ tallyStarted' = TRUE
  /\ budget' = ledger.total
  /\ rankLevel' = 1
  /\ tallyDone' = NothingFits(ledger.total - spent, funded)
  /\ UNCHANGED <<costs, ledger, ballotVars, spent, funded, fundedOrder>>

EffectiveRank(ballots, v, c) ==
  IF ballots[v][c] = 0 THEN defaultRank[v] ELSE ballots[v][c]

BugApprovesRankedOnly(ballots, v, c) ==
  /\ ledger.weight[v] # 0
  /\ ballots[v] # << >>
  /\ ballots[v][c] \in 1 .. rankLevel

Approves(ballots, v, c) ==
  /\ ledger.weight[v] # 0
  /\ ballots[v] # << >>
  /\ EffectiveRank(ballots, v, c) <= rankLevel

\* What each voter of the roster, in order, adds to the support of c.
Backing(ballots, c) ==
  [i \in 1 .. Len(ledger.voters) |->
     IF Approves(ballots, ledger.voters[i], c)
     THEN ledger.weight[ledger.voters[i]] ELSE 0]

Support(ballots, c) == Sum(Backing(ballots, c), Len(ledger.voters))

BugEligibleNearly(ballots) ==
  {c \in Projects \ funded : Support(ballots, c) > 0 /\ Support(ballots, c) + 1 >= costs[c]}

Eligible(ballots) == {c \in Projects \ funded : Support(ballots, c) >= costs[c]}

\* Highest support, then lowest cost, then lowest id.
Preferred(support, c, d) ==
  \/ support[c] > support[d]
  \/ /\ support[c] = support[d]
     /\ costs[c] < costs[d] \/ (costs[c] = costs[d] /\ c <= d)

Best(ballots) ==
  LET support  == [c \in Projects |-> Support(ballots, c)]
      eligible == Eligible(ballots)
  IN  CHOOSE c \in eligible : \A d \in eligible : Preferred(support, c, d)

BugFirstPay(cum, cost, total) == IF cum < cost THEN cum ELSE cost

\* The share of a cost that falls on the first `cum` units of support.
Share(cum, cost, total) == (cum * cost) \div total

BugRoundAlone(ballots, c) ==
  LET n == Len(ledger.voters)
  IN  [i \in 1 .. n |-> Share(Backing(ballots, c)[i], costs[c], Support(ballots, c))]

\* What each voter of the roster pays for c: rounded cumulatively in order.
Deductions(ballots, c) ==
  LET n   == Len(ledger.voters)
      cum == PrefixSum(Backing(ballots, c), n)
  IN  [i \in 1 .. n |-> Share(cum[i], costs[c], cum[n]) - Share(cum[i - 1], costs[c], cum[n])]

Charge(L, deductions) ==
  [L EXCEPT !.weight =
     [v \in Voter |->
        IF IsVoter(L, v)
        THEN @[v] - deductions[CHOOSE i \in DOMAIN L.voters : L.voters[i] = v]
        ELSE @[v]]]

FundBest(ballots) ==
  /\ tallyStarted /\ ~tallyDone
  /\ Eligible(ballots) # {}
  /\ LET best == Best(ballots)
     IN  /\ ledger' = Charge(ledger, Deductions(ballots, best))
         /\ funded' = funded \cup {best}
         /\ fundedOrder' = Append(fundedOrder, best)
         /\ spent' = spent + costs[best]
         /\ tallyDone' = NothingFits(budget - spent', funded')
  /\ UNCHANGED <<costs, ballotVars, budget, rankLevel, tallyStarted>>

RaiseLevel(ballots) ==
  /\ tallyStarted /\ ~tallyDone
  /\ Eligible(ballots) = {}
  /\ rankLevel < Len(costs)
  /\ rankLevel' = rankLevel + 1
  /\ UNCHANGED <<costs, ledger, ballotVars, budget, spent, funded, fundedOrder,
                 tallyStarted, tallyDone>>

FinishUnsupported(ballots) ==
  /\ tallyStarted /\ ~tallyDone
  /\ Eligible(ballots) = {}
  /\ rankLevel >= Len(costs)
  /\ tallyDone' = TRUE
  /\ UNCHANGED <<costs, ledger, ballotVars, budget, rankLevel, spent, funded,
                 fundedOrder, tallyStarted>>

\* One iteration.  run(maxSteps) is a row of these in one transaction.
Step(ballots) ==
  \/ FundBest(ballots)
  \/ RaiseLevel(ballots)
  \/ FinishUnsupported(ballots)

-----------------------------------------------------------------------------
(* What the tally relies on.                                               *)

RosterWeights(L) == [i \in 1 .. Len(L.voters) |-> L.weight[L.voters[i]]]
RosterWeight(L)  == Sum(RosterWeights(L), Len(L.voters))

Ledgers == [voters: Seq(Voter), weight: [Voter -> Nat], granted: Nat, total: Nat]

\* registerVoter keeps each address on the roster once.
RosterOK(L) == \A i, j \in 1 .. Len(L.voters) : L.voters[i] = L.voters[j] => i = j

\* What a pool hands over: no weight off the roster, what was granted is on
\* the roster, and no more was granted than was ever deposited.
LedgerOK(L) ==
  /\ L \in Ledgers
  /\ RosterOK(L)
  /\ \A v \in Voter : ~IsVoter(L, v) => L.weight[v] = 0
  /\ L.granted = RosterWeight(L)
  /\ L.granted <= L.total

\* Every ballot ranks the projects of this round, its voter is on the roster,
\* and the last tier stored next to it is its own.
BallotsOK(ballots) ==
  \A v \in Voter : ballots[v] # << >> =>
    ValidBallot(ballots[v]) /\ IsVoter(ledger, v) /\ defaultRank[v] = LastTier(ballots[v])
=============================================================================
