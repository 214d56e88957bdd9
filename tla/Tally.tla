-------------------------------- MODULE Tally --------------------------------
(***************************************************************************)
(* The tally of one round: from the ledger and the ballots a pool has      *)
(* collected, through startTally and step, to the funded projects.         *)
(* Nobody can interfere: every other engine function is beforeTally.       *)
(***************************************************************************)
EXTENDS PBEAR

VARIABLE initial   \* history: what each voter's weight was when the tally started

tallySpecVars == <<engineVars, initial>>

TallyInit ==
  /\ costs \in Seq(Nat \ {0}) /\ costs # << >> /\ Len(costs) <= MAX_PROJECTS
  /\ LedgerOK(ledger)
  /\ ballot \in [Voter -> Seq(Nat)]
  /\ defaultRank \in [Voter -> Nat]
  /\ BallotsOK(ballot)
  /\ budget = 0 /\ rankLevel = 0 /\ spent = 0
  /\ funded = {} /\ fundedOrder = << >>
  /\ tallyStarted = FALSE /\ tallyDone = FALSE
  /\ initial = ledger.weight

TallyNext == (StartTally \/ Step(ballot)) /\ UNCHANGED initial

TallySpec == TallyInit /\ [][TallyNext]_tallySpecVars

-----------------------------------------------------------------------------
(* Safety.                                                                 *)

TypeOK ==
  /\ costs \in Seq(Nat \ {0}) /\ costs # << >>
  /\ ledger \in Ledgers
  /\ ballot \in [Voter -> Seq(Nat)]
  /\ defaultRank \in [Voter -> Nat]
  /\ budget \in Nat /\ rankLevel \in Nat /\ spent \in Nat
  /\ funded \subseteq Projects
  /\ fundedOrder \in Seq(Projects)
  /\ tallyStarted \in BOOLEAN /\ tallyDone \in BOOLEAN
  /\ initial \in [Voter -> Nat]

\* No unit of weight is created or lost by the rounded deductions: what is
\* left on the roster and what was spent are exactly what was granted.
\* (PBEAR.sol:185-207; the remaining-weight test checks it on two voters.)
Conservation == RosterWeight(ledger) + spent = ledger.granted

\* An eligible project always fits, as PBEAR.sol:159 claims: the tally never
\* spends more than the budget, which is why payouts can never fall short.
SpentWithinBudget == tallyStarted => spent <= budget

HasBallot(v) == ballot[v] # << >>

WeightWithoutBallot ==
  Sum([i \in 1 .. Len(ledger.voters) |->
         IF HasBallot(ledger.voters[i]) THEN 0 ELSE ledger.weight[ledger.voters[i]]],
      Len(ledger.voters))

-----------------------------------------------------------------------------
(* Proportional representation: Inclusion PSC, the axiom the algorithm is  *)
(* chosen for (README.md:17), which the fuzz tests brute-force in Python   *)
(* (reference/pbear.py:255).                                               *)

RankOf(v, c) == EffectiveRank(ballot, v, c)

Solid(N, C) == \A v \in N, c \in C, d \in Projects \ C : RankOf(v, c) <= RankOf(v, d)

Periphery(N, k) == {c \in Projects : \E v \in N : RankOf(v, c) <= k}

CostOf(C) == Sum([c \in 1 .. Len(costs) |-> IF c \in C THEN costs[c] ELSE 0], Len(costs))

MoneyOf(N) ==
  Sum([i \in 1 .. Len(ledger.voters) |->
         IF ledger.voters[i] \in N THEN initial[ledger.voters[i]] ELSE 0],
      Len(ledger.voters))

\* A coalition N that puts the projects C above all others cannot be left
\* with a project of C unfunded that its own money would still have paid for,
\* next to everything funded that some member ranks among its first |C|.
InclusionPSC ==
  tallyDone =>
    \A N \in SUBSET {v \in Voter : HasBallot(v) /\ initial[v] # 0} :
      \A C \in SUBSET Projects :
        N # {} /\ Solid(N, C) =>
          \A c \in C \ funded :
            costs[c] + CostOf(Periphery(N, Cardinality(C)) \cap funded) > MoneyOf(N)

-----------------------------------------------------------------------------
(* Steps.                                                                  *)

\* Funding c charges nobody but its supporters, and each supporter less than
\* one unit away from its exact share weight * cost / support
\* (PBEAR.sol:185-203, README.md:145-148).
ProportionalCharge ==
  [][\A c \in funded' \ funded, v \in Voter :
       LET paid  == ledger.weight[v] - ledger'.weight[v]
           exact == ledger.weight[v] * costs[c]
           total == Support(ballot, c)
       IN  IF Approves(ballot, v, c)
           THEN exact - total < paid * total /\ paid * total < exact + total
           ELSE paid = 0]_tallySpecVars

\* What README.md:151-153 and the comment at PBEAR.sol:175 say of a tally that ends
\* although something still fits: that only abstaining weight is left.
OnlyAbstainingLeft ==
  tallyDone /\ ~IsExhausted => RosterWeight(ledger) = WeightWithoutBallot
=============================================================================
