----------------------------- MODULE RankedShares -----------------------------
(***************************************************************************)
(* The public pool, src/src/RankedShares.sol: PoolBase's custody around    *)
(* PBEAR's engine, with ballots in the pool or in Arkiv.  Each action is   *)
(* one transaction (or a move of the environment); a call that reverts     *)
(* changes nothing, so its checks are guards.  run and runArkiv execute    *)
(* several steps in one transaction: here each step is an action, which    *)
(* only adds interleavings.                                                *)
(* Operators named Bug... are mistakes, not code: see PBEAR.               *)
(***************************************************************************)
EXTENDS PBEAR, PoolBase, ArkivBallots

CONSTANTS
  Costs,            \* project costs the owner may enter
  Amounts,          \* amounts a user may deposit or donate
  Fees,             \* what the token may keep of a deposit; {0} for a plain ERC-20
  BallotInputs,     \* ballots a user may send, well-formed or not
  MemberLists,      \* member lists a sponsor may send
  SeatCounts,       \* seat counts a sponsor may send; 0 asks the collection
  MaxProjects,      \* bound on the number of projects
  MaxDeposits,      \* bound on deposits
  MaxDonations,     \* bound on what is donated
  MaxRevision       \* bound on ballot revisions

ASSUME InputsAssumption ==
  /\ Costs \subseteq Nat /\ Amounts \subseteq Nat /\ Fees \subseteq Nat
  /\ SeatCounts \subseteq Nat
  /\ MemberLists \subseteq Seq(Voter) \ {<< >>}
  /\ BallotInputs \subseteq Seq(Nat)

VARIABLES
  deposits,   \* history: how many deposits were made (bounded)
  donated     \* history: what was sent to the pool without a call (bounded)

boundVars == <<deposits, donated>>
vars == <<engineVars, poolVars, arkivVars, boundVars>>

phase == CASE tallyDone -> "Done"
           [] ~tallyDone /\ tallyStarted -> "Tally"
           [] ~tallyDone /\ ~tallyStarted /\ votingOpen -> "Open"
           [] OTHER -> "Setup"

Init ==
  /\ costs = << >>
  /\ ledger = [voters |-> << >>, weight |-> [v \in Voter |-> 0], granted |-> 0, total |-> 0]
  /\ ballot = [v \in Voter |-> << >>]
  /\ defaultRank = [v \in Voter |-> 0]
  /\ budget = 0 /\ rankLevel = 0 /\ spent = 0
  /\ funded = {} /\ fundedOrder = << >>
  /\ tallyStarted = FALSE /\ tallyDone = FALSE
  /\ votingOpen = FALSE /\ pastDeadline = FALSE
  /\ balance = 0
  /\ sponsorships = << >> /\ seatHolder = << >>
  /\ nftOwner \in [TokenId -> Voter \ {NoHolder}]
  /\ claimed = {} /\ claimedTotal = 0
  /\ contributed = [v \in Voter |-> 0]
  /\ arkivBallots = FALSE
  /\ publicRefs = [v \in Voter |-> NoRef]
  /\ deposits = 0 /\ donated = 0

-----------------------------------------------------------------------------
(* Setup.  How proposals become projects is module ProposalReview.         *)

CreateProject(cost) ==
  /\ phase = "Setup"
  /\ Len(costs) < MaxProjects
  /\ AddProject(cost)
  /\ UNCHANGED <<poolVars, arkivVars, boundVars>>

EnableArkivBallots ==
  /\ phase = "Setup" /\ ~pastDeadline
  /\ arkivBallots' = TRUE
  /\ UNCHANGED <<engineVars, poolVars, publicRefs, boundVars>>

OpenVoting ==
  /\ phase = "Setup" /\ ~pastDeadline
  /\ costs # << >>
  /\ votingOpen' = TRUE
  /\ UNCHANGED <<engineVars, pastDeadline, balance, seatVars, payVars, contributed,
                 arkivVars, boundVars>>

-----------------------------------------------------------------------------
(* Deposits and ballots.                                                   *)

CountDeposit ==
  /\ deposits < MaxDeposits
  /\ deposits' = deposits + 1
  /\ UNCHANGED donated

\* The ledger after `who` deposited `amount` and got it all as weight.
WithContribution(who, amount) ==
  GrantWeight(IncreaseTotalWeight(ledger, amount), who, amount)

Contribute(who, amount, fee) ==
  /\ phase = "Open"
  /\ CountDeposit
  /\ Deposit(amount, fee)
  /\ CanGrant(IncreaseTotalWeight(ledger, amount), amount)
  /\ ledger' = WithContribution(who, amount)
  /\ contributed' = [contributed EXCEPT ![who] = @ + amount]
  /\ UNCHANGED <<costs, ballotVars, tallyVars, votingOpen, pastDeadline, seatVars, payVars,
                 arkivVars>>

Vote(who, ranks) ==
  /\ phase = "Open" /\ ~pastDeadline
  /\ ~arkivBallots
  /\ SetBallot(who, ranks)
  /\ UNCHANGED <<poolVars, arkivVars, boundVars>>

\* What voteArkiv and castBallot share: check, keep the last tier, store.
AcceptArkivBallot(who, ranks, expectedRevision) ==
  /\ phase = "Open" /\ ~pastDeadline
  /\ expectedRevision < MaxRevision
  /\ ValidBallot(ranks)
  /\ defaultRank' = [defaultRank EXCEPT ![who] = LastTier(ranks)]
  /\ StoreBallot(who, ranks, expectedRevision)

VoteArkiv(who, ranks, expectedRevision) ==
  /\ AcceptArkivBallot(who, ranks, expectedRevision)
  /\ ledger' = RegisterVoter(ledger, who)
  /\ UNCHANGED <<costs, ballot, tallyVars, poolVars, boundVars>>

\* Deposit and ballot in one transaction; a refused ballot refuses the
\* deposit.  This pool has no sealed ballots, and with amount 0 castBallot is
\* VoteArkiv.
CastBallot(who, amount, fee, ranks, expectedRevision) ==
  /\ CountDeposit
  /\ Deposit(amount, fee)
  /\ CanGrant(IncreaseTotalWeight(ledger, amount), amount)
  /\ contributed' = [contributed EXCEPT ![who] = @ + amount]
  /\ AcceptArkivBallot(who, ranks, expectedRevision)
  /\ ledger' = RegisterVoter(WithContribution(who, amount), who)
  /\ UNCHANGED <<costs, ballot, tallyVars, votingOpen, pastDeadline, seatVars, payVars>>

\* One seat after the other, an address as often as the list names it.
GrantSeats(L, members, perSeat) ==
  LET after[i \in 0 .. Len(members)] ==
        IF i = 0 THEN L ELSE GrantWeight(after[i - 1], members[i], perSeat)
  IN  after[Len(members)]

Sponsor(amount, fee, members) ==
  LET s == NewSponsorship(amount, Len(members), FALSE, members)
      L == IncreaseTotalWeight(ledger, amount)
  IN  /\ phase = "Open"
      /\ CountDeposit
      /\ Deposit(amount, fee)
      /\ PushSponsorship(s)
      /\ CanGrant(L, s.perSeat * Len(members))
      /\ ledger' = GrantSeats(L, members, s.perSeat)
      /\ UNCHANGED <<costs, ballotVars, tallyVars, votingOpen, pastDeadline, payVars,
                     contributed, arkivVars>>

SponsorNFT(amount, fee, seats) ==
  /\ phase = "Open"
  /\ CountDeposit
  /\ SeatsFor(seats) # 0
  /\ Deposit(amount, fee)
  /\ PushSponsorship(NewSponsorship(amount, SeatsFor(seats), TRUE, << >>))
  /\ ledger' = IncreaseTotalWeight(ledger, amount)
  /\ UNCHANGED <<costs, ballotVars, tallyVars, votingOpen, pastDeadline, payVars,
                 contributed, arkivVars>>

BugKeepHolder(id, t) == ledger

\* The ledger once the seat's previous holder gave its share back.
WithoutHolder(id, t) ==
  IF seatHolder[id][t] = NoHolder THEN ledger
  ELSE RevokeWeight(ledger, seatHolder[id][t], sponsorships[id].perSeat)

\* What the engine checks when a seat changes hands.
SeatCanMove(id, t) ==
  /\ seatHolder[id][t] # NoHolder =>
       CanRevoke(ledger, seatHolder[id][t], sponsorships[id].perSeat)
  /\ CanGrant(WithoutHolder(id, t), sponsorships[id].perSeat)

ClaimSeat(who, id, t) ==
  /\ phase = "Open"
  /\ TakeSeat(who, id, t)
  /\ SeatCanMove(id, t)
  /\ ledger' = GrantWeight(WithoutHolder(id, t), who, sponsorships[id].perSeat)
  /\ UNCHANGED <<costs, ballotVars, tallyVars, votingOpen, pastDeadline, balance, payVars,
                 contributed, arkivVars, boundVars>>

-----------------------------------------------------------------------------
(* Tally and payout.                                                       *)

CloseVoting ==
  /\ phase = "Open" /\ pastDeadline
  /\ BalanceCovers(ledger.total)
  /\ StartTally
  /\ UNCHANGED <<poolVars, arkivVars, boundVars>>

StepPublic ==
  /\ ~arkivBallots
  /\ Step(ballot)
  /\ UNCHANGED <<poolVars, arkivVars, boundVars>>

\* One step of runArkiv, with the payloads its caller presents.
StepArkiv(witness) ==
  /\ arkivBallots
  /\ \A i \in DOMAIN ledger.voters : CheckBallot(ledger.voters[i], witness[ledger.voters[i]])
  /\ Step(witness)
  /\ UNCHANGED <<poolVars, arkivVars, boundVars>>

Claim(c) ==
  /\ phase = "Done"
  /\ c \in funded
  /\ PayProject(c, costs[c])
  /\ UNCHANGED <<engineVars, votingOpen, pastDeadline, seatVars, contributed, arkivVars, boundVars>>

SweepLeftover ==
  /\ phase = "Done"
  /\ spent >= claimedTotal
  /\ Sweep(spent - claimedTotal)
  /\ UNCHANGED <<engineVars, votingOpen, pastDeadline, seatVars, contributed, arkivVars, boundVars>>

TimePasses == DeadlinePasses /\ UNCHANGED <<engineVars, arkivVars, boundVars>>

Environment ==
  \/ \E amount \in Amounts :
       /\ donated + amount <= MaxDonations
       /\ Donate(amount)
       /\ donated' = donated + amount
       /\ UNCHANGED <<engineVars, arkivVars, deposits>>
  \/ \E t \in TokenId, to \in Voter :
       /\ TransferNFT(t, to)
       /\ UNCHANGED <<engineVars, arkivVars, boundVars>>
  \/ TimePasses

Witnesses == [Voter -> BallotInputs \cup {<< >>}]

TallySteps == StepPublic \/ \E witness \in Witnesses : StepArkiv(witness)

Next ==
  \/ \E cost \in Costs : CreateProject(cost)
  \/ EnableArkivBallots
  \/ OpenVoting
  \/ \E who \in Voter, amount \in Amounts, fee \in Fees : Contribute(who, amount, fee)
  \/ \E who \in Voter, ranks \in BallotInputs : Vote(who, ranks)
  \/ \E who \in Voter, ranks \in BallotInputs, revision \in 0 .. MaxRevision :
       VoteArkiv(who, ranks, revision)
  \/ \E who \in Voter, amount \in Amounts, fee \in Fees, ranks \in BallotInputs,
        revision \in 0 .. MaxRevision : CastBallot(who, amount, fee, ranks, revision)
  \/ \E amount \in Amounts, fee \in Fees, members \in MemberLists : Sponsor(amount, fee, members)
  \/ \E amount \in Amounts, fee \in Fees, seats \in SeatCounts : SponsorNFT(amount, fee, seats)
  \/ \E who \in Voter, id \in DOMAIN sponsorships, t \in TokenId : ClaimSeat(who, id, t)
  \/ CloseVoting
  \/ TallySteps
  \/ \E c \in Projects : Claim(c)
  \/ SweepLeftover
  \/ Environment

Spec == Init /\ [][Next]_vars

\* Time passes and everything the round needs after the deadline is open to
\* anyone: startTally, step or run, and claim.  With Arkiv somebody must still
\* have the payloads.  No user is assumed to deposit or vote.
Fairness ==
  /\ WF_vars(TimePasses)
  /\ WF_vars(CloseVoting)
  /\ WF_vars(TallySteps)
  /\ WF_vars(\E c \in Projects : Claim(c))

FairSpec == Spec /\ Fairness

-----------------------------------------------------------------------------
(* Safety.                                                                 *)

\* An address's weight is the sum of its own contributions and its seats
\* (README.md:30-33), through any order of deposits, claims and transfers of
\* the NFTs: a seat that changed hands is counted for its last claimant only.
WeightIsEarned ==
  ~tallyStarted =>
    \A v \in Voter :
      ledger.weight[v] =
        contributed[v] + Sum([id \in 1 .. Len(sponsorships) |->
                                sponsorships[id].perSeat * SeatsHeld(v, id)],
                             Len(sponsorships))

Payloads == [v \in Voter |-> publicRefs[v].payload]

\* Whatever was called before, the tally finds a ledger that adds up and only
\* ballots that rank exactly this round's projects: what Tally assumes.
ReadyForTally ==
  ~tallyStarted => LedgerOK(ledger) /\ BallotsOK(ballot) /\ BallotsOK(Payloads)

-----------------------------------------------------------------------------
(* Steps.                                                                  *)

\* From the deadline on nobody can change what the tally counts: projects,
\* roster, ballots, budget and grants stay as they are, and an address's weight
\* moves only down and only in a step that funds a project.  A seat that was
\* sold cannot take its weight to another voter any more.
TallyInputsFrozen ==
  [][(votingOpen /\ pastDeadline) =>
       /\ UNCHANGED <<costs, ballotVars, publicRefs, ledger.voters, ledger.granted, ledger.total>>
       /\ fundedOrder' = fundedOrder => UNCHANGED ledger.weight
       /\ \A v \in Voter : ledger'.weight[v] <= ledger.weight[v]]_vars

\* Whoever runs the tally and whatever payloads they bring, each of its steps
\* is the one the accepted ballots make: which project is funded and who pays
\* what for it, that a level is raised, and that the tally ends
\* (ArkivBallots.sol:57-64).
AcceptedBallotsDecide ==
  [][phase = "Tally" =>
       \/ Step(IF arkivBallots THEN Payloads ELSE ballot)
       \/ UNCHANGED engineVars]_vars

\* The pool keeps what Escrow promises.
Promise == INSTANCE Escrow WITH
  held    <- balance,
  decided <- tallyDone,
  award   <- IF tallyDone
             THEN [c \in 1 .. Len(costs) |-> IF c \in funded THEN costs[c] ELSE 0] ELSE << >>,
  paid    <- claimed

ImplementsEscrow == Promise!Spec

-----------------------------------------------------------------------------
(* Progress.                                                               *)

\* A round that opened is decided, unless the token kept so much of what was
\* deposited that the pool does not hold its budget at the deadline.
RoundEnds == votingOpen ~> (tallyDone \/ (pastDeadline /\ balance < ledger.total))

\* Every funded project gets its money, whatever the owner sweeps in between.
FundedGetPaid == \A c \in 1 .. MaxProjects : (tallyDone /\ c \in funded) ~> (c \in claimed)
=============================================================================
