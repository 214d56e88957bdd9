------------------------------ MODULE SealedPool ------------------------------
(***************************************************************************)
(* A pool whose tally runs elsewhere, src/src/SealedPool.sol.  Money given *)
(* directly votes with a public ballot, sponsored seats with an encrypted  *)
(* one.  After the deadline anyone walks the roster in chunks and the pool *)
(* commits to every input; it then accepts one result for that commitment, *)
(* or none at all once the grace period is over.                           *)
(*                                                                         *)
(* SealedPool is an abstract contract: how a result arrives is left to     *)
(* CreRankedShares and ZiskRankedShares, whose modules extend this one and *)
(* add what is in flight.  Actions here leave their variables alone.       *)
(*                                                                         *)
(* keccak256 is collision-free, so the chain and the commitment hold what  *)
(* they hash.  A ciphertext is a sequence: an ephemeral point, one entry   *)
(* instead of 33 bytes, then one masked rank per project.                  *)
(* Operators named Bug... are mistakes, not code: see PBEAR.               *)
(***************************************************************************)
EXTENDS PoolBase, ArkivBallots, PrefixSums

CONSTANTS
  Voter,            \* the addresses that may hold weight or vote
  MaxWeight,        \* MAX_WEIGHT, 2^64 - 1 in the code
  MinDirectVote,    \* minDirectVote
  Costs, Amounts, Fees,
  PublicInputs,     \* public ballots a user may send, well-formed or not
  SealedInputs,     \* ciphertexts a user may send, of any length
  MemberLists,      \* member lists a sponsor may send
  SeatCounts,       \* seat counts a sponsor may send; 0 asks the collection
  Orders,           \* funded lists a result may carry, valid or not
  MaxProjects,      \* bound on projects (MAX_PROJECTS is 31)
  MaxDeposits,      \* bound on deposits and gifts
  MaxRevision       \* bound on ballot revisions

ASSUME SealedInputsAssumption ==
  /\ MaxWeight \in Nat /\ MinDirectVote \in 0 .. MaxWeight
  /\ Costs \subseteq Nat /\ Amounts \subseteq Nat /\ Fees \subseteq Nat
  /\ SeatCounts \subseteq Nat
  /\ MemberLists \subseteq Seq(Voter) \ {<< >>}
  /\ PublicInputs \subseteq Seq(Nat) /\ SealedInputs \subseteq Seq(Nat)
  /\ Orders \subseteq Seq(Nat)
  /\ MaxProjects \in 1 .. 31

VARIABLES
  costs,         \* _costs
  ledger,        \* voters, directWeight, seatWeight, totalSeatWeight, totalWeight
  directBallot,  \* _directBallot
  sealedBallot,  \* _sealed
  sealedRefs,    \* _sealedRefs of ArkivBallots
  finality,
  closed,
  closeCursor,
  voterChain,
  inputsHash,
  funded,        \* funded: the set of projects it maps to true
  fundedOrder,   \* _fundedOrder
  spent,
  pastGrace,     \* block.timestamp >= votingDeadline + abandonGrace
  deposits       \* history: how many deposits and gifts were made (bounded)

ballotVars == <<directBallot, sealedBallot, arkivVars, sealedRefs>>
closeVars  == <<closed, closeCursor, voterChain, inputsHash>>
resultVars == <<finality, funded, fundedOrder, spent>>
tallyVars  == <<closeVars, resultVars>>
sealedVars == <<costs, ledger, ballotVars, tallyVars, pastGrace, deposits, poolVars>>

SealedArkiv == INSTANCE ArkivBallots WITH publicRefs <- sealedRefs

NoInputs == << >>

phase == CASE finality # "None" -> "Done"
           [] finality = "None" /\ closed -> "Tally"
           [] finality = "None" /\ ~closed /\ votingOpen /\ pastDeadline -> "Closing"
           [] finality = "None" /\ ~closed /\ votingOpen /\ ~pastDeadline -> "Open"
           [] OTHER -> "Setup"

SealedInit ==
  /\ costs = << >>
  /\ ledger = [voters |-> << >>, direct |-> [v \in Voter |-> 0],
               seat |-> [v \in Voter |-> 0], totalSeat |-> 0, total |-> 0]
  /\ directBallot = [v \in Voter |-> << >>]
  /\ sealedBallot = [v \in Voter |-> << >>]
  /\ arkivBallots = FALSE
  /\ publicRefs = [v \in Voter |-> NoRef]
  /\ sealedRefs = [v \in Voter |-> NoRef]
  /\ finality = "None"
  /\ closed = FALSE /\ closeCursor = 0 /\ voterChain = << >> /\ inputsHash = NoInputs
  /\ funded = {} /\ fundedOrder = << >> /\ spent = 0
  /\ votingOpen = FALSE /\ pastDeadline = FALSE /\ pastGrace = FALSE
  /\ balance = 0
  /\ sponsorships = << >> /\ seatHolder = << >>
  /\ nftOwner \in [TokenId -> Voter \ {NoHolder}]
  /\ claimed = {} /\ claimedTotal = 0
  /\ contributed = [v \in Voter |-> 0]
  /\ deposits = 0

-----------------------------------------------------------------------------
(* The ledger: what the hooks of PoolBase do to it.                        *)

Register(L, v) ==
  IF \E i \in DOMAIN L.voters : L.voters[i] = v THEN L
  ELSE [L EXCEPT !.voters = Append(@, v)]

WithinCap(L, amount) == L.total + amount <= MaxWeight

AddBudget(L, amount) == [L EXCEPT !.total = @ + amount]

OnContribution(L, who, amount) == Register([L EXCEPT !.direct[who] = @ + amount], who)

OnSeatGranted(L, who, perSeat) ==
  Register([L EXCEPT !.seat[who] = @ + perSeat, !.totalSeat = @ + perSeat], who)

\* Checked subtraction: the call reverts rather than wrap.
CanRevoke(L, who, perSeat) == L.seat[who] >= perSeat

BugRevokeTotalOnly(L, who, perSeat) == [L EXCEPT !.totalSeat = @ - perSeat]

OnSeatRevoked(L, who, perSeat) ==
  [L EXCEPT !.seat[who] = @ - perSeat, !.totalSeat = @ - perSeat]

-----------------------------------------------------------------------------
(* Setup and deposits.  How proposals become projects, and what must be    *)
(* published before the vote opens, is module ProposalReview.              *)

CreateProject(cost) ==
  /\ phase = "Setup"
  /\ Len(costs) < MaxProjects
  /\ cost \in 1 .. MaxWeight
  /\ costs' = Append(costs, cost)
  /\ UNCHANGED <<ledger, ballotVars, tallyVars, pastGrace, deposits, poolVars>>

EnableArkivBallots ==
  /\ phase = "Setup" /\ ~pastDeadline
  /\ arkivBallots' = TRUE
  /\ UNCHANGED <<costs, ledger, directBallot, sealedBallot, publicRefs, sealedRefs, tallyVars,
                 pastGrace, deposits, poolVars>>

OpenVoting ==
  /\ phase = "Setup" /\ ~pastDeadline
  /\ costs # << >>
  /\ votingOpen' = TRUE
  /\ UNCHANGED <<costs, ledger, ballotVars, tallyVars, pastGrace, deposits, pastDeadline,
                 balance, seatVars, payVars, contributed>>

\* What every deposit does, short of the ledger.
AcceptDeposit(amount, fee) ==
  /\ phase = "Open"
  /\ deposits < MaxDeposits
  /\ deposits' = deposits + 1
  /\ Deposit(amount, fee)
  /\ WithinCap(ledger, amount)

Contribute(who, amount, fee) ==
  /\ AcceptDeposit(amount, fee)
  /\ ledger' = OnContribution(AddBudget(ledger, amount), who, amount)
  /\ contributed' = [contributed EXCEPT ![who] = @ + amount]
  /\ UNCHANGED <<costs, ballotVars, tallyVars, pastGrace, votingOpen, pastDeadline, seatVars,
                 payVars>>

\* The loop of sponsor().
GrantSeats(L, members, perSeat) ==
  LET granted[i \in 0 .. Len(members)] ==
        IF i = 0 THEN L ELSE OnSeatGranted(granted[i - 1], members[i], perSeat)
  IN  granted[Len(members)]

Sponsor(amount, fee, members) ==
  LET s == NewSponsorship(amount, Len(members), FALSE, members)
  IN  /\ AcceptDeposit(amount, fee)
      /\ PushSponsorship(s)
      /\ ledger' = GrantSeats(AddBudget(ledger, amount), members, s.perSeat)
      /\ UNCHANGED <<costs, ballotVars, tallyVars, pastGrace, votingOpen, pastDeadline, payVars,
                     contributed>>

SponsorNFT(amount, fee, seats) ==
  /\ AcceptDeposit(amount, fee)
  /\ SeatsFor(seats) # 0
  /\ PushSponsorship(NewSponsorship(amount, SeatsFor(seats), TRUE, << >>))
  /\ ledger' = AddBudget(ledger, amount)
  /\ UNCHANGED <<costs, ballotVars, tallyVars, pastGrace, votingOpen, pastDeadline, payVars,
                 contributed>>

ClaimSeat(who, id, t) ==
  LET previous == seatHolder[id][t]
      perSeat  == sponsorships[id].perSeat
  IN  /\ phase = "Open"
      /\ TakeSeat(who, id, t)
      /\ previous # NoHolder => CanRevoke(ledger, previous, perSeat)
      /\ ledger' = OnSeatGranted(IF previous = NoHolder THEN ledger
                                 ELSE OnSeatRevoked(ledger, previous, perSeat), who, perSeat)
      /\ UNCHANGED <<costs, ballotVars, tallyVars, pastGrace, deposits, votingOpen, pastDeadline,
                     balance, payVars, contributed>>

-----------------------------------------------------------------------------
(* Ballots.                                                                *)

\* A competition ranking: a ranked project stands after exactly those ahead of it.
ValidRanks(ranks) ==
  /\ Len(ranks) = Len(costs)
  /\ \A c \in DOMAIN ranks :
       /\ ranks[c] <= Len(costs)
       /\ ranks[c] > 0 =>
            ranks[c] = 1 + Cardinality({d \in DOMAIN ranks : 0 < ranks[d] /\ ranks[d] < ranks[c]})

BugUnbacked(L, who) == TRUE

\* A public ballot needs the caller's own money behind it.
Backed(L, who) == L.direct[who] > 0 /\ L.direct[who] >= MinDirectVote

Vote(who, ranks) ==
  /\ phase = "Open" /\ ~pastDeadline
  /\ ~arkivBallots
  /\ directBallot[who] = << >>
  /\ Backed(ledger, who)
  /\ ValidRanks(ranks)
  /\ directBallot' = [directBallot EXCEPT ![who] = ranks]
  /\ ledger' = Register(ledger, who)
  /\ UNCHANGED <<costs, sealedBallot, arkivVars, sealedRefs, tallyVars, pastGrace, deposits,
                 poolVars>>

RightLength(ciphertext) == Len(ciphertext) = 1 + Len(costs)

CanVoteSealed(who) == ledger.seat[who] > 0

\* voteSealed for a caller who may; LPCreRankedShares lets in others, too.
CastSealed(who, ciphertext) ==
  /\ phase = "Open" /\ ~pastDeadline
  /\ ~arkivBallots
  /\ RightLength(ciphertext)
  /\ sealedBallot' = [sealedBallot EXCEPT ![who] = ciphertext]
  /\ ledger' = Register(ledger, who)
  /\ UNCHANGED <<costs, directBallot, arkivVars, sealedRefs, tallyVars, pastGrace, deposits,
                 poolVars>>

VoteSealed(who, ciphertext) == CanVoteSealed(who) /\ CastSealed(who, ciphertext)

\* What voteArkiv does to a ledger `L` that a deposit may just have changed.
AcceptPublicArkiv(L, who, ranks, expectedRevision) ==
  /\ phase = "Open" /\ ~pastDeadline
  /\ expectedRevision < MaxRevision
  /\ publicRefs[who].revision = 0
  /\ Backed(L, who)
  /\ ValidRanks(ranks)
  /\ StoreBallot(who, ranks, expectedRevision)
  /\ ledger' = Register(L, who)
  /\ UNCHANGED <<costs, directBallot, sealedBallot, sealedRefs, tallyVars, pastGrace>>

\* voteArkiv, and castBallot with amount 0.
VoteArkiv(who, ranks, expectedRevision) ==
  /\ AcceptPublicArkiv(ledger, who, ranks, expectedRevision)
  /\ UNCHANGED <<deposits, poolVars>>

\* voteSealedArkiv, and castBallot of a sealed ballot, which must carry no money.
CastSealedArkiv(who, ciphertext, expectedRevision) ==
  /\ phase = "Open" /\ ~pastDeadline
  /\ expectedRevision < MaxRevision
  /\ RightLength(ciphertext)
  /\ SealedArkiv!StoreBallot(who, ciphertext, expectedRevision)
  /\ ledger' = Register(ledger, who)
  /\ UNCHANGED <<costs, directBallot, sealedBallot, publicRefs, tallyVars, pastGrace, deposits,
                 poolVars>>

VoteSealedArkiv(who, ciphertext, expectedRevision) ==
  CanVoteSealed(who) /\ CastSealedArkiv(who, ciphertext, expectedRevision)

\* Deposit and public ballot in one transaction.
CastBallot(who, amount, fee, ranks, expectedRevision) ==
  /\ AcceptDeposit(amount, fee)
  /\ contributed' = [contributed EXCEPT ![who] = @ + amount]
  /\ AcceptPublicArkiv(OnContribution(AddBudget(ledger, amount), who, amount), who, ranks,
                       expectedRevision)
  /\ UNCHANGED <<votingOpen, pastDeadline, seatVars, payVars>>

-----------------------------------------------------------------------------
(* Closing.                                                                *)

Entry(v, public, sealed) ==
  [voter |-> v, direct |-> ledger.direct[v], seat |-> ledger.seat[v],
   public |-> public, sealed |-> sealed]

Commitment(chain) ==
  [chain |-> chain, n |-> Len(ledger.voters), costs |-> costs, total |-> ledger.total]

BugRestartChain(entries) ==
  /\ closeCursor = 0 => BalanceCovers(ledger.total)
  /\ closeCursor' = closeCursor + Len(entries)
  /\ voterChain' = entries
  /\ closed' = (closeCursor' = Len(ledger.voters))
  /\ inputsHash' = IF closed' THEN Commitment(voterChain') ELSE inputsHash

\* Append the entries of the next voters; the last ones close the pool.
CloseResolved(entries) ==
  /\ closeCursor = 0 => BalanceCovers(ledger.total)
  /\ closeCursor' = closeCursor + Len(entries)
  /\ voterChain' = voterChain \o entries
  /\ closed' = (closeCursor' = Len(ledger.voters))
  /\ inputsHash' = IF closed' THEN Commitment(voterChain') ELSE inputsHash

Remaining == Len(ledger.voters) - closeCursor

NextVoter(i) == ledger.voters[closeCursor + i]

Close(maxVoters) ==
  /\ phase = "Closing"
  /\ ~arkivBallots
  /\ CloseResolved([i \in 1 .. IF maxVoters < Remaining THEN maxVoters ELSE Remaining |->
                      Entry(NextVoter(i), directBallot[NextVoter(i)], sealedBallot[NextVoter(i)])])
  /\ UNCHANGED <<costs, ledger, ballotVars, resultVars, pastGrace, deposits, poolVars>>

\* `ballots` are the payloads its caller presents for the next voters.
CloseArkiv(expectedCursor, ballots) ==
  /\ phase = "Closing"
  /\ arkivBallots
  /\ expectedCursor = closeCursor
  /\ Len(ballots) <= Remaining
  /\ \A i \in DOMAIN ballots :
       /\ CheckBallot(NextVoter(i), ballots[i].public)
       /\ SealedArkiv!CheckBallot(NextVoter(i), ballots[i].sealed)
  /\ CloseResolved([i \in DOMAIN ballots |->
                      Entry(NextVoter(i), ballots[i].public, ballots[i].sealed)])
  /\ UNCHANGED <<costs, ledger, ballotVars, resultVars, pastGrace, deposits, poolVars>>

-----------------------------------------------------------------------------
(* The one way a round ends.                                               *)

CostOf(order) == Sum([i \in DOMAIN order |-> costs[order[i]]], Len(order))

BugUnaffordable(order) ==
  /\ \A i \in DOMAIN order : order[i] \in DOMAIN costs
  /\ \A i, j \in DOMAIN order : order[i] = order[j] => i = j

ValidResult(order) ==
  /\ \A i \in DOMAIN order : order[i] \in DOMAIN costs
  /\ \A i, j \in DOMAIN order : order[i] = order[j] => i = j
  /\ CostOf(order) <= ledger.total

Finalize(order, how) ==
  /\ finality = "None"
  /\ ValidResult(order)
  /\ funded' = {order[i] : i \in DOMAIN order}
  /\ fundedOrder' = order
  /\ spent' = CostOf(order)
  /\ finality' = how
  /\ UNCHANGED <<costs, ledger, ballotVars, closeVars, pastGrace, deposits, poolVars>>

BugAbandonClosed ==
  /\ phase = "Tally"
  /\ pastGrace
  /\ Finalize(<< >>, "Abandoned")

Abandon ==
  /\ phase \in {"Tally", "Closing"}
  /\ pastGrace
  /\ Finalize(<< >>, "Abandoned")

-----------------------------------------------------------------------------
(* Payout and the environment.                                             *)

Claim(c) ==
  /\ phase = "Done"
  /\ c \in funded
  /\ PayProject(c, costs[c])
  /\ UNCHANGED <<costs, ledger, ballotVars, tallyVars, pastGrace, deposits, votingOpen,
                 pastDeadline, seatVars, contributed>>

SweepLeftover ==
  /\ phase = "Done"
  /\ spent >= claimedTotal
  /\ Sweep(spent - claimedTotal)
  /\ UNCHANGED <<costs, ledger, ballotVars, tallyVars, pastGrace, deposits, votingOpen,
                 pastDeadline, seatVars, contributed>>

\* Tokens sent to the pool without a call; bounded together with deposits.
ReceiveGift(amount) ==
  /\ deposits < MaxDeposits
  /\ deposits' = deposits + 1
  /\ Donate(amount)
  /\ UNCHANGED <<costs, ledger, ballotVars, tallyVars, pastGrace>>

MoveNFT(t, to) ==
  /\ TransferNFT(t, to)
  /\ UNCHANGED <<costs, ledger, ballotVars, tallyVars, pastGrace, deposits>>

DeadlineComes ==
  /\ DeadlinePasses
  /\ UNCHANGED <<costs, ledger, ballotVars, tallyVars, pastGrace, deposits>>

\* abandonGrace is not 0: the grace ends after the deadline.
GraceEnds ==
  /\ pastDeadline /\ ~pastGrace
  /\ pastGrace' = TRUE
  /\ UNCHANGED <<costs, ledger, ballotVars, tallyVars, deposits, poolVars>>

-----------------------------------------------------------------------------

Payload == [public: PublicInputs \cup {<< >>}, sealed: SealedInputs \cup {<< >>}]

DepositSteps ==
  \/ \E who \in Voter, amount \in Amounts, fee \in Fees : Contribute(who, amount, fee)
  \/ \E amount \in Amounts, fee \in Fees, members \in MemberLists : Sponsor(amount, fee, members)
  \/ \E amount \in Amounts, fee \in Fees, seats \in SeatCounts : SponsorNFT(amount, fee, seats)
  \/ \E who \in Voter, amount \in Amounts, fee \in Fees, ranks \in PublicInputs,
        revision \in 0 .. MaxRevision : CastBallot(who, amount, fee, ranks, revision)

PublicSteps ==
  \/ \E who \in Voter, ranks \in PublicInputs : Vote(who, ranks)
  \/ \E who \in Voter, ranks \in PublicInputs, revision \in 0 .. MaxRevision :
       VoteArkiv(who, ranks, revision)

SealedSteps ==
  \/ \E who \in Voter, ciphertext \in SealedInputs : VoteSealed(who, ciphertext)
  \/ \E who \in Voter, ciphertext \in SealedInputs, revision \in 0 .. MaxRevision :
       VoteSealedArkiv(who, ciphertext, revision)

CloseSteps ==
  \/ \E maxVoters \in 0 .. Cardinality(Voter) : Close(maxVoters)
  \/ \E cursor \in 0 .. Cardinality(Voter), n \in 0 .. Cardinality(Voter) :
       \E ballots \in [1 .. n -> Payload] : CloseArkiv(cursor, ballots)

\* Everything but sealed ballots, closing and the passing of the deadline,
\* which LPCreRankedShares changes.
CommonSteps ==
  \/ \E cost \in Costs : CreateProject(cost)
  \/ EnableArkivBallots
  \/ OpenVoting
  \/ DepositSteps
  \/ \E who \in Voter, id \in DOMAIN sponsorships, t \in TokenId : ClaimSeat(who, id, t)
  \/ PublicSteps
  \/ Abandon
  \/ \E c \in DOMAIN costs : Claim(c)
  \/ SweepLeftover
  \/ \E amount \in Amounts : ReceiveGift(amount)
  \/ \E t \in TokenId, to \in Voter : MoveNFT(t, to)
  \/ GraceEnds

SealedNext == CommonSteps \/ SealedSteps \/ CloseSteps \/ DeadlineComes

-----------------------------------------------------------------------------
(* Safety.                                                                 *)

\* What a voter last got accepted, wherever the pool keeps ballots.
PublicBallot(v) == IF arkivBallots THEN publicRefs[v].payload ELSE directBallot[v]
SealedBallot(v) == IF arkivBallots THEN sealedRefs[v].payload ELSE sealedBallot[v]

Roster == [i \in DOMAIN ledger.voters |->
             LET v == ledger.voters[i] IN Entry(v, PublicBallot(v), SealedBallot(v))]

\* However many transactions close takes and whoever sends them, what is hashed
\* so far is the roster as it is now, and the commitment stays what the pool
\* holds until the end: "Chunking never changes the result" (SealedPool.sol:307).
CommittedInputs ==
  /\ voterChain = SubSeq(Roster, 1, closeCursor)
  /\ closed => inputsHash = Commitment(Roster)

\* The weight of the seats an address was given or holds.
EarnedSeats(v) ==
  Sum([id \in 1 .. Len(sponsorships) |-> sponsorships[id].perSeat * SeatsHeld(v, id)],
      Len(sponsorships))

\* Whoever has weight or a ballot is on the roster exactly once, with the weight
\* of the seats it holds after any transfers of the NFTs; and the votes the
\* roster commits to are never worth more than the money behind them, which is
\* what the guest and the workflow assume when they count.
RosterComplete ==
  LET L == ledger
  IN  /\ \A v \in Voter :
           /\ LET places == {i \in DOMAIN L.voters : L.voters[i] = v}
              IN  IF L.direct[v] + L.seat[v] > 0 \/ PublicBallot(v) # << >> \/ SealedBallot(v) # << >>
                  THEN Cardinality(places) = 1 ELSE Cardinality(places) <= 1
           /\ L.seat[v] = EarnedSeats(v)
      /\ Sum([i \in DOMAIN L.voters |-> L.seat[L.voters[i]]], Len(L.voters)) = L.totalSeat
      /\ Sum([i \in DOMAIN L.voters |-> L.direct[L.voters[i]]], Len(L.voters)) + L.totalSeat <= L.total

\* A public ballot that will be counted has at least minDirectVote of its
\* voter's own money behind it, and every counted ballot fits this round's
\* projects, on each of the paths that accept one (SealedPool.sol:202-203).
BallotsAreBacked ==
  \A v \in Voter :
    /\ PublicBallot(v) # << >> =>
         /\ contributed[v] > 0 /\ contributed[v] >= MinDirectVote
         /\ Len(PublicBallot(v)) = Len(costs)
    /\ SealedBallot(v) # << >> => Len(SealedBallot(v)) = 1 + Len(costs)

\* The pool keeps what Escrow promises, whatever result it is sent.
Promise == INSTANCE Escrow WITH
  held    <- balance,
  decided <- finality # "None",
  award   <- IF finality # "None"
             THEN [c \in 1 .. Len(costs) |-> IF c \in funded THEN costs[c] ELSE 0] ELSE << >>,
  paid    <- claimed

ImplementsEscrow == Promise!Spec
=============================================================================
