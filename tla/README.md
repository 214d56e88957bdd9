# Ranked Shares in TLA+

Ranked Shares runs participatory-budgeting rounds on a blockchain. People and
organisations deposit tokens into a pool, every deposited token is a unit of
voting weight, each address casts one ranked ballot, and after the deadline the
PB Expanding Approvals rule (PB-EAR) decides which projects the pool pays for.
This directory models the program in TLA+, checks the models with TLC and
proves with TLAPS what matters most about the tally, the pools, sponsored
liquidity, the Noir proof chain, the worker and the cache beside the pools, and
the web client's proposals and votes. Paths in the modules and in this file are
relative to the repository.

## The system

| Part | State it keeps | Operations | Talks to |
|---|---|---|---|
| PB-EAR engine, `src/PBEAR.sol` | costs, roster, weights, ballots, last tiers, level, spent, funded | `_addProject`, `_grantWeight`, `_revokeWeight`, `_setBallot`, `_startTally`, `step`, `run` | inherited by the public pool |
| Its ports, `shared/pbear.ts`, `reference/pbear.py`, `zisk/crates`, `cre/src/lib/commitments.ts` | none | the same rule, a transcript of it, its audit, its proofs | workflows, prover, browser |
| Pool custody, `src/PoolBase.sol` | token balance, sponsorships, seat holders, proposals, claims | `contribute`, `castBallot`, `sponsor`, `sponsorNFT`, `claimSeat`, `claim`, `sweep`, `openVoting`, proposals | ERC-20, ERC-721, its concrete pool through hooks |
| Public pool, `src/RankedShares.sol` | none of its own | `vote`, `voteArkiv`, `startTally`, `runArkiv` | engine, custody, Arkiv references |
| Arkiv references, `src/ArkivBallots.sol` | hash and revision of each accepted payload | `_storeBallot`, `_checkBallot` | payloads live in Arkiv, callers bring them back |
| Proposal privacy, `src/ProposalPrivacy.sol` | organizer key, key commitments, acceptance list, published keys | `setOrganizerKey`, `record`, `accept`, `openVoting` | called by and calling the pool |
| Sealed pools, `src/SealedPool.sol`, `src/cre`, `src/zisk` | direct and seat weights, sealed ballots, input chain, result | `voteSealed`, `close`, `onReport`, `finalize`, `abandon` | CRE forwarder or ZisK verifier |
| LP voting, `src/uniswap` | campaigns, positions, accruals, allocations | subscriber callbacks, price reports, `finalizeLP` | Uniswap's position manager, a CRE pool and its workflow |
| Noir pool, `src/noir/NoirRankedShares.sol` | checkpoints, proof state, provisional result | `close`, `onReport`, `advance`, `acceptProvisional`, `abandon` | verifiers, coordinator |
| Prover, `prover/src` | what a run read; the service's job maps | prove, submit, resume, restart | Noir pool |
| CRE workflows, `cre/src` | nothing between runs | read the pool, report prices, close or result | sealed pools, Arkiv |
| Ballot storage, `cre/scripts/sync-ballots.ts` | a journal file | copy accepted ballots to Arkiv | pools, an Arkiv node |
| Web client, `web/app` | what a user has open, a publication, the draft of a vote | propose, review, publish, cast | snapshots, wallet, pools |
| Web API, `web/api` | snapshot and content caches | cached reads | chain, Swarm |

What makes it hard:

* **Many owners of one ledger.** Contributions, list sponsorships, NFT seats and
  liquidity all write the same weights, seats move when NFTs are sold, positions
  earn while they change hands, and the tally then trusts the sum.
* **Integer arithmetic over many steps.** Every funding step splits a cost among
  its supporters with truncating divisions, and every implementation has to
  split it alike.
* **Calls in any order.** Claims, sweeps, donations, deposits and ballots are
  transactions of different people around a deadline.
* **Stale reads.** A web client, a workflow or a prover reads at one block, and
  what it sends executes after somebody else's transaction.
* **Data brought back by strangers.** Arkiv payloads, proofs and reports are
  supplied by whoever calls.
* **Processes that stop half-way.** A tab is closed, a worker crashes, a job
  overruns its time, a call has its effect although its answer is lost.
* **Deadlines and graces.** Late answers race with the calls that give up on
  them, and a round has to end whoever stays away.

`PROJECT.json` lists every part, also those that are not modelled, and the
hazards with the lines where they bite.

## The modules

### The tally

`PBEAR` is the engine, one operator or action per internal function. `_voters`,
`_weight`, `_grantedWeight` and `totalWeight` form the record `ledger`, and
granting and revoking are functions from ledger to ledger, because a sponsorship
or a seat transfer applies several in one transaction. `Step` is one iteration
of `_step`: `FundBest`, `RaiseLevel` or `FinishUnsupported`. `run(n)` and
`runArkiv(n, ...)` execute several iterations in a transaction; here each is an
action of its own, which adds interleavings and removes none. The rank values
are a parameter (`RankValues`, 256 in the code) so that the wrap-around of a
`uint8` is within reach of TLC. Loops `cum += w` over the roster are the
recursive function `PrefixSum` of `PrefixSums`.

`Tally` is the life of the engine after the pool handed over: any ledger and any
ballots that satisfy `LedgerOK` and `BallotsOK`, then `startTally` and `step`.
It states what the rule promises.

`Ports` holds the other implementations as the loops they are, each a function
from costs, entries and budget to a list of projects: the reference, the Rust
crate, the guest's assembly of its input, `pbearTranscript` and `replayPublic`.
`NoirTally` is the state the Noir proofs take from step to step, with the
prover's plan of batches and groups. The loops are recursive functions of the
iteration, so that proofs can unfold them. `TallyPorts` extends `Tally` and
`NoirTally`: when a round ends, it is counted again by all of them from what the
round started with, for every subset of at most `NSealedMax` voters who might
have sealed their ballots. For forged reports it takes every step that can be
written with `Numbers` (`Claims` and `Choices`): small ones in the run, any set of
natural numbers in the theorem. `MCTally` enumerates every small round.

### The public pool and its proposals

`PoolBase` holds the custody part of each operation, with the hooks left open as
in the code. `ArkivBallots` holds the references. `RankedShares` composes them
with the engine: one action per external function, its guard the conjunction of
the modifiers and reverts on the way, because a reverted call changes nothing.
Token, NFT collection and clock are environment actions. `contributed` and the
`members` of a sponsorship are history, kept to say what an address earned.

`Escrow` is the abstract promise about money: hold, decide once, pay every award
at most once and in full, release only what no award needs. `RankedShares` and
`CreRankedShares` implement it under the refinement `Promise`, as a run of each
checks and a theorem of each proves; that `ZiskRankedShares` does is proved only.

`ProposalReview` covers proposals, privacy and opening, with the web client's
part before each transaction: `desk` is what a user has open, as it was read;
`prepared` is the publication the organizer's browser computed, `sent` the one
in the mempool. `disclosed` is history: every key that was ever in calldata. It
ends with a list of projects and an open vote, which is where `RankedShares`
begins. `ReadyForTally` of `RankedShares`, checked and proved, is what `TallyInit`
assumes.

### The sealed pools

`SealedPool` is the pool whose tally runs elsewhere: `ledger` holds direct and
seat weights, `voterChain` and `inputsHash` hold what the code hashes, and
`Finalize` is the one way a round ends. It reuses `PoolBase`, and `ArkivBallots`
twice, once for each kind of ballot. It has no specification of its own, as the
contract is abstract: `CreRankedShares` adds the workflow's reports, a set from
which nothing is ever removed, so that a report may be late, repeated, or
overtaken; `ZiskRankedShares` adds proofs, which anybody may make and bring, of any inputs
under any key. A report may carry any list, because the contract must not rely on
the workflow; a proof carries what the guest computes (`Committed`): the inputs,
the key that belongs to the secret the ballots were opened with, and the outcome,
which depends on both.

`LPVoting` is the ledger of sponsored liquidity: positions subscribe, change and
stop, prices arrive, accrual is settled when something changes, and shares are
credited in chunks. `earned` is history: the value of each owner's subscribed
liquidity, added up tick by tick. `LPCreRankedShares` composes it with
`CreRankedShares` as the pool and its module call each other, adds the price and
finalise reports to the same set of reports, and the condition that closing
waits for the campaigns.

`NoirRankedShares` is the pool settled by a chain of proofs, from the vote on.
A chain of hashes is the sequence it hashes, so a checkpoint is a prefix of the
sealed roster. A report names a transcript; `Groups` says which groups of steps
its proofs come in, and two transcripts may share their first groups. A state
commitment is the record of what was ingested and which groups were replayed.

### The actors beside the chain

`Prover` is `runChain`: every run keeps the snapshot it started from and reads
the pool again only where the code does. Runs interleave with each other, with
the pool, and with strangers who send any published proof again (`published`
holds every proof that was ever in calldata) or one that is valid for other costs
or another key (`ForeignProofs`). `ProverService` adds the job maps
of the service: a job that timed out keeps its run going without a job.

`BallotStorage` is the worker: `memory` and `journal` are the object and the
file, `waiting` and `nonce` the Arkiv node's mempool and account. Every call may
fail, with or without having had its effect, and the process may die between any
two steps. `Snapshots` is the cache with its pending reads and clients that
poll; a snapshot is its block. `CastVote` is the page that casts: two tabs share
one draft in localStorage, the wallet may cancel or reprice, and the answer to a
sent transaction is a step of its own.

`MCWebClient` and `MCOffChain` each run two systems that share nothing, one or
the other from the start (`part`, `service`), as `MCRankedShares` does for two
sorts of round (`sort`).

Operators whose names start with `Bug` are not the code. Each is a mistake one
could plausibly make in the operator it precedes, and `PROJECT.json` names the
property that notices it.

## What the runs check

| Run | Question | Bounds |
|---|---|---|
| TallyThree | Is weight conserved, each supporter charged its share, the outcome affordable, and does it satisfy Inclusion PSC? | 2 voters, 3 projects, costs to 3, weights to 2, every ballot |
| TallyPorts | Do the other implementations count the same, can an honest transcript be proved, and does a forged step fail? | 2 voters, 3 projects, costs to 2, every ballot, every set of sealers; after every part of a transcript, every step whose level, supports and total are in 0..3 and whose choice is any project or none |
| TallyLeftover | Is only abstaining weight left when the last level ends? (no) | 2 voters, 2 projects |
| PoolRound | Are weights what was earned and ready for the tally; are inputs frozen, do only accepted ballots decide, is the pool an Escrow; is an opened round decided and every award paid? | 2 voters; rounds about seats (2 NFTs, lists with repetition, 1 project) or about money (2 projects of cost 1 or 2 and one of cost 0 that is refused, fees, 1 donated, 2 revisions, every witness); 2 deposits |
| SealedProof | Does the roster name everyone who counts once, is seat weight what was earned, are public ballots backed; does only the guest's outcome for this round pass? | 2 voters, 1 NFT, 2 deposits or gifts, minimum 3 above the smaller amount, 2 revisions, proofs of this and of another round, under the tallier's key and another |
| SealedClose | Is the commitment the roster as it is, a result attested for it only, the pool an Escrow whatever it is sent; does a round end without anybody closing or reporting? | 2 voters, 1 project of cost 0 (refused) or 2, 2 deposits or gifts of 1 or 2 with a cap of 3, fees, chunks of 0 to 2, every witness, 2 reports in flight, lists that must be refused |
| LiquidityRound | Does each owner accrue exactly what the positions held; do credits stay covered; does the commitment wait for them, but nobody for the workflow? | 2 owners, 2 positions of liquidity 1 or 2, prices 1 and 2, 2 ticks to the deadline and 1 after it, 3 changes of market and positions, 1 report in flight, chunks of 1 and 3, at most 1 sponsorship, 2 positions and 3 accounts |
| ProverRound | Are the checkpoints those the proofs need; does a round end with the reported list, by proof or by grace; do batched proofs get through? | 3 voters, up to 3 sealed ballots in batches of 2, 2 runs of the prover, three transcripts: the true one, one that parts from it after a group, one that does not replay; proofs about other costs or keys |
| ServiceCache | Is a pool the service remembers as done proven? (no) | 1 sealed ballot, 1 run of the service and 1 of the command line |
| WebClient | Do concurrent edits, decisions and publication respect each other and the organizer key; is a vote paid once and reported truly? | 2 users, 2 organizer keys, 2 proposals, 3 drafts; or 2 tabs, 2 drafts, 2 tokens, 2 transactions sent and 1 replaced |
| OffChain | Is a ballot stored once, and in the end; is a pool read once at a time, and does a user come to see the own transaction? | 2 pools with 1 reference each, 3 faults; or 3 users of 2 pools, a cache of 1 entry, 2 blocks, 1 failed read |
| StorageStall | Can a saved storage transaction always still be mined? (no) | as OffChain, 1 fault |

Why the bounds are enough to mean something. The tally runs start from *every*
round within the bounds, not from one: three projects give two levels in which
a choice between projects is made, two voters with weights up to 2 make
every kind of tie and remainder (a cost of 3 split 1:2, a cost of 1 split 2:1),
and `RankValues = 4` with three projects makes the default rank wrap. Costs
never increase with the id: renaming projects matters only to the last
tie-break. In the seat rounds an amount of 3 over 2 seats leaves dust, a list may
name an address twice, a seat can be claimed, sold, reclaimed and bought back.
In the money rounds a deposit may lose its fee, and a donation may arrive in
every phase. Two revisions are enough for a stale payload to exist. In the
review part, three drafts allow a proposal, an edit of it and a competing edit
of the same revision; in the voting part a draft can be sent from both tabs, or
a second time after its hash was lost, and either sending can be replaced. Three
sealed ballots in batches of two make a full batch and a short last one, and two
runs are enough for one to move the chain under the other. A cache of one entry
for two pools evicts at every second read. Three faults lose a broadcast, crash
the worker and drop a transaction in one behaviour.

`ProverRound` starts either with an open round or with one that has just closed
(`JustClosed` in `MCProver` walks the roster with the operators of the pool);
interleaving runs of the prover with the vote would only multiply states,
because a run does nothing before the pool is closed. Symmetry is used in
`WebClient` only, which checks no liveness.

`CHECK_DEADLOCK FALSE` is set everywhere because every one of these systems may
stop: a tally is done, a round is paid out, a review ends with an open vote.

### The findings

* `TallyLeftover`. src/README.md:151-153 and the comment at src/src/PBEAR.sol:175-176 say
  that when the last level has nothing eligible, only abstaining weight is left.
  A project may cost more than all the voted weight together and still fit in the
  budget because of abstaining money; the tally then ends with that voted weight
  unspent. It cannot fund anything, as the comment goes on to say.
* `ServiceCache`. The prove service remembers every job that ended without an
  exception, so that a pool "already proven" is "never re-proven"
  (prover/src/service/index.ts:64-65). A job also ends that way when the workflow
  has not reported its transcript yet (core/submit.ts:182-186). A pool asked for
  that early stays unproven, and later requests are answered with the old job,
  until it is evicted, the service restarts or somebody uses the command line.
* `StorageStall`. The worker saves a transaction before it broadcasts it, but takes
  its nonce from the node. If the broadcast is lost, the next pool's ballot takes
  the same nonce; once that is mined, the saved transaction never can be. The
  worker says "Saved transactions will resume on retry" (sync-ballots.ts:32); it
  re-broadcasts this one for ever, and the ballots behind it in its pool wait.
  `SavedCanResume` leaves out ballots that were replaced by a later revision, which
  the worker no longer looks at. `BallotsGetStored` is what does hold: without
  an overtaken transaction in its pool, every ballot that stays the last one of
  its voter is stored and verified in the end.

Two things `CastVote` shows without contradicting what the page says of itself:
when the tab is closed between sending a vote and saving its hash, the page
offers "Edit ranking" although the vote is in flight (the old vote may still
land, and its revision then makes the new draft fail its check); and a draft
whose vote was cancelled in the wallet keeps the cancelled hash, so it can
neither be resumed nor edited until localStorage is cleared. Neither pays twice.

### Fairness

Only what anyone may call, or what a process does on its own, is assumed:

* Public pool: `startTally` once the deadline passed, `step` (or `run`,
  `runArkiv`) while the tally runs, and `claim`. The code leaves all of them open
  to every address, so one interested person is enough. The deadline passes.
  Nobody is assumed to deposit, vote, claim a seat or sweep. `RoundEnds`
  exempts rounds whose balance falls short of the budget at the deadline, because
  with a fee-taking token `startTally` may revert for ever (somebody would have to
  donate the difference). In Arkiv rounds somebody must still have the payloads; no code can
  force that.
* CRE pool: time passes, and somebody calls `abandon`; that is enough even with a
  fee-taking token.
* LP pool: time passes, and somebody calls `finalizeLP` and `close`; no report is
  assumed to arrive.
* Prover: the operator keeps running the command. It is stated as
  `<>[]CanMove(r) => []<><<Moves(r)>>_v`, which is weak fairness of the run's
  steps with the condition under which one of them is enabled written out,
  because `ENABLED` of an action that nests the pool's is beyond TLC's patience.
  Neither the workflow nor a stranger is assumed to do anything.
* Storage worker: it runs, somebody restarts it after a crash, and Arkiv mines
  what it holds. Faults are finite in number.
* Snapshots: reads end, clients poll (use-snapshot.ts), and the RPC client does
  not remember a block number for ever.

## What is proved

Each theorem holds for every value of the constants: any number of voters,
projects, tokens, owners, tabs, reports and rank values, and any bound a model
puts on a counter. The theorems rest on the named assumptions of the modules and
on nothing else: inputs and bounds are natural numbers or sequences of them, the
NFT collection is finite, the numbers of a forged step are natural, there is more than one rank value, somebody
holds the secret of the tallier's key, the amount a sealed vote needs is within `MAX_WEIGHT`, a sealed pool has at most 31 projects and
closes in chunks of at least one voter, a liquidity round lasts at least a tick, a
position's value is a natural number, an ingest proof takes at least one ballot
and a tally proof at least one step, no organizer key is the absence of one, the
Noir pool's placeholders for no ballot and no report are neither, and the storage
worker is given at least one pool.
A pool may still refuse such inputs; the proofs take every guard from the action.

| Module | What its theorems say | Inductive invariant |
|---|---|---|
| `TallyProofs`, the contract | `TypeCorrect`, `WeightConserved`, `NeverOverspends`, `ProportionalRepresentation` (`InclusionPSC`), `ChargesAreProportional` | `TallyInv` |
| `TallyProofs`, the ports | `PortsAlways` (`PortsAgree`), `BackendsAlways` (`BackendsAgree`), `HonestAlways` (`HonestReportStands`), `ForgedAlways` (`ForgedReportFalls`) | `PortInv`, `StakeInv` |
| `RankedSharesProofs` | `EarnedWeight`, `TallyGetsGoodInputs` (`ReadyForTally`), `FrozenAfterDeadline`, `OnlyAcceptedBallotsDecide`, `KeepsItsPromise` (`ImplementsEscrow`) | `PoolInv` |
| `SealedPoolProofs`, CRE pool | `CommitsToTheRoster`, `AttestedForTheseInputs`, `RosterIsComplete`, `OnlyBackedBallots`, `CreKeepsItsPromise` | `CreInv` |
| `SealedPoolProofs`, ZisK pool | `ProvenForTheseInputs`, `ProvenRosterIsComplete`, `ProvenBallotsAreBacked`, `ZiskKeepsItsPromise` | `ZiskInv` |
| `LiquidityProofs` | `AccrualIsExact`, `CreditsAlwaysCovered` | `LPInv` |
| `WebClientProofs`, proposals | `PrivateFromTheStart`, `BallotIsReadable`, `DraftsStayPrivate`, `SavesAreNotLost` (`NoLostUpdate`) | `ReviewInv` |
| `WebClientProofs`, casting | `PaidAtMostOnce`, `VotersAreToldTruly` | `CastInv` |
| `ActorsProofs`, cache | `OneReadAlways` (`OneRead`) | `CacheInv` |
| `ActorsProofs`, storage | `StoredOnceAlways` (`StoredOnce`) | `StorageInv` |
| `ActorsProofs`, Noir | `CheckpointsAlways` (`CheckpointsFollow`), `DecidedAlways` (`DecidedAsReported`) | `ProverInv` |

What each invariant has beyond the properties, and why:

* **The tally.** A weight stays a natural number only because the deduction of a
  voter never exceeds the weight, which needs support to be at least the cost;
  conservation needs the roster to name each voter once; and an eligible project
  fits only because what supporters have is bounded by what was granted and not
  yet spent. In a funding step the deductions telescope to exactly the cost. For
  Inclusion PSC, `CoalitionInv` follows every coalition that puts a set of
  projects first: up to level `k` its members were charged at most for the funded
  projects somebody of them ranks within `k`, and once level `k` has ended, a
  project all of them rank within `k` that is still unfunded costs more than that
  leaves. `ProportionalCharge` then bounds each charge by the two truncations next
  to it.
* **The ports.** `PortInv` says that a port has done in as many iterations what the
  contract has done in its steps: the same weights are left, the same projects
  funded in the same order, the level and what was spent are the same. Four facts
  carry a step. A running maximum is the best project that `Best` chooses. Cumulative
  deductions along a list of supporters are those along the whole roster. The
  `uint8` default rank decides nothing, for at its level every project is approved
  either way. And the support of two blocks adds up, so the place of the cut does
  not matter. `StakeInv` bounds what a round hands out by its budget, without which
  the audit's check of the budget could refuse an honest step. Once the round is
  over everything else follows a run `x` of `shared/pbear.ts`, iteration by
  iteration: the audit holds the front of its row of weights (`Audited`), the Noir
  state the back of it, padded with nothing (`Proven`), and the ZisK guest the same
  row without the ballots that do not decrypt (`Thinned`). The places at which one
  row is found in another (`IsPart`) make their running totals, and therefore every
  rounded charge, agree. For a forged step, whichever of its parts fit together, the audit recomputes the
  public support and the proof the level, the best project and its total, so that a
  step both accept is the true one; and neither ends before or after the true transcript.
* **The public pool.** `WeightIsEarned` relates the engine's weights to deposits,
  list memberships and the seats in `seatHolder`; that it survives a seat changing
  hands needs that a seat was claimed by at most one holder and that revoking it
  leaves the other terms alone. The tally's invariant, `EngineInv`, is part of
  `PoolInv` and reused as it is. `BallotsInv` says which of the two kinds of round
  stores what, and that everything stored fits the roster of projects; `EscrowInv`
  that the balance covers the budget until the end and what is still owed
  afterwards. `ReadyForTally` is exactly the hypothesis `TallyProofs` makes about
  its initial states, so that the theorems on the rule apply to the rounds of the
  pool.
* **The sealed pools.** `SealedInv` is shared: the roster is complete and counts
  seats (`LedgerOK`), money covers it (`MoneyInv`), each ballot is backed and has
  the length of the projects (`BallotsInv`), the chain is the roster as far as it
  was walked and cannot move behind the cursor (`ChainInv`), the result is
  affordable and so is what is left of it (`AwardInv`). Reports and proofs are
  sets that only grow; what is true of each is stated for all of them, so that a
  delay or a repetition changes nothing.
* **Liquidity.** What was due to an owner splits into what a settled position
  already gave and what the rest will give, position by position; the campaign's
  total is the sum over its accounts. The ledger's copies of a position agree with
  the position manager until the deadline, each owner has one account, and nothing
  is allocated before every position was settled for good. Shares are rounded
  down, and rounded-down shares of a total fit in the amount, by the lemma the
  tally needed too.
* **Proposals.** A key commitment is that of the current revision, an accepted
  proposal cannot be edited any more, accepted proposals and projects match one to
  one, and a publication, however old, holds keys of accepted proposals only; so
  the invariant speaks of `prepared`, `sent` and `disclosed` at once. What is open
  at a desk is the revision it names for as long as that one is current.
* **Casting.** Every copy of a draft, in any tab, in localStorage or in an answer
  on its way, names one revision, and the revision of the i-th accepted ballot is
  i; hence a draft that landed can never land again. Every copy of a hash carries
  one draft's vote or an approval, and a vote that succeeded is among those that
  landed.

* **The cache.** What an entry has pending is the read that runs for its pool, at
  most one, and no read will put another promise back when it fails; whoever waits
  has no answer yet and waits for a read that runs, of the pool asked for. Hence a
  caller who finds nothing pending starts the only read of that pool.
* **The storage worker.** Every saved transaction was signed, for one ballot
  alone; what waits in the mempool is the saved transaction of its ballot; once
  mined its nonce is used up, so that it is refused when it is sent again; and a
  ballot whose saved transaction may still be mined has no entity yet. The last is
  what a resumed worker relies on when it broadcasts again instead of signing.
* **The Noir chain.** `ProverInv` has five parts. Who holds a seat or sealed a
  ballot is in the roster, and `sealedCount` counts the latter (`VoteInv`). A phase
  says what cannot have happened yet (`PhaseInv`). The checkpoints kept are those
  of one walk along the roster up to `closeCursor`, which no longer changes
  (`CloseInv`). The committed state is the one that many batches lead to from the
  start; after the last of them some groups of a transcript were added, and a
  proven result was added group by group from the very transcript reported
  (`ChainInv`). A list ends the round only as that of the report, whether the last
  proof or the end of the grace brings it. What a prover's run carries is of the right form, however old it
  is (`RunsInv`): a proof counts for what the pool holds when it is sent, so no
  more has to be known of whoever sends it.

Two modules hold lemmas only. `PrefixSumProofs` has the arithmetic of running
totals: monotone, additive, shares of a truncating division telescope, and one
share exceeds neither the weight behind it nor the cost. `PoolBaseProofs` says
what seats and awards do; what granting, revoking, ballots and the roster of
projects do to a ledger begins `TallyProofs`. Induction over a roster, or over the
iterations of a loop, is done with the set of indices at which the claim holds, or
fails, because the library's induction theorems take an operator, which these
provers cannot instantiate.

Model-checked only, and why:

* All liveness and everything with `ENABLED`: the proof system does not do it.


* `CommittedInputs` in the composition with the liquidity module: proved for
  `CreRankedShares` alone, checked by `LiquidityRound` for the composition.

## Abstractions worth knowing

* `keccak256` and Poseidon2 have no collisions: references, chains and
  commitments hold what they hash. Proofs are sound and complete.
* A deposit is preceded in `castBallot` by an attempt to use a permit whose
  failure is swallowed. The pool modules leave it out; `CastVote` has it, with
  the allowance that decides in the end.
* Amounts, costs and weights are natural numbers. In the engine they are
  `uint256`, and nothing multiplies them without `mulDiv`.
* In `SealedPool` a ciphertext's ephemeral point is one entry instead of 33
  bytes; the pool only compares lengths. Who may call `onReport` is left out:
  the model's reports are those of the authorised workflow, including what it
  computed for other pools.
* Projects and proposals are numbered from 1 here, from 0 in the code.
* A revision's content stands for its own random key: the client draws a new one
  for every save. The contract accepts public and private revisions alike when no
  organizer key is registered; this web client refuses to upload public ones, and
  the model keeps what the contract accepts.
* The client compares the organizer key before it sends a new proposal. The
  model lets the submission execute later whatever the comparison said, because
  the key may change after it. The organizer keeps the Swarm identity that opens
  what was encrypted for it.
* `submit.ts` can be told to restart the tally proofs, or to prove without
  submitting. Nothing that calls `runChain` (command line, page, service) asks for
  a restart, and a run that submits nothing changes nothing; `PlanTally` has the
  restart the code decides on its own. It reads whether a result was reported and
  the committed state in two calls; the first never goes back to false.
* Proving takes as long as it likes and has no effect, so a proof appears in the
  step that sends it. What `isDone` reads before a send is one of the outcomes of
  that step.
* The value of a position is any function of liquidity and price.
* Of two storage transactions with one nonce the node keeps either: the worker
  never raises a fee itself, but two of its transactions may share a nonce after
  one was lost, and which pays more is left open.
* The storage worker can always write its state file. In the code a save that
  fails leaves the record in memory ahead of the file
  (`cre/scripts/lib/ballot-storage.ts`, `record.hash` before `save()`): the next
  pass may broadcast a transaction that a crash would then forget.
* An empty state file is started with only while nothing is waiting; one that is
  emptied earlier would sign the waiting ballots again.

## Not modelled

* **LP position valuation** (`PositionValue.sol`, `TickMath.sol`): fixed-point
  arithmetic over 160-bit prices. A small word size would be another program.
* **Hashing, curves, verifiers, circuits' constraints, encryption**: no state, and
  nothing a bounded search could enumerate. The state machine the circuits prove
  is modelled, from its TypeScript twin; that the constraints equal it is not.
* **Encodings and decoding** of reports, Arkiv entities and URLs.
* **The Noir workflow's own reads** (`cre/src/workflow.ts`): the pool is checked
  against any report it might send instead.
* **Chain reads, routes, pages, forms, Swarm uploads, attachments, the round
  directory, deployment builders** of the web client and API: input and output
  around a single call, formatting and layout. They make up most of the
  repository's lines.
* **Deployment scripts, demos, imports**: straight-line transactions run once.
* **The audit report, key files and dry runs of the prover's command line.**

The repository has some 17 000 lines of TypeScript, JavaScript, Python and Rust beside the
contracts, most of it pages, copy, demos, importers and generated constants without state of
their own; the models cover the part that keeps state or decides something.

## What could follow

1. A proof that the pool with a liquidity module commits to its roster.
2. `LPVoting` with two campaigns that share a position one after the other and
   sponsors who deposit twice, which is beyond the present bounds.
3. Larger rounds for `TallyPorts`, with three voters.
