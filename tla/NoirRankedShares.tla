--------------------------- MODULE NoirRankedShares ---------------------------
(***************************************************************************)
(* The pool that is settled by a chain of Noir proofs,                     *)
(* src/src/noir/NoirRankedShares.sol, from the vote on.  Closing keeps a   *)
(* chain over the public ballots and a checkpointed chain over the sealed  *)
(* ones; the workflow then reports a provisional result with a transcript, *)
(* and proofs take the committed state through the batches of sealed       *)
(* ballots and the groups of transcript steps.  The last proof ends the    *)
(* round, unless the provisional result was accepted or it was abandoned.  *)
(*                                                                         *)
(* Money, setup and payloads on Arkiv are as in SealedPool and left out;   *)
(* GrantSeat and MoveSeat are the hooks that sponsoring and claiming run.  *)
(* Hashes are collision-free, so a chain, checkpoint or commitment is what *)
(* it hashes.  External: the verifiers, which accept exactly the proofs    *)
(* that the circuits allow.  The groups of a transcript are names: two     *)
(* transcripts may share their first groups.                               *)
(* Operators named Bug... are mistakes, not code: see PBEAR.               *)
(***************************************************************************)
EXTENDS Integers, Sequences, FiniteSets, Functions

CONSTANTS
  Voter,
  Contributors,    \* those who deposited their own money before
  Ciphertexts,     \* valid ciphertexts a user may send
  NSealedMax,      \* nSealedMax, the slots for sealed ballots
  MinSealedVote,   \* minSealedVote, in seats
  MaxSeats,        \* bound on the seats granted
  Batch,           \* batch
  Transcripts,     \* transcripts that pass _hashTranscript; a report carries one
  Groups(_),       \* the groups its proofs come in; << >> if it does not replay
  OrderOf(_),      \* the list of funded projects it describes
  OtherRoot        \* the inputsRoot of another pool

NoVote == "none"
NoReport == "none"

\* What a proof says of the number of projects, the budget and the tallier's key
\* (an ingest proof) or of the costs (a tally proof): this pool's, or others.
ThisRound == "these costs, budget and key"
OtherRound == "others"

ASSUME NoirAssumption ==
  /\ NSealedMax \in Nat \ {0} /\ Batch \in Nat \ {0}
  /\ MinSealedVote \in Nat /\ MaxSeats \in Nat
  /\ Contributors \subseteq Voter /\ IsFiniteSet(Contributors)
  /\ NoVote \notin Ciphertexts /\ NoReport \notin Transcripts
  /\ \A t \in Transcripts : Len(Groups(t)) \in Nat
  /\ \A t, u \in Transcripts :
       \A n \in 1 .. Len(Groups(t)) - 1 : Groups(u) # SubSeq(Groups(t), 1, n)

VARIABLES
  voters, seatWeight, hasDirect,
  sealed,           \* _sealed: the last ciphertext, or NoVote
  sealedCount,
  pastDeadline,
  closed, closeCursor, hPub, hSealed, sealedCursor, checkpoint, numBatches,
  reported,         \* the transcript reported, or NoReport (resultReported)
  pastProofGrace,   \* block.timestamp >= reportedAt + proofGrace
  pastAbandonGrace, \* block.timestamp >= votingDeadline + abandonGrace
  ingestCursor, stateCommit, ingestedState,
  finality, fundedOrder

voteVars   == <<voters, seatWeight, hasDirect, sealed, sealedCount>>
closeVars  == <<closed, closeCursor, hPub, hSealed, sealedCursor, checkpoint, numBatches>>
chainVars  == <<ingestCursor, stateCommit, ingestedState>>
finalVars  == <<finality, fundedOrder>>
reportVars == <<reported, pastProofGrace>>
noirVars   == <<voteVars, pastDeadline, closeVars, reportVars, pastAbandonGrace, chainVars, finalVars>>

phase == CASE finality # "None" -> "Done"
           [] finality = "None" /\ closed -> "Tally"
           [] finality = "None" /\ ~closed /\ pastDeadline -> "Closing"
           [] OTHER -> "Open"

MaxBatches == (NSealedMax + Batch - 1) \div Batch

\* What a commitment commits to: 0 before the first batch.
NoState == [batches |-> 0, sealed |-> << >>, groups |-> << >>]

\* The orders in which a set of voters can have registered.
Orders(V) ==
  {s \in [1 .. Cardinality(V) -> V] : \A i, j \in DOMAIN s : s[i] = s[j] => i = j}

NoirInit ==
  /\ voters \in Orders(Contributors) /\ hasDirect = {}
  /\ seatWeight = [v \in Voter |-> 0]
  /\ sealed = [v \in Voter |-> NoVote] /\ sealedCount = 0
  /\ pastDeadline = FALSE /\ pastProofGrace = FALSE /\ pastAbandonGrace = FALSE
  /\ closed = FALSE /\ closeCursor = 0 /\ hPub = << >> /\ hSealed = << >> /\ sealedCursor = 0
  /\ checkpoint = [k \in 0 .. MaxBatches |-> << >>] /\ numBatches = 0
  /\ reported = NoReport
  /\ ingestCursor = 0 /\ stateCommit = NoState /\ ingestedState = NoState
  /\ finality = "None" /\ fundedOrder = << >>

-----------------------------------------------------------------------------
(* The vote.                                                               *)

Register(v) ==
  voters' = IF \E i \in DOMAIN voters : voters[i] = v THEN voters ELSE Append(voters, v)

TotalSeats == SumFunction(seatWeight)

GrantSeat(v) ==
  /\ phase = "Open"
  /\ TotalSeats < MaxSeats
  /\ seatWeight' = [seatWeight EXCEPT ![v] = @ + 1]
  /\ Register(v)
  /\ UNCHANGED <<hasDirect, sealed, sealedCount, pastDeadline, closeVars, reportVars,
                 pastAbandonGrace, chainVars, finalVars>>

\* An NFT changes hands and its buyer claims the seat: v loses it, w gains it.
MoveSeat(v, w) ==
  /\ phase = "Open"
  /\ v # w /\ seatWeight[v] > 0
  /\ seatWeight' = [seatWeight EXCEPT ![v] = @ - 1, ![w] = @ + 1]
  /\ Register(w)
  /\ UNCHANGED <<hasDirect, sealed, sealedCount, pastDeadline, closeVars, reportVars,
                 pastAbandonGrace, chainVars, finalVars>>

Vote(v) ==
  /\ phase = "Open"
  /\ v \in Contributors /\ v \notin hasDirect
  /\ hasDirect' = hasDirect \cup {v}
  /\ Register(v)
  /\ UNCHANGED <<seatWeight, sealed, sealedCount, pastDeadline, closeVars, reportVars,
                 pastAbandonGrace, chainVars, finalVars>>

\* A slot is taken by the first ballot and kept whatever happens to the seat.
\* voteSealed does not register its caller: being granted a seat did.
VoteSealed(v, ct) ==
  /\ phase = "Open"
  /\ seatWeight[v] > 0 /\ seatWeight[v] >= MinSealedVote
  /\ sealed[v] = NoVote => sealedCount < NSealedMax
  /\ sealedCount' = sealedCount + (IF sealed[v] = NoVote THEN 1 ELSE 0)
  /\ sealed' = [sealed EXCEPT ![v] = ct]
  /\ UNCHANGED <<voters, seatWeight, hasDirect, pastDeadline, closeVars, reportVars,
                 pastAbandonGrace, chainVars, finalVars>>

DeadlinePasses ==
  /\ ~pastDeadline
  /\ pastDeadline' = TRUE
  /\ UNCHANGED <<voteVars, closeVars, reportVars, pastAbandonGrace, chainVars, finalVars>>

-----------------------------------------------------------------------------
(* Closing.                                                                *)

Entry(v) == [voter |-> v, weight |-> seatWeight[v], ciphertext |-> sealed[v]]

Walk == [pub |-> hPub, chain |-> hSealed, j |-> sealedCursor, checkpoint |-> checkpoint]

BugWalkVoter(w, v) ==
  LET j     == w.j + 1
      chain == Append(w.chain, Entry(v))
      pub   == IF v \in hasDirect THEN Append(w.pub, v) ELSE w.pub
  IN  IF sealed[v] = NoVote THEN [w EXCEPT !.pub = pub]
      ELSE [pub |-> pub, chain |-> chain, j |-> j,
            checkpoint |-> IF j % Batch = 0
                           THEN [w.checkpoint EXCEPT ![(j + Batch - 1) \div Batch] = chain]
                           ELSE w.checkpoint]

WalkVoter(w, v) ==
  LET j     == w.j + 1
      chain == Append(w.chain, Entry(v))
      pub   == IF v \in hasDirect THEN Append(w.pub, v) ELSE w.pub
  IN  IF sealed[v] = NoVote THEN [w EXCEPT !.pub = pub]
      ELSE [pub |-> pub, chain |-> chain, j |-> j,
            checkpoint |-> IF j % Batch = 0 \/ j = sealedCount
                           THEN [w.checkpoint EXCEPT ![(j + Batch - 1) \div Batch] = chain]
                           ELSE w.checkpoint]

\* The walk from closeCursor on to the voter at `end`.
Walked(end) ==
  LET walked[i \in closeCursor .. end] == IF i = closeCursor THEN Walk ELSE WalkVoter(walked[i - 1], voters[i])
  IN  walked[end]

\* close, also when a report of the workflow drives it.
Close(maxVoters) ==
  LET end == IF closeCursor + maxVoters > Len(voters) THEN Len(voters) ELSE closeCursor + maxVoters
      w   == Walked(end)
  IN  /\ phase = "Closing"
      /\ end = Len(voters) => w.j = sealedCount
      /\ closeCursor' = end
      /\ hPub' = w.pub /\ hSealed' = w.chain /\ sealedCursor' = w.j /\ checkpoint' = w.checkpoint
      /\ closed' = (end = Len(voters))
      /\ numBatches' = IF end # Len(voters) THEN numBatches
                       ELSE IF sealedCount = 0 THEN 1 ELSE (sealedCount + Batch - 1) \div Batch
      /\ UNCHANGED <<voteVars, pastDeadline, reportVars, pastAbandonGrace, chainVars, finalVars>>

-----------------------------------------------------------------------------
(* The report and the graces.                                              *)

inputsRoot == [pub |-> hPub, sealed |-> hSealed, n |-> sealedCount]

OnReport(root, transcript) ==
  /\ phase = "Tally"
  /\ reported = NoReport
  /\ root = inputsRoot
  /\ reported' = transcript
  /\ UNCHANGED <<voteVars, pastDeadline, closeVars, pastProofGrace, pastAbandonGrace, chainVars,
                 finalVars>>

Finalize(order, how) ==
  /\ finality = "None"
  /\ finality' = how
  /\ fundedOrder' = order

AcceptProvisional ==
  /\ phase = "Tally"
  /\ reported # NoReport
  /\ pastProofGrace
  /\ Finalize(OrderOf(reported), "Attested")
  /\ UNCHANGED <<voteVars, pastDeadline, closeVars, reportVars, pastAbandonGrace, chainVars>>

Abandon ==
  /\ phase \in {"Tally", "Closing"}
  /\ reported = NoReport
  /\ pastAbandonGrace
  /\ Finalize(<< >>, "Abandoned")
  /\ UNCHANGED <<voteVars, pastDeadline, closeVars, reportVars, pastAbandonGrace, chainVars>>

\* Later, neither grace makes a difference any more.
ProofGraceEnds ==
  /\ phase = "Tally" /\ reported # NoReport /\ ~pastProofGrace
  /\ pastProofGrace' = TRUE
  /\ UNCHANGED <<voteVars, pastDeadline, closeVars, reported, pastAbandonGrace, chainVars, finalVars>>

AbandonGraceEnds ==
  /\ phase \in {"Closing", "Tally"} /\ reported = NoReport /\ ~pastAbandonGrace
  /\ pastAbandonGrace' = TRUE
  /\ UNCHANGED <<voteVars, pastDeadline, closeVars, reportVars, chainVars, finalVars>>

-----------------------------------------------------------------------------
(* The proofs.  `c` is the part of the pool that a call with proofs        *)
(* changes; c.ok is FALSE once one of them is refused, and the call        *)
(* reverts.                                                                *)

Chain == [ingestCursor |-> ingestCursor, state |-> stateCommit, ingested |-> ingestedState,
          finality |-> finality, order |-> fundedOrder, ok |-> TRUE]

Refused(c) == [c EXCEPT !.ok = FALSE]

AdvanceIngest(c, p) ==
  LET k == c.ingestCursor
  IN  IF /\ p.kind = "ingest" /\ p.k = k
         /\ p.n = sealedCount
         /\ p.about = ThisRound
         /\ p.hIn = checkpoint[k] /\ p.hOut = checkpoint[k + 1]
         /\ p.stateIn = c.state
      THEN [c EXCEPT !.state = p.stateOut, !.ingestCursor = k + 1,
                     !.ingested = IF k + 1 = numBatches THEN p.stateOut ELSE @]
      ELSE Refused(c)

BugAdvanceTally(c, p, restart, isCoordinator) ==
  LET from == IF restart THEN c.ingested ELSE c.state
  IN  IF \/ p.kind # "tally"
         \/ reported = NoReport
         \/ p.about # ThisRound
         \/ p.stateIn # from
      THEN Refused(c)
      ELSE IF ~p.done THEN [c EXCEPT !.state = p.stateOut]
      ELSE IF p.order = OrderOf(reported)
      THEN [c EXCEPT !.state = p.stateOut, !.finality = "Proven", !.order = p.order]
      ELSE Refused(c)

\* The groups behind a state are what transcriptHash hashes.
AdvanceTally(c, p, restart, isCoordinator) ==
  LET from == IF restart THEN c.ingested ELSE c.state
  IN  IF \/ restart /\ ~isCoordinator
         \/ p.kind # "tally"
         \/ reported = NoReport
         \/ p.about # ThisRound
         \/ p.stateIn # from
      THEN Refused(c)
      ELSE IF ~p.done THEN [c EXCEPT !.state = p.stateOut]
      ELSE IF p.stateOut.groups = Groups(reported) /\ p.order = OrderOf(reported)
      THEN [c EXCEPT !.state = p.stateOut, !.finality = "Proven", !.order = p.order]
      ELSE Refused(c)

AdvanceOne(c, p, restart, isCoordinator) ==
  IF c.ingestCursor < numBatches THEN AdvanceIngest(c, p)
  ELSE AdvanceTally(c, p, restart, isCoordinator)

\* advanceMany; `restart` goes to the first tally proof, and nothing may follow
\* the proof that ends the round.
Advances(proofs, restart, isCoordinator) ==
  LET after[i \in 0 .. Len(proofs)] ==
        IF i = 0 THEN [c |-> Chain, restarted |-> FALSE]
        ELSE LET a     == after[i - 1]
                 first == restart /\ ~a.restarted /\ a.c.ingestCursor = numBatches
             IN  IF ~a.c.ok THEN a
                 ELSE IF a.c.finality # "None" THEN [a EXCEPT !.c = Refused(a.c)]
                 ELSE [c |-> AdvanceOne(a.c, proofs[i], first, isCoordinator),
                       restarted |-> a.restarted \/ first]
  IN  after[Len(proofs)].c

Accepts(proofs, restart, isCoordinator) ==
  /\ phase = "Tally" /\ proofs # << >>
  /\ Advances(proofs, restart, isCoordinator).ok

\* advance is advanceMany of one proof: both ignore `restart` on an ingest proof.
AdvanceMany(proofs, restart, isCoordinator) ==
  LET c == Advances(proofs, restart, isCoordinator)
  IN  /\ Accepts(proofs, restart, isCoordinator)
      /\ ingestCursor' = c.ingestCursor /\ stateCommit' = c.state /\ ingestedState' = c.ingested
      /\ finality' = c.finality /\ fundedOrder' = c.order
      /\ UNCHANGED <<voteVars, pastDeadline, closeVars, reportVars, pastAbandonGrace>>

-----------------------------------------------------------------------------

PoolSteps ==
  \/ \E v \in Voter : GrantSeat(v) \/ Vote(v)
  \/ \E v, w \in Voter : MoveSeat(v, w)
  \/ \E v \in Voter, ct \in Ciphertexts : VoteSealed(v, ct)
  \/ DeadlinePasses
  \/ \E maxVoters \in 0 .. Cardinality(Voter) : Close(maxVoters)
  \/ \E root \in {inputsRoot, OtherRoot}, t \in Transcripts : OnReport(root, t)
  \/ AcceptProvisional
  \/ Abandon
  \/ ProofGraceEnds
  \/ AbandonGraceEnds

-----------------------------------------------------------------------------
(* Safety.                                                                 *)

\* The sealed ballots of the roster, in its order: those of its first i voters.
SealedUpTo ==
  LET upTo[i \in 0 .. Len(voters)] ==
        IF i = 0 THEN << >>
        ELSE IF sealed[voters[i]] = NoVote THEN upTo[i - 1]
        ELSE Append(upTo[i - 1], Entry(voters[i]))
  IN  upTo

SealedRoster == SealedUpTo[Len(voters)]

Min2(a, b) == IF a < b THEN a ELSE b

\* Seats may move after their holders voted and close may take any number of
\* calls; still every slot counts one ballot of the roster, so the last chunk
\* is never refused, and each checkpoint is the chain up to its batch, which is
\* what the proof of that batch must start and end with (NoirRankedShares.sol:486-501).
CheckpointsFollow ==
  /\ sealedCount = Len(SealedRoster)
  /\ closed => \A k \in 0 .. numBatches :
                 checkpoint[k] = SubSeq(SealedRoster, 1, Min2(k * Batch, sealedCount))

\* A round ends with the list that was reported, or with none before a report:
\* whether the last proof or the end of the grace comes first, it is the same
\* list.  A proven round was proved from every sealed ballot it closed with,
\* group by group along the reported transcript, whoever sent the proofs, in
\* whatever batches, with proofs about other costs or under another key among
\* them, and however often the chain was restarted in between.
DecidedAsReported ==
  /\ finality \in {"Proven", "Attested"} => reported # NoReport /\ fundedOrder = OrderOf(reported)
  /\ finality = "Abandoned" => reported = NoReport /\ fundedOrder = << >>
  /\ finality = "Proven" =>
       stateCommit = [batches |-> numBatches, sealed |-> SealedRoster, groups |-> Groups(reported)]
=============================================================================
