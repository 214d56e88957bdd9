------------------------------ MODULE NoirTally ------------------------------
(***************************************************************************)
(* The tally state the Noir proofs are about, as cre/src/lib/commitments.ts*)
(* computes it, and the plan of proofs that the prover rebuilds from it    *)
(* (prover/src/core/state.ts).  Sealed ballots are ingested in batches of  *)
(* Batch and the reported transcript is replayed in groups of K steps;     *)
(* each proof takes one state to the next.                                 *)
(*                                                                         *)
(* A state commitment is modelled by the state it commits to (t_hash, the  *)
(* running hash of the steps taken, is the sequence of those steps).       *)
(* Entries that are still empty have weight 0 and ballot << >>; `broken`   *)
(* is the TranscriptMismatch that the code throws.                         *)
(***************************************************************************)
EXTENDS Ports

CONSTANTS
  NSealedMax,   \* entries a state has room for
  Batch,        \* sealed ballots per ingest proof
  K             \* transcript steps per tally proof

ASSUME ProfileAssumption ==
  NSealedMax \in Nat /\ Batch \in Nat \ {0} /\ K \in Nat \ {0}

EmptyState(m, budget) ==
  [weights |-> [i \in 1 .. NSealedMax |-> 0],
   ballots |-> [i \in 1 .. NSealedMax |-> << >>],
   funded |-> << >>, level |-> 1, spent |-> 0, done |-> FALSE,
   m |-> m, budget |-> budget, tHash |-> << >>, broken |-> FALSE]

BugTallyStepTrustsBest(s, costs, step) ==
  LET ranks  == [i \in DOMAIN s.weights |->
                   IF s.weights[i] = 0 THEN << >> ELSE EffectiveRanks(s.ballots[i])]
      sealed == SupportOf(s, ranks, DOMAIN ranks, costs)
      sum    == [c \in 1 .. s.m |-> step.pub[c] + sealed[c]]
      taken  == [s EXCEPT !.tHash = Append(@, step)]
      funds  == Fund(taken, Supporters(s, ranks, DOMAIN ranks, step.best), step.best,
                     costs, step.total, step.pub[step.best])
  IN  IF s.done THEN s
      ELSE IF Exhausted(s, costs, s.budget) THEN [s EXCEPT !.done = TRUE]
      ELSE IF \/ step.level # s.level
              \/ step.best \notin 0 .. s.m \/ IsFunded(s, step.best)
              \/ step.total # (IF step.best = None THEN 0 ELSE sum[step.best])
        THEN [s EXCEPT !.broken = TRUE]
      ELSE IF step.best = None
        THEN IF step.level >= s.m THEN [taken EXCEPT !.done = TRUE]
             ELSE [taken EXCEPT !.level = @ + 1]
      ELSE [funds EXCEPT !.done = Exhausted(funds, costs, s.budget)]

TallyStep(s, costs, step) ==
  LET ranks  == [i \in DOMAIN s.weights |->
                   IF s.weights[i] = 0 THEN << >> ELSE EffectiveRanks(s.ballots[i])]
      sealed == SupportOf(s, ranks, DOMAIN ranks, costs)
      sum    == [c \in 1 .. s.m |-> step.pub[c] + sealed[c]]
      taken  == [s EXCEPT !.tHash = Append(@, step)]
      funds  == Fund(taken, Supporters(s, ranks, DOMAIN ranks, step.best), step.best,
                     costs, step.total, step.pub[step.best])
  IN  IF s.done THEN s
      ELSE IF Exhausted(s, costs, s.budget) THEN [s EXCEPT !.done = TRUE]
      ELSE IF \/ step.level # s.level
              \/ step.best # Argmax(s, sum, costs)
              \/ step.total # (IF step.best = None THEN 0 ELSE sum[step.best])
        THEN [s EXCEPT !.broken = TRUE]
      ELSE IF step.best = None
        THEN IF step.level >= s.m THEN [taken EXCEPT !.done = TRUE]
             ELSE [taken EXCEPT !.level = @ + 1]
      ELSE [funds EXCEPT !.done = Exhausted(funds, costs, s.budget)]

-----------------------------------------------------------------------------
(* The plan of proofs: the states between batches, then between groups.    *)

NumBatches(n) == IF n = 0 THEN 1 ELSE (n + Batch - 1) \div Batch

\* `sealed` is the sequence of entries [weight, ballot] of the sealed voters.
\* A ballot that does not decrypt leaves its weight out of the state.
IngestBatch(s, k, sealed) ==
  LET now == {i \in DOMAIN sealed : k * Batch < i /\ i <= (k + 1) * Batch}
  IN  [s EXCEPT
         !.weights = [i \in DOMAIN @ |-> IF i \notin now THEN @[i]
                                         ELSE IF sealed[i].ballot = << >> THEN 0
                                         ELSE sealed[i].weight],
         !.ballots = [i \in DOMAIN @ |-> IF i \in now THEN sealed[i].ballot ELSE @[i]]]

\* The state after each batch.
IngestChain(m, budget, sealed) ==
  LET chain[k \in 0 .. NumBatches(Len(sealed))] ==
        IF k = 0 THEN EmptyState(m, budget) ELSE IngestBatch(chain[k - 1], k - 1, sealed)
  IN  chain

Ingested(m, budget, sealed) == IngestChain(m, budget, sealed)[NumBatches(Len(sealed))]

Padding(s) == [level |-> s.level, pub |-> [c \in 1 .. s.m |-> 0], best |-> None, total |-> 0]

BugStepByPosition(t, i, transcript) ==
  IF i <= Len(transcript) THEN transcript[i] ELSE Padding(t)

\* The cursor moves with tHash, so it is the number of steps t has taken.
StepAt(t, i, transcript) ==
  LET cursor == Len(t.tHash) + 1
  IN  IF cursor <= Len(transcript) THEN transcript[cursor] ELSE Padding(t)

GroupStep(t, i, costs, transcript) ==
  IF t.broken THEN t ELSE TallyStep(t, costs, StepAt(t, i, transcript))

\* K steps from s: the transcript from where s has got to, padded when it ends.
TallyGroup(s, costs, transcript) ==
  LET state[i \in 0 .. K] ==
        IF i = 0 THEN s ELSE GroupStep(state[i - 1], i, costs, transcript)
  IN  state

NextGroup(s, costs, transcript) ==
  IF s.done \/ s.broken THEN s ELSE TallyGroup(s, costs, transcript)[K]

\* The state after each group; it stays as it is when there is none left.
TallyChain(ingested, costs, transcript) ==
  LET chain[i \in 0 .. Bound(Len(costs))] ==
        IF i = 0 THEN ingested ELSE NextGroup(chain[i - 1], costs, transcript)
  IN  chain
=============================================================================
