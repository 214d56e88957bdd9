-------------------------------- MODULE Ports --------------------------------
(***************************************************************************)
(* The other implementations of the PB-EAR tally: shared/pbear.ts (browser,*)
(* CRE workflows and prover), reference/pbear.py (the oracle of the tests) *)
(* and the Rust crate the ZisK guest runs, with the guest's own assembly   *)
(* of its input.  The contract is the definition; whether these agree with *)
(* it is for MCTally to say.                                               *)
(*                                                                         *)
(* All of them loop over arrays where PBEAR.sol loops over storage.  An    *)
(* entry is [weight, ballot], `ballot` being << >> for none.  A step of a  *)
(* transcript is [level, pub, best, total]; `best` is None where the code  *)
(* writes 2^64 - 1.  A tally is done in at most Bound(m) iterations; what  *)
(* throws or asserts in the code is the result Refused.                    *)
(***************************************************************************)
EXTENDS Integers, Sequences, FiniteSets, PrefixSums

None    == 0
Refused == [refused |-> TRUE]

Bound(m) == 2 * m + 1

\* f where S has something to say, nothing elsewhere.
On(f, S) == [i \in DOMAIN f |-> IF i \in S THEN f[i] ELSE 0]

SumOver(f, S) == Sum(On(f, S), Len(f))

\* The indices 1 .. n that are in S, in order, as the loops list them.
ListedUpTo(n, S) ==
  LET upTo[i \in 0 .. n] ==
        IF i = 0 THEN << >>
        ELSE IF i \in S THEN Append(upTo[i - 1], i) ELSE upTo[i - 1]
  IN  upTo

Ordered(n, S) == ListedUpTo(n, S)[n]

-----------------------------------------------------------------------------
(* Ballots: shared/ranks.ts and its two siblings.                          *)

Validate(ranks, m) ==
  /\ Len(ranks) = m
  /\ \A c \in 1 .. m : ranks[c] \in 0 .. m
  /\ LET count(r) == Cardinality({c \in 1 .. m : ranks[c] = r})
         seen(r)  == Cardinality({c \in 1 .. m : ranks[c] \in 1 .. r - 1})
     IN  \A r \in 1 .. m : count(r) # 0 => r = seen(r) + 1

EffectiveRanks(ranks) ==
  LET default == 1 + Cardinality({c \in DOMAIN ranks : ranks[c] # 0})
  IN  [c \in DOMAIN ranks |-> IF ranks[c] = 0 THEN default ELSE ranks[c]]

RanksOf(entries) ==
  [i \in DOMAIN entries |->
     IF entries[i].ballot = << >> THEN << >> ELSE EffectiveRanks(entries[i].ballot)]

AllValid(entries, m) ==
  \A i \in DOMAIN entries : entries[i].ballot # << >> => Validate(entries[i].ballot, m)

-----------------------------------------------------------------------------
(* One iteration, common to the ports.  A run is a record of what its   *)
(* loop keeps: weights, funded (in order), spent, level, done, and, where  *)
(* there is one, the transcript written so far or whether it reads well.   *)

IsFunded(run, c) == \E k \in DOMAIN run.funded : run.funded[k] = c

Supporters(run, ranks, indices, c) ==
  {i \in indices : ranks[i] # << >> /\ run.weights[i] # 0 /\ ranks[i][c] <= run.level}

SupportOf(run, ranks, indices, costs) ==
  [c \in DOMAIN costs |->
     IF IsFunded(run, c) THEN 0
     ELSE SumOver(run.weights, Supporters(run, ranks, indices, c))]

BugBetterTieToLast(sum, costs, c, best) == best = None \/ sum[c] >= sum[best]

\* A later project displaces an earlier one only when it is strictly better.
Better(sum, costs, c, best) ==
  \/ best = None
  \/ sum[c] > sum[best]
  \/ sum[c] = sum[best] /\ costs[c] < costs[best]

Displaces(run, sum, costs, c, best) ==
  ~IsFunded(run, c) /\ sum[c] >= costs[c] /\ Better(sum, costs, c, best)

\* One pass by id: the best of the first c projects.
BestUpTo(run, sum, costs) ==
  LET best[c \in 0 .. Len(costs)] ==
        IF c = 0 THEN None
        ELSE LET before == best[c - 1]
             IN  IF Displaces(run, sum, costs, c, before) THEN c ELSE before
  IN  best

Argmax(run, sum, costs) == BestUpTo(run, sum, costs)[Len(costs)]

\* The deductions of `supporters` when `start` of the support stands before them.
CumulativeDeductions(weights, supporters, thr, total, start) ==
  LET cum == PrefixSum([k \in DOMAIN supporters |-> weights[supporters[k]]], Len(supporters))
  IN  [k \in DOMAIN supporters |->
         ((start + cum[k]) * thr) \div total - ((start + cum[k - 1]) * thr) \div total]

Deduct(weights, supporters, deductions) ==
  [i \in DOMAIN weights |->
     IF \E k \in DOMAIN supporters : supporters[k] = i
     THEN weights[i] - deductions[CHOOSE k \in DOMAIN supporters : supporters[k] = i]
     ELSE weights[i]]

Exhausted(run, costs, budget) ==
  \A c \in DOMAIN costs : IsFunded(run, c) \/ run.spent + costs[c] > budget

\* `supporters` is the set of indices that pay.
Fund(run, supporters, c, costs, total, start) ==
  LET listed == Ordered(Len(run.weights), supporters)
  IN  [run EXCEPT
         !.weights = Deduct(@, listed, CumulativeDeductions(@, listed, costs[c], total, start)),
         !.funded  = Append(@, c),
         !.spent   = @ + costs[c]]

NewRun(entries) ==
  [weights |-> [i \in DOMAIN entries |-> entries[i].weight],
   funded |-> << >>, spent |-> 0, level |-> 1, done |-> FALSE, transcript |-> << >>,
   ok |-> TRUE]

-----------------------------------------------------------------------------
(* reference/pbear.py and the Rust crate: one block of entries, the budget *)
(* is everything they weigh plus what abstains.                            *)

OneBlockStep(run, ranks, costs, budget) ==
  LET all  == DOMAIN ranks
      sum  == SupportOf(run, ranks, all, costs)
      best == Argmax(run, sum, costs)
  IN  IF run.done THEN run
      ELSE IF Exhausted(run, costs, budget) THEN [run EXCEPT !.done = TRUE]
      ELSE IF best = None
        THEN IF run.level >= Len(costs) THEN [run EXCEPT !.done = TRUE]
             ELSE [run EXCEPT !.level = @ + 1]
      ELSE Fund(run, Supporters(run, ranks, all, best), best, costs, sum[best], 0)

OneBlockRuns(costs, entries, budget) ==
  LET ranks == RanksOf(entries)
      run[i \in 0 .. Bound(Len(costs))] ==
        IF i = 0 THEN NewRun(entries) ELSE OneBlockStep(run[i - 1], ranks, costs, budget)
  IN  run

\* `pbear` of the reference.
Pbear(costs, entries, abstaining) ==
  LET budget == SumOver(NewRun(entries).weights, DOMAIN entries) + abstaining
  IN  IF ~AllValid(entries, Len(costs)) THEN Refused
      ELSE OneBlockRuns(costs, entries, budget)[Bound(Len(costs))]

\* `tally` of the Rust crate, whose budget must also fit its machine word.
TallyRs(costs, entries, abstaining, word) ==
  LET weigh == SumOver(NewRun(entries).weights, DOMAIN entries)
  IN  IF weigh + abstaining >= word THEN Refused ELSE Pbear(costs, entries, abstaining)

\* A voter's sealedBallot is what its ciphertext decrypts to.
DirectEntries(m, voters) ==
  LET direct == Ordered(Len(voters), {i \in DOMAIN voters :
                  voters[i].directBallot # << >> /\ Validate(voters[i].directBallot, m)})
  IN  [k \in DOMAIN direct |-> [weight |-> voters[direct[k]].directWeight,
                                ballot |-> voters[direct[k]].directBallot]]

DecryptedEntries(m, voters) ==
  LET sealed == Ordered(Len(voters), {i \in DOMAIN voters :
                  voters[i].sealedBallot # << >> /\ Validate(voters[i].sealedBallot, m)})
  IN  [k \in DOMAIN sealed |-> [weight |-> voters[sealed[k]].seatWeight,
                                ballot |-> voters[sealed[k]].sealedBallot]]

BugSealedFirst(m, voters) == DecryptedEntries(m, voters) \o DirectEntries(m, voters)

\* Direct ballots first, then every ciphertext that decrypts to a valid ballot.
GuestEntries(m, voters) == DirectEntries(m, voters) \o DecryptedEntries(m, voters)

\* `run` of the ZisK guest: all other weight abstains.
GuestRun(costs, voters, totalWeight, word) ==
  LET m       == Len(costs)
      entries == GuestEntries(m, voters)
      voting  == SumOver(NewRun(entries).weights, DOMAIN entries)
  IN  IF m = 0 \/ m > 31 \/ voting > totalWeight THEN Refused
      ELSE TallyRs(costs, entries, totalWeight - voting, word)

-----------------------------------------------------------------------------
(* shared/pbear.ts: the public block, then the sealed block, and the       *)
(* transcript that the public block can be audited against.                *)

BlocksSupport(run, ranks, pubIdx, costs) ==
  LET ps == SupportOf(run, ranks, pubIdx, costs)
      ss == SupportOf(run, ranks, DOMAIN ranks \ pubIdx, costs)
  IN  [c \in DOMAIN costs |-> ps[c] + ss[c]]

TranscriptStep(run, ranks, pubIdx, costs, budget) ==
  LET sum  == BlocksSupport(run, ranks, pubIdx, costs)
      best == Argmax(run, sum, costs)
      step == [level |-> run.level, pub |-> SupportOf(run, ranks, pubIdx, costs), best |-> best,
               total |-> IF best = None THEN 0 ELSE sum[best]]
      next == [run EXCEPT !.transcript = Append(@, step)]
      sup  == Supporters(run, ranks, DOMAIN ranks, best)
  IN  IF run.done THEN run
      ELSE IF Exhausted(run, costs, budget) THEN [run EXCEPT !.done = TRUE]
      ELSE IF best = None
        THEN IF run.level >= Len(costs) THEN [next EXCEPT !.done = TRUE]
             ELSE [next EXCEPT !.level = @ + 1]
      ELSE Fund(next, sup, best, costs, SumOver(run.weights, sup), 0)

TranscriptRuns(costs, pub, sealed, budget) ==
  LET entries == pub \o sealed
      ranks   == RanksOf(entries)
      run[i \in 0 .. Bound(Len(costs))] ==
        IF i = 0 THEN NewRun(entries)
        ELSE TranscriptStep(run[i - 1], ranks, DOMAIN pub, costs, budget)
  IN  run

PbearTranscript(costs, pub, sealed, budget) ==
  LET entries == pub \o sealed
  IN  IF \/ SumOver(NewRun(entries).weights, DOMAIN entries) > budget
         \/ ~AllValid(entries, Len(costs))
      THEN Refused
      ELSE TranscriptRuns(costs, pub, sealed, budget)[Bound(Len(costs))]

\* What the audit asks of a step first: that nothing ended before it, and its
\* level and public supports.  Level None is the code's null.
AuditReads(run, level, pub, expected, costs, budget) ==
  /\ run.ok /\ level = run.level /\ pub = expected
  /\ run.level # None /\ ~Exhausted(run, costs, budget)

\* One step of the audit, which stops at the first that fails; `expected` is
\* the support there is.
AuditStep(run, step, expected, ranks, costs, budget) ==
  LET m == Len(costs)
      b == step.best
      none == \A c \in DOMAIN costs : IsFunded(run, c) \/ step.pub[c] < costs[c]
      fits == /\ b \in 1 .. m /\ ~IsFunded(run, b)
              /\ step.total >= costs[b] /\ step.total >= step.pub[b]
              /\ run.spent + costs[b] <= budget
      read == AuditReads(run, step.level, step.pub, expected, costs, budget)
  IN  IF ~read \/ (IF b = None THEN step.total # 0 \/ ~none ELSE ~fits)
      THEN [run EXCEPT !.ok = FALSE]
      ELSE IF b = None
        THEN [run EXCEPT !.level = IF @ >= m THEN None ELSE @ + 1]
      ELSE Fund(run, Supporters(run, ranks, DOMAIN ranks, b), b, costs, step.total, 0)

ReplayStep(run, step, ranks, costs, budget) ==
  AuditStep(run, step, SupportOf(run, ranks, DOMAIN ranks, costs), ranks, costs, budget)

\* The audit after each step of the transcript.
ReplayRuns(costs, pub, transcript, budget) ==
  LET run[i \in 0 .. Len(transcript)] ==
        IF i = 0 THEN [NewRun(pub) EXCEPT !.ok = AllValid(pub, Len(costs))]
        ELSE ReplayStep(run[i - 1], transcript[i], RanksOf(pub), costs, budget)
  IN  run

ReplayRun(costs, pub, transcript, budget) ==
  ReplayRuns(costs, pub, transcript, budget)[Len(transcript)]

ReplayPublic(costs, pub, transcript, budget) ==
  LET final == ReplayRun(costs, pub, transcript, budget)
  IN  final.ok /\ (final.level = None \/ Exhausted(final, costs, budget))
=============================================================================
