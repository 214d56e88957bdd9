-------------------------------- MODULE Prover --------------------------------
(***************************************************************************)
(* The prover of the Noir pool: runChain of prover/src/core/submit.ts, as  *)
(* the command line and the service run it, several times and at the same  *)
(* time, with the coordinator's account and the tallier's key.  A run works*)
(* from a snapshot of one block and reads the pool again only where the    *)
(* code does; what it sends may meet a pool that others have moved.        *)
(*                                                                         *)
(* Proving is pure and takes as long as it likes, so a proof appears when  *)
(* it is sent.  A proof that was sent is public: anyone may send it again. *)
(* Operators named Bug... are mistakes, not code: see PBEAR.               *)
(***************************************************************************)
EXTENDS NoirRankedShares

CONSTANTS
  Run,              \* the runs that may be under way at once
  TrueTranscript    \* what pbearTranscript computes from the ballots

ASSUME ProverAssumption == TrueTranscript \in Transcripts

VARIABLES
  runs,         \* what each run has read and is about to do
  published,    \* the proofs that were ever sent
  batched       \* the --batch option, the same for every run

proverVars == <<runs, published, batched>>

Idle == [pc |-> "idle", k |-> 0, transcript |-> NoReport, g |-> 0, restart |-> FALSE, pending |-> << >>]

ProverInit ==
  /\ runs = [r \in Run |-> Idle]
  /\ published = {}
  /\ batched \in BOOLEAN

-----------------------------------------------------------------------------
(* The plan, rebuilt from the snapshot: the roster does not change any     *)
(* more, and a transcript that is not reported yet is computed.            *)

Total == IF sealedCount = 0 THEN 1 ELSE (sealedCount + Batch - 1) \div Batch

StateAfter(k, groups) ==
  IF k = 0 THEN NoState
  ELSE [batches |-> k, sealed |-> SubSeq(SealedRoster, 1, Min2(k * Batch, sealedCount)), groups |-> groups]

IngestProof(k) ==
  [kind |-> "ingest", about |-> ThisRound, k |-> k, n |-> sealedCount, hIn |-> checkpoint[k], hOut |-> checkpoint[k + 1],
   stateIn |-> StateAfter(k, << >>), stateOut |-> StateAfter(k + 1, << >>)]

\* The state the groups before g of a transcript lead to, g counting from 0.
Reaches(t, g) == StateAfter(Total, SubSeq(Groups(t), 1, g))

\* The proof that takes the state one group further, to `groups`.
TallyProof(groups) ==
  LET whole == {t \in Transcripts : Groups(t) = groups}
  IN  [kind |-> "tally", about |-> ThisRound, stateIn |-> StateAfter(Total, SubSeq(groups, 1, Len(groups) - 1)),
       stateOut |-> StateAfter(Total, groups), done |-> whole # {},
       order |-> IF whole = {} THEN << >> ELSE OrderOf(CHOOSE t \in whole : TRUE)]

\* A proof of this pool is known by the batch it takes in or by the groups it ends with.
Batch_(k)       == [batch |-> k + 1, groups |-> << >>]
Group_(t, g)    == [batch |-> 0, groups |-> SubSeq(Groups(t), 1, g + 1)]
ProofOf(name)   == IF name.batch > 0 THEN IngestProof(name.batch - 1) ELSE TallyProof(name.groups)
ProofsOf(names) == [i \in DOMAIN names |-> ProofOf(names[i])]

Matching(onChain, t) == {g \in 0 .. Len(Groups(t)) - 1 : Reaches(t, g) = onChain}

BugPlanTally(onChain, t) ==
  IF Matching(onChain, t) = {} THEN [g |-> 0, restart |-> FALSE]
  ELSE [g |-> CHOOSE g \in Matching(onChain, t) : TRUE, restart |-> FALSE]

\* planTally: resume where the chain stands, or start over.  Nothing that calls
\* runChain sets opts.restart, and resultReported, which the code reads just
\* before, never becomes false again.
PlanTally(onChain, t) ==
  IF Matching(onChain, t) = {} THEN [g |-> 0, restart |-> TRUE]
  ELSE [g |-> CHOOSE g \in Matching(onChain, t) : TRUE, restart |-> FALSE]

-----------------------------------------------------------------------------
(* A run.  It ends "over", with nothing more to do, or "failed".           *)

Set(r, run) == runs' = [runs EXCEPT ![r] = run]

\* readPoolSnapshot, at one block; what cannot change any more is left out.
Snapshot == [ingestCursor |-> ingestCursor, transcript |-> reported]

\* The transcript a plan is made for.
Planned(s) == IF s.transcript = NoReport THEN TrueTranscript ELSE s.transcript

\* The snapshot of a closed pool, and the first look at its finality.
Start(r) ==
  /\ runs[r].pc = "idle"
  /\ closed
  /\ Set(r, IF finality # "None" THEN [Idle EXCEPT !.pc = "over"]
            ELSE [Idle EXCEPT !.pc = IF Snapshot.ingestCursor < numBatches THEN "ingest" ELSE "plan",
                              !.k = Snapshot.ingestCursor,
                              !.transcript = Planned(Snapshot)])
  /\ UNCHANGED <<noirVars, published, batched>>

\* Sending proofs as the coordinator: they are accepted, or the run fails.  A
\* run that finds the round finished just before it sends ends without sending.
Send(r, names, restart, next) ==
  \/ /\ AdvanceMany(ProofsOf(names), restart, TRUE)
     /\ published' = published \cup Range(names)
     /\ Set(r, next)
  \/ /\ ~Accepts(ProofsOf(names), restart, TRUE)
     /\ published' = published \cup Range(names)
     /\ Set(r, [Idle EXCEPT !.pc = "failed"])
     /\ UNCHANGED noirVars
  \/ /\ finality # "None"
     /\ Set(r, [Idle EXCEPT !.pc = "over"])
     /\ UNCHANGED <<noirVars, published>>

\* The next batch of sealed ballots; a batched run proves them all.
IngestStep(r) ==
  LET run  == runs[r]
      next == [run EXCEPT !.k = @ + 1, !.pc = IF run.k + 1 = Total THEN "plan" ELSE "ingest"]
  IN  /\ run.pc = "ingest"
      /\ IF batched
         THEN /\ Set(r, [run EXCEPT !.pending = [i \in 1 .. Total - run.k |-> Batch_(run.k + i - 1)],
                                    !.pc = "plan"])
              /\ UNCHANGED <<noirVars, published>>
         ELSE Send(r, <<Batch_(run.k)>>, FALSE, next)
      /\ UNCHANGED batched

\* Whether there is a tally to prove, and from where: read from the pool again.
PlanStep(r) ==
  LET run  == runs[r]
      plan == PlanTally(stateCommit, run.transcript)
      none == Groups(run.transcript) = << >> \/ reported = NoReport
      over == [Idle EXCEPT !.pc = "over"]
  IN  /\ run.pc = "plan"
      /\ Set(r, IF none THEN (IF run.pending = << >> THEN over ELSE [run EXCEPT !.pc = "flush"])
                ELSE IF stateCommit = Reaches(run.transcript, Len(Groups(run.transcript))) THEN over
                ELSE IF batched
                THEN [run EXCEPT !.pc = "flush", !.restart = plan.restart,
                                 !.pending = @ \o [i \in 1 .. Len(Groups(run.transcript)) - plan.g |->
                                                   Group_(run.transcript, plan.g + i - 1)]]
                ELSE [run EXCEPT !.pc = "tally", !.g = plan.g, !.restart = plan.restart])
      /\ UNCHANGED <<noirVars, published, batched>>

TallyStep(r) ==
  LET run  == runs[r]
      last == run.g + 1 = Len(Groups(run.transcript))
  IN  /\ run.pc = "tally"
      /\ Send(r, <<Group_(run.transcript, run.g)>>, run.restart,
              IF last THEN [Idle EXCEPT !.pc = "over"] ELSE [run EXCEPT !.g = @ + 1, !.restart = FALSE])
      /\ UNCHANGED batched

Flush(r) ==
  /\ runs[r].pc = "flush"
  /\ Send(r, runs[r].pending, runs[r].restart, [Idle EXCEPT !.pc = "over"])
  /\ UNCHANGED batched

Steps(r) == IngestStep(r) \/ PlanStep(r) \/ TallyStep(r) \/ Flush(r)

\* The operator runs the command again.
Again(r) ==
  /\ runs[r].pc \in {"over", "failed"}
  /\ Set(r, Idle)
  /\ UNCHANGED <<noirVars, published, batched>>

\* External: what a stranger can prove.  With another key or other costs each of
\* the circuits gives a valid proof that fits in the chain, but leads to a state
\* in which no ballot is read.
Misread(state) ==
  [state EXCEPT !.sealed = [i \in DOMAIN @ |-> [@[i] EXCEPT !.ciphertext = NoVote]]]
Foreign(p) == [p EXCEPT !.about = OtherRound, !.stateOut = Misread(@)]
ForeignProofs ==
  {Foreign(IngestProof(k)) : k \in 0 .. numBatches - 1}
  \cup {Foreign(TallyProof(SubSeq(Groups(reported), 1, g))) :
          g \in IF reported = NoReport THEN {} ELSE 1 .. Len(Groups(reported))}

\* Anyone sends a public proof once more, or a foreign one, with or without
\* asking to restart.
AnyoneAdvances ==
  /\ \E p \in {ProofOf(name) : name \in published} \cup ForeignProofs, restart \in BOOLEAN :
       AdvanceMany(<<p>>, restart, FALSE)
  /\ UNCHANGED proverVars

ProverNext ==
  \/ PoolSteps /\ UNCHANGED proverVars
  \/ \E r \in Run : Start(r) \/ Steps(r) \/ Again(r)
  \/ AnyoneAdvances

ProverSpec == NoirInit /\ ProverInit /\ [][ProverNext]_<<noirVars, proverVars>>

\* The operator keeps every run going; nobody has to do anything else.  A run
\* of a closed pool can always take its next step, so this is weak fairness of
\* Start, Steps and Again, without the ENABLED that TLC would have to compute.
Moves(r) == runs'[r] # runs[r]

CanMove(r) == closed /\ runs[r].pc # "absent"

ProverFairness == \A r \in Run : <>[]CanMove(r) => []<><<Moves(r)>>_<<noirVars, proverVars>>

-----------------------------------------------------------------------------

\* Proofs sent as one batch get there in the end, whoever replays older proofs
\* in between, also after a run that began before the report led the chain
\* astray: nothing outsiders can do makes every batch arrive too late.
BatchesGetThere ==
  (batched /\ reported # NoReport /\ Groups(reported) # << >>) ~> (finality # "None")
=============================================================================
