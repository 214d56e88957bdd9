----------------------------- MODULE ProverService -----------------------------
(***************************************************************************)
(* The prove service, prover/src/service/index.ts, with --submit: it runs  *)
(* runChain for whoever asks, one job at a time, and remembers which jobs  *)
(* of a pool are under way, done or recently failed.  A job that overruns  *)
(* its time is failed and the next one starts, but its promise goes on     *)
(* proving and sending.  The operator may use the command line, too.       *)
(*                                                                         *)
(* The maps are shown as they are for one pool.  The jobs of other pools   *)
(* only delay its own, and push its finished jobs out of the service's     *)
(* memory; a restart of the service forgets everything.                    *)
(***************************************************************************)
EXTENDS Prover

CONSTANT ServiceRun   \* the runs of the service; the others are the command line's

NoRun == "none"

VARIABLES
  job,       \* jobsByPool: "none", or its job is "queued" or "running"
  done,      \* doneJobsByKey has a job
  failed,    \* failedByPool has a job, less than FAILURE_COOLDOWN_MS old
  current    \* the run the worker waits for, or NoRun

jobVars == <<job, done, failed, current>>
vars    == <<noirVars, proverVars, jobVars>>

ServiceInit ==
  job = "none" /\ done = FALSE /\ failed = FALSE /\ current = NoRun

Init == NoirInit /\ ProverInit /\ ServiceInit

\* POST /prove for a closed pool: a job that is done, under way or has just
\* failed is the answer; otherwise a new one is queued.
Post ==
  /\ closed
  /\ ~done /\ job = "none" /\ ~failed
  /\ job' = "queued"
  /\ UNCHANGED <<noirVars, proverVars, done, failed, current>>

\* The worker shifts the queue; runJob starts from a snapshot.
WorkerTakes ==
  /\ job = "queued"
  /\ \E r \in ServiceRun : Start(r) /\ current' = r
  /\ job' = "running"
  /\ UNCHANGED <<done, failed>>

\* What the worker does when its race is decided, one way or the other.
Finish(succeeded) ==
  /\ done' = (done \/ succeeded) /\ failed' = ~succeeded
  /\ job' = "none"
  /\ current' = NoRun

Settles ==
  /\ current # NoRun
  /\ runs[current].pc \in {"over", "failed"}
  /\ Finish(runs[current].pc = "over")
  /\ Again(current)

\* The timer wins the race; the run goes on without a job.
TimesOut ==
  /\ current # NoRun
  /\ runs[current].pc \notin {"over", "failed"}
  /\ Finish(FALSE)
  /\ UNCHANGED <<noirVars, proverVars>>

OverdueEnds(r) ==
  /\ r # current
  /\ Again(r)
  /\ UNCHANGED jobVars

CooldownEnds ==
  /\ failed
  /\ failed' = FALSE
  /\ UNCHANGED <<noirVars, proverVars, job, done, current>>

\* evictOldJobs, because of the jobs of other pools: finished ones go.
Evicted ==
  /\ \/ done /\ done' = FALSE /\ UNCHANGED failed
     \/ failed /\ failed' = FALSE /\ UNCHANGED done
  /\ UNCHANGED <<noirVars, proverVars, job, current>>

\* The service restarts; what it was about to send is lost.
Restart ==
  /\ job' = "none" /\ done' = FALSE /\ failed' = FALSE /\ current' = NoRun
  /\ runs' = [r \in Run |-> IF r \in ServiceRun THEN Idle ELSE runs[r]]
  /\ UNCHANGED <<noirVars, published, batched>>

Next ==
  \/ PoolSteps /\ UNCHANGED <<proverVars, jobVars>>
  \/ \E r \in Run : Steps(r) /\ UNCHANGED jobVars
  \/ \E r \in Run \ ServiceRun : (Start(r) \/ Again(r)) /\ UNCHANGED jobVars
  \/ AnyoneAdvances /\ UNCHANGED jobVars
  \/ Post
  \/ WorkerTakes
  \/ Settles
  \/ TimesOut
  \/ \E r \in ServiceRun : OverdueEnds(r)
  \/ CooldownEnds
  \/ Evicted
  \/ Restart

Spec == Init /\ [][Next]_vars

-----------------------------------------------------------------------------

\* "a pool already proven for a given (immutable, post-close) inputsRoot is
\* never re-proven" (service/index.ts:64): a job is remembered as done only if
\* its pool is settled, or could not be by any proof (:106-113).
CachedIsProven ==
  done => finality # "None" \/ (reported # NoReport /\ Groups(reported) = << >>)
=============================================================================
