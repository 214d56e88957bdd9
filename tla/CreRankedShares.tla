---------------------------- MODULE CreRankedShares ----------------------------
(***************************************************************************)
(* A sealed pool that takes its result from a Chainlink CRE workflow,      *)
(* src/src/cre/CreRankedShares.sol, and the workflow that reads the pool   *)
(* and reports to it, creAction in src/cre/src/lp-workflow.ts.  A run of   *)
(* the workflow reads one finalized block; its report arrives whenever the *)
(* forwarder delivers it, possibly again, while anyone calls the pool.     *)
(*                                                                         *)
(* External: the forwarder, which delivers any report it was given to any  *)
(* pool, and Arkiv, which may not serve the payloads.  The tally itself is *)
(* left open: a report carries any list.                                   *)
(* Operators named Bug... are mistakes, not code: see PBEAR.               *)
(***************************************************************************)
EXTENDS SealedPool

CONSTANTS
  CloseChunk,    \* closeChunk of the workflow's configuration
  OtherInputs,   \* the inputsHash of another round, which reports too
  MaxReports     \* bound on different reports in flight

ASSUME CreAssumption == CloseChunk \in Nat \ {0} /\ MaxReports \in Nat

VARIABLE reports   \* reports the forwarder was given; none is ever used up

vars == <<sealedVars, reports>>

Init == SealedInit /\ reports = {}

-----------------------------------------------------------------------------
(* The workflow.                                                           *)

SendReport(r) ==
  /\ r \in reports \/ Cardinality(reports) < MaxReports
  /\ reports' = reports \cup {r}
  /\ UNCHANGED sealedVars

\* The next voters with the payloads their references name.
Page ==
  [i \in 1 .. IF CloseChunk < Remaining THEN CloseChunk ELSE Remaining |->
     [public |-> PublicBallot(NextVoter(i)), sealed |-> SealedBallot(NextVoter(i))]]

ReportClose ==
  /\ phase = "Closing"
  /\ BalanceCovers(ledger.total)
  /\ SendReport(IF arkivBallots
                THEN [kind |-> "closeArkiv", cursor |-> closeCursor, ballots |-> Page]
                ELSE [kind |-> "close", maxVoters |-> CloseChunk])

\* The workflow hashes the roster itself and reports only if it agrees.
ReportResult(order) ==
  /\ phase = "Tally"
  /\ BalanceCovers(ledger.total)
  /\ Commitment(Roster) = inputsHash
  /\ SendReport([kind |-> "result", inputs |-> inputsHash, order |-> order])

\* The same workflow serves other pools through the same forwarder.
ReportElsewhere(order) ==
  SendReport([kind |-> "result", inputs |-> OtherInputs, order |-> order])

-----------------------------------------------------------------------------
(* onReport.                                                               *)

BugTakeAnyResult(r) ==
  /\ r.kind = "result"
  /\ phase = "Tally"
  /\ Finalize(r.order, "Attested")

TakeResult(r) ==
  /\ r.kind = "result"
  /\ phase = "Tally"
  /\ r.inputs = inputsHash
  /\ Finalize(r.order, "Attested")

OnReport(r) ==
  /\ \/ r.kind = "close" /\ Close(r.maxVoters)
     \/ r.kind = "closeArkiv" /\ CloseArkiv(r.cursor, r.ballots)
     \/ TakeResult(r)
  /\ UNCHANGED reports

Next ==
  \/ SealedNext /\ UNCHANGED reports
  \/ ReportClose
  \/ \E order \in Orders : ReportResult(order) \/ ReportElsewhere(order)
  \/ \E r \in reports : OnReport(r)

Spec == Init /\ [][Next]_vars

\* Time passes and abandon is open to anyone.  Neither the workflow nor Arkiv,
\* nor anybody who closes, has to do anything.
FairSpec ==
  /\ Spec
  /\ WF_vars(DeadlineComes /\ UNCHANGED reports)
  /\ WF_vars(GraceEnds /\ UNCHANGED reports)
  /\ WF_vars(Abandon /\ UNCHANGED reports)

-----------------------------------------------------------------------------

\* What an attested round funds was reported for exactly the roster, weights
\* and ballots the pool holds: never for another pool's, and late or repeated
\* reports change nothing.
ResultCountsTheseInputs ==
  finality = "Attested" =>
    \E r \in reports :
      r.kind = "result" /\ r.order = fundedOrder /\ r.inputs = Commitment(Roster)

\* Every opened round is decided, also when the token kept a fee, when nobody
\* closes, when payloads are lost and when no report ever arrives (SealedPool.sol:345-347).
RoundEnds == votingOpen ~> (finality # "None")
=============================================================================
