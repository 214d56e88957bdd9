------------------------------- MODULE MCProver -------------------------------
(***************************************************************************)
(* Prover on small rounds: either a whole round that nobody proves, or one *)
(* that has just closed on up to three sealed ballots and whose operator   *)
(* has several runs under way.                                             *)
(***************************************************************************)
EXTENDS Prover

CONSTANTS va, vb, vc   \* the voters

\* "other" parts from "true" after one group and names the same projects;
\* "bad" does not replay.
MCGroups(t) ==
  CASE t = "true" -> <<"a", "b", "d">> [] t = "other" -> <<"a", "c", "e">> [] t = "bad" -> << >>

MCOrderOf(t) == IF t = "bad" THEN << >> ELSE <<1>>

MCOtherRoot == [pub |-> << >>, sealed |-> << >>, n |-> -1]

Unproven ==
  /\ NoirInit
  /\ batched = FALSE /\ published = {}
  /\ runs = [r \in Run |-> [Idle EXCEPT !.pc = "absent"]]

\* Every voter holds a seat; the first also voted in public, and the first n
\* with their seats.
JustClosed ==
  LET roster == <<va, vb, vc>>
      none == [pub |-> << >>, chain |-> << >>, j |-> 0,
               checkpoint |-> [k \in 0 .. MaxBatches |-> << >>]]
      all  == WalkVoter(WalkVoter(WalkVoter(none, va), vb), vc)
  IN  /\ voters = roster /\ hasDirect = {va} /\ seatWeight = [v \in Voter |-> 1]
      /\ sealedCount \in 0 .. 3
      /\ sealed = [v \in Voter |-> IF \E i \in 1 .. sealedCount : roster[i] = v THEN "x" ELSE NoVote]
      /\ pastDeadline = TRUE /\ pastProofGrace = FALSE /\ pastAbandonGrace = FALSE
      /\ closed = TRUE /\ closeCursor = 3 /\ numBatches = Total
      /\ hPub = all.pub /\ hSealed = all.chain /\ sealedCursor = all.j /\ checkpoint = all.checkpoint
      /\ ingestCursor = 0 /\ stateCommit = NoState /\ ingestedState = NoState
      /\ reported = NoReport /\ finality = "None" /\ fundedOrder = << >>
      /\ ProverInit

MCInit == Unproven \/ JustClosed

MCFairSpec ==
  MCInit /\ [][ProverNext]_<<noirVars, proverVars>> /\ ProverFairness
=============================================================================
