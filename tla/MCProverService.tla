--------------------------- MODULE MCProverService ---------------------------
(***************************************************************************)
(* ProverService on a pool that has just closed on one sealed ballot.      *)
(***************************************************************************)
EXTENDS ProverService

CONSTANT va   \* the voter

MCGroups(t) == <<"a", "b">>

MCOrderOf(t) == <<1>>

MCOtherRoot == [pub |-> << >>, sealed |-> << >>, n |-> -1]

JustClosed ==
  LET none == [pub |-> << >>, chain |-> << >>, j |-> 0,
               checkpoint |-> [k \in 0 .. MaxBatches |-> << >>]]
      all  == WalkVoter(none, va)
  IN  /\ voters = <<va>> /\ hasDirect = {} /\ seatWeight = [v \in Voter |-> 1]
      /\ sealedCount = 1 /\ sealed = [v \in Voter |-> "x"]
      /\ pastDeadline = TRUE /\ pastProofGrace = FALSE /\ pastAbandonGrace = FALSE
      /\ closed = TRUE /\ closeCursor = 1 /\ numBatches = Total
      /\ hPub = all.pub /\ hSealed = all.chain /\ sealedCursor = all.j /\ checkpoint = all.checkpoint
      /\ ingestCursor = 0 /\ stateCommit = NoState /\ ingestedState = NoState
      /\ reported = NoReport /\ finality = "None" /\ fundedOrder = << >>
      /\ ProverInit

MCSpec == JustClosed /\ ServiceInit /\ [][Next]_vars
=============================================================================
