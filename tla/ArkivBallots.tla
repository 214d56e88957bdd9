----------------------------- MODULE ArkivBallots -----------------------------
(***************************************************************************)
(* Ballots kept outside the pool, src/src/ArkivBallots.sol.  The pool      *)
(* stores the hash of the accepted payload and a revision number; whoever  *)
(* runs the tally presents the payloads.  keccak256 is taken to be         *)
(* collision-free, so a reference holds the payload itself.                *)
(* Operators named Bug... are mistakes, not code: see PBEAR.               *)
(***************************************************************************)
EXTENDS Integers

VARIABLES
  arkivBallots,  \* selected once, before voting opens
  publicRefs     \* _publicRefs: [payload, revision] of each voter

arkivVars == <<arkivBallots, publicRefs>>

NoRef == [payload |-> << >>, revision |-> 0]

\* A caller that saw another revision than the stored one is refused.
StoreBallot(v, payload, expectedRevision) ==
  /\ arkivBallots
  /\ publicRefs[v].revision = expectedRevision
  /\ publicRefs' = [publicRefs EXCEPT ![v] =
                      [payload |-> payload, revision |-> @.revision + 1]]
  /\ UNCHANGED arkivBallots

BugCheckAbsence(v, payload) == payload \in {<< >>, publicRefs[v].payload}

\* The payload a caller presents for v is the accepted one.
CheckBallot(v, payload) ==
  IF publicRefs[v].revision = 0 THEN payload = << >> ELSE payload = publicRefs[v].payload
=============================================================================
