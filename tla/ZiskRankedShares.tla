--------------------------- MODULE ZiskRankedShares ---------------------------
(***************************************************************************)
(* A sealed pool that takes its result with a proof from anyone,           *)
(* src/src/zisk/ZiskRankedShares.sol.                                      *)
(*                                                                         *)
(* External: the guest, its prover and the verifier.  A proof commits to   *)
(* the inputs it hashed, to the key that belongs to the prover's own       *)
(* secret, and to the list the guest computed from both, Outcome: under    *)
(* another key no ciphertext decrypts.  Anyone can make a proof of any     *)
(* inputs with any key of theirs, at any time, and the verifier accepts it.*)
(* Operators named Bug... are mistakes, not code: see PBEAR.               *)
(***************************************************************************)
EXTENDS SealedPool

CONSTANTS
  Key,            \* public keys somebody has the secret of
  tallierPk,      \* the tallier's, set when the pool was made
  OtherRound,     \* the inputsHash of another round
  Outcome(_, _)   \* external: what the guest computes from inputs and a key's secret

ASSUME KeyAssumption == tallierPk \in Key

\* What the guest commits to.
Committed(inputs, key) == [inputs |-> inputs, key |-> key, order |-> Outcome(inputs, key)]

\* What the proof must have committed to.
ExpectedOutput(order) == [inputs |-> inputsHash, key |-> tallierPk, order |-> order]

BugFinalizeAnyKey(order, proof) ==
  /\ phase = "Tally"
  /\ proof = [ExpectedOutput(order) EXCEPT !.key = proof.key]
  /\ Finalize(order, "Proven")

\* finalize: `order` is the caller's, and so is the choice of the proof.
FinalizeProven(order, proof) ==
  /\ phase = "Tally"
  /\ proof = ExpectedOutput(order)
  /\ Finalize(order, "Proven")

FinalizeByAnyone ==
  \E order \in Orders, inputs \in {inputsHash, OtherRound}, key \in Key :
    FinalizeProven(order, Committed(inputs, key))

ZiskNext == SealedNext \/ FinalizeByAnyone

ZiskSpec == SealedInit /\ [][ZiskNext]_sealedVars

\* A proven round funds what the guest computes, with the tallier's secret,
\* from exactly the roster, weights and ballots the pool holds.  A proof about
\* another round, or of these very ballots under a key that leaves the sealed
\* ones unread, never passes.
FundsProvenOutcome == finality = "Proven" => fundedOrder = Outcome(Commitment(Roster), tallierPk)
=============================================================================
