-------------------------- MODULE MCZiskRankedShares --------------------------
(***************************************************************************)
(* ZiskRankedShares on small rounds.                                       *)
(***************************************************************************)
EXTENDS ZiskRankedShares

CONSTANTS va, vb   \* the voters

\* Two rankings of one project, and one for two projects.
MCRanks == {<<1>>, <<0>>, <<1, 2>>}

\* Ciphertexts for one project; <<7>> lacks the ranks.
MCShortSealed == {<<7, 1>>, <<7>>}

MCMembers == {<<va, vb, va>>}
MCOrders == {<< >>, <<1>>}

\* The sealed inputs another round closed with.
MCOtherRound ==
  [chain |-> <<[voter |-> va, direct |-> 1, seat |-> 0, public |-> <<1>>, sealed |-> << >>]>>,
   n |-> 1, costs |-> <<1>>, total |-> 1]

\* Any function of the inputs will do; with this one a single vote for the
\* project decides, and one in a ciphertext is read with the right key only.
MCOutcome(inputs, key) ==
  IF inputs.total >= 1 /\ \E i \in DOMAIN inputs.chain :
       \/ inputs.chain[i].public = <<1>>
       \/ key = tallierPk /\ inputs.chain[i].sealed = <<7, 1>>
  THEN <<1>> ELSE << >>
=============================================================================
