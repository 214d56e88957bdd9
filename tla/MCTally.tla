------------------------------- MODULE MCTally -------------------------------
(***************************************************************************)
(* Tally on small rounds: every assignment of costs, weights, ballots and  *)
(* abstaining money within the bounds is an initial state.  Renaming the   *)
(* projects only matters to the last tie-break, so costs never increase    *)
(* with the id: a cheaper project then never wins a tie by its id.         *)
(***************************************************************************)
EXTENDS TallyPorts

CONSTANTS
  NumProjects,   \* projects in the round
  MaxCost,       \* costs range over 1..MaxCost
  MinWeight, MaxWeight,   \* weights range over MinWeight..MaxWeight
  MaxAbstaining  \* deposited but never granted

Roster == CHOOSE s \in [1 .. Cardinality(Voter) -> Voter] :
            \A i, j \in DOMAIN s : s[i] = s[j] => i = j

CollectedLedgers ==
  {[voters |-> Roster, weight |-> w, granted |-> g, total |-> g + a] :
     w \in [Voter -> MinWeight .. MaxWeight], a \in 0 .. MaxAbstaining, g \in 0 .. MaxWeight * Cardinality(Voter)}

MCInit ==
  /\ costs \in {f \in [1 .. NumProjects -> 1 .. MaxCost] :
                   \A c \in 1 .. NumProjects - 1 : f[c] >= f[c + 1]}
  /\ ledger \in {L \in CollectedLedgers : L.granted = RosterWeight(L)}
  /\ ballot \in [Voter -> {<< >>} \cup {r \in [1 .. NumProjects -> 0 .. NumProjects] : ValidBallot(r)}]
  /\ defaultRank = [v \in Voter |-> IF ballot[v] = << >> THEN 0 ELSE LastTier(ballot[v])]
  /\ initial = ledger.weight
  /\ TallyInit

MCSpec == MCInit /\ [][TallyNext]_tallySpecVars
=============================================================================
