------------------------------ MODULE MCWebClient ------------------------------
(***************************************************************************)
(* The web client, one part at a time: two users who propose, review and   *)
(* publish in a round that is being set up, or a voter who casts from two  *)
(* browser tabs once it is open.                                           *)
(***************************************************************************)
EXTENDS ProposalReview, CastVote

CONSTANTS alice, bob, k1, k2, tab1, tab2

VARIABLE part   \* the part that runs

MCUsers         == {alice, bob}
MCOrganizerKeys == {k1, k2}
MCPages         == {tab1, tab2}

Symmetry == Permutations(MCUsers) \cup Permutations(MCOrganizerKeys) \cup Permutations(MCPages)

MCInit ==
  /\ part \in {"review", "voting"}
  /\ Init /\ CastInit
  /\ chain.permits => part = "voting"

MCNext ==
  \/ part = "review" /\ Next /\ UNCHANGED <<part, castVars>>
  \/ part = "voting" /\ CastNext /\ UNCHANGED <<part, vars>>

MCSpec == MCInit /\ [][MCNext]_<<part, vars, castVars>>
=============================================================================
