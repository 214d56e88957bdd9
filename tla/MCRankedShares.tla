---------------------------- MODULE MCRankedShares ----------------------------
(***************************************************************************)
(* RankedShares on small rounds of two sorts: rounds about seats, with     *)
(* sponsorships, NFTs that change hands and one project, and rounds about  *)
(* money, with ballots in Arkiv, two projects, token fees and donations.   *)
(***************************************************************************)
EXTENDS RankedShares

CONSTANTS va, vb   \* the voters

VARIABLE sort   \* "seats" or "money"

\* Two opposite ballots, an indifferent one, and two that must be refused: a
\* ranking with a gap and one for another number of projects.
MCBallots == {<<1, 2>>, <<0, 1>>, <<2, 2>>, <<1>>}

MCMembers == {<<va>>, <<va, vb, va>>}

Deposited == ledger'.total - ledger.total

SeatRound ==
  /\ costs' \in {<< >>, <<2>>} /\ ~arkivBallots' /\ UNCHANGED <<ballot, donated>>
  /\ Deposited = 0 \/ (Deposited >= 2 /\ balance' = balance + Deposited)

MoneyRound ==
  /\ UNCHANGED seatVars
  /\ Deposited <= 2

MCInit ==
  /\ Init
  /\ sort \in {"seats", "money"}
  /\ sort = "money" => nftOwner = [t \in TokenId |-> va]

MCNext ==
  /\ Next
  /\ IF sort = "seats" THEN SeatRound ELSE MoneyRound
  /\ UNCHANGED sort

MCFairSpec == MCInit /\ [][MCNext]_<<vars, sort>> /\ Fairness
=============================================================================
