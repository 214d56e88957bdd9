------------------------- MODULE MCLPCreRankedShares -------------------------
(***************************************************************************)
(* LPCreRankedShares on small rounds.                                      *)
(***************************************************************************)
EXTENDS LPCreRankedShares

CONSTANTS va, vb, k1, p1   \* the voters, the v4 pool and a position

MCSealed == {<<7, 1>>}
MCOrders == {<<1>>}
MCOtherInputs == [chain |-> << >>, n |-> 0, costs |-> <<1>>, total |-> 0]

\* Every position is in the one pool; a position is worth more at a higher price.
MCPoolOf(t) == k1
MCValue(liquidity, price) == liquidity * price

\* Each voter starts with one position; ballots stay on chain here (SealedProof
\* and SealedClose have Arkiv rounds).
MCInit ==
  /\ LPSpecInit
  /\ liquidityOf = [t \in Position |-> 1] /\ slot0 = [k \in LPPool |-> 1]
  /\ ownerOf = [t \in Position |-> IF t = p1 THEN va ELSE vb]

MCSpec == MCInit /\ [][LPNext /\ ~arkivBallots']_lpAllVars

\* Time passes, and finalizeLP and close are open to anyone.
MCFairSpec ==
  /\ MCSpec
  /\ WF_lpAllVars(TimePasses)
  /\ WF_lpAllVars(AnyoneFinalizes)
  /\ WF_lpAllVars(AnyoneCloses)
=============================================================================
