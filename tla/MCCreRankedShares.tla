--------------------------- MODULE MCCreRankedShares ---------------------------
(***************************************************************************)
(* CreRankedShares on small rounds.                                        *)
(***************************************************************************)
EXTENDS CreRankedShares

CONSTANTS va, vb   \* the voters

MCOneRank == {<<1>>}

MCTwoSealed == {<<7, 1>>, <<8, 1>>}

MCLoneMember == {<<vb>>}

\* Nothing, one project, and lists a pool must refuse: a project twice, and a
\* project that does not exist.  The one project may be too expensive, too.
MCOrders == {<< >>, <<1>>, <<1, 1>>, <<2>>}
MCOtherInputs == [chain |-> << >>, n |-> 0, costs |-> <<1>>, total |-> 0]
=============================================================================
