---------------------------- MODULE MCBallotStorage ----------------------------
(* BallotStorage for two pools.                                            *)
EXTENDS BallotStorage

MCPools == <<"p", "q">>
=============================================================================
