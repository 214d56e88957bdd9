------------------------------- MODULE MCOffChain ------------------------------
(***************************************************************************)
(* The services beside the chain, one at a time: the worker that stores    *)
(* the ballots of two pools on Arkiv, or the snapshot cache with three     *)
(* users of two pools.                                                     *)
(***************************************************************************)
EXTENDS BallotStorage, Snapshots

VARIABLE service   \* the service that runs

MCPools  == <<"p", "q">>
MCPoolOf == [c \in Clients |-> IF c = "c" THEN "q" ELSE "p"]

MCInit == service \in {"storage", "snapshots"} /\ SyncInit /\ ApiInit

MCNext ==
  \/ service = "storage" /\ SyncNext /\ UNCHANGED <<service, apiVars>>
  \/ service = "snapshots" /\ ApiNext /\ UNCHANGED <<service, syncVars>>

MCFairSpec ==
  /\ MCInit /\ [][MCNext]_<<service, syncVars, apiVars>>
  /\ service = "storage" => SyncFairness
  /\ service = "snapshots" => ApiFairness
=============================================================================
