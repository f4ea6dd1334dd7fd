------------------------------ MODULE MCLightMap ------------------------------
(* Small instances of LightMap for TLC.                                      *)
EXTENDS LightMap, TLC

CONSTANTS k1, k2

(* The keys share a shard when there is but one. *)
MCHash == k1 :> 4 @@ k2 :> 7

(* One shard; two, with an estimate that does not divide evenly; four, first *)
(* of all by default, with an estimate that leaves a remainder of three.     *)
MCBuilders ==
  {WithShards(NewBuilder, 0),
   WithEstimate(WithShards(NewBuilder, 2), 5),
   WithCapacity(7)}
================================================================================
