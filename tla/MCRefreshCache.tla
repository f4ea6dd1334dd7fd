---------------------------- MODULE MCRefreshCache ----------------------------
(* Small instances of RefreshCache for TLC.                                  *)
EXTENDS RefreshCache, TLC

MCShards == [k \in Keys |-> 0]
================================================================================
