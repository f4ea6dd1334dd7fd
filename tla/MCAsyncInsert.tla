----------------------------- MODULE MCAsyncInsert -----------------------------
(* Small instances of AsyncInsert for TLC.                                   *)
EXTENDS AsyncInsert, TLC

(* All keys are in one shard, where they wait for each other's mutex. *)
MCShards == [k \in Keys |-> 0]

(* Calls of the same kind are interchangeable. *)
CallSymmetry == Permutations(CoopCalls) \cup Permutations(RaceCalls)
================================================================================
