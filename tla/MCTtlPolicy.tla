------------------------------ MODULE MCTtlPolicy ------------------------------
(* Small instances of TtlPolicy for TLC.                                     *)
EXTENDS TtlPolicy, TLC

Symmetry == Permutations(Keys) \cup Permutations(Threads)
================================================================================
