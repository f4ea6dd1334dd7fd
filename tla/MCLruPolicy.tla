------------------------------ MODULE MCLruPolicy ------------------------------
(* Small instances of LruPolicy for TLC.                                     *)
EXTENDS LruPolicy, TLC

Symmetry == Permutations(Keys) \cup Permutations(Threads)
================================================================================
