------------------------------ MODULE RecencyList ------------------------------
(***************************************************************************)
(* What a policy wants of its arena: the keys it tracks in the order of     *)
(* their last use, most recent first.                                       *)
(***************************************************************************)
EXTENDS Sequences, Integers

CONSTANT Keys

VARIABLE order   \* a sequence of distinct keys

Without(r) == [p \in 1 .. Len(order) - 1 |-> order[IF p < r THEN p ELSE p + 1]]

RecencyInit == order = <<>>

(* A key that is used comes first, if it is new or from where it was. *)
UseNew(k) == (\A p \in DOMAIN order : order[p] # k) /\ order' = <<k>> \o order

UseAgain(k) == \E r \in DOMAIN order : order[r] = k /\ order' = <<k>> \o Without(r)

Forget(k) == \E r \in DOMAIN order : order[r] = k /\ order' = Without(r)

RecencyNext == \E k \in Keys : UseNew(k) \/ UseAgain(k) \/ Forget(k)

RecencySpec == RecencyInit /\ [][RecencyNext]_order
================================================================================
