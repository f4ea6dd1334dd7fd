------------------------------- MODULE WakerNode -------------------------------
(***************************************************************************)
(* The Wakers record of src/map/waker_node.rs: what the shard's `waiters`   *)
(* map keeps for a key that is being computed.  `workers` counts the calls  *)
(* that are computing the value, `wakers` holds the wakers of the calls     *)
(* that want to know when it is there.                                      *)
(*                                                                         *)
(* A waker is the call it wakes.  The Vec is a set here: waking a call      *)
(* twice, or in another order, is no different from waking it once.         *)
(***************************************************************************)
EXTENDS Integers

CONSTANT Calls   \* the calls of get_or_insert and its variants

Wakers == [workers : Nat, wakers : SUBSET Calls]

Start(waker) == [workers |-> 1, wakers |-> {waker}]

JoinWaiter(node, waker) == [node EXCEPT !.wakers = @ \cup {waker}]

(* The waker of a task that no longer polls the call wakes nobody.          *)
LeaveWaiter(node, waker) == [node EXCEPT !.wakers = @ \ {waker}]

JoinWorker(node) == [node EXCEPT !.workers = @ + 1]

(* Mutant: a plain subtraction. *)
RemoveWorkerUnchecked(node) == [node EXCEPT !.workers = @ - 1]

(* checked_sub(1).unwrap_or(0): the count never goes below zero.            *)
RemoveWorker(node) == [node EXCEPT !.workers = IF @ > 0 THEN @ - 1 ELSE 0]
================================================================================
