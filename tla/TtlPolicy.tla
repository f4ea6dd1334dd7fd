------------------------------- MODULE TtlPolicy -------------------------------
(***************************************************************************)
(* src/policy/ttl.rs: keys expire a fixed time after their last insert.     *)
(* The arena is ordered by that time, so prune looks at its tail only.      *)
(* expires[k] stands for the `creation` of k's node, plus the ttl.          *)
(***************************************************************************)
EXTENDS PolicyCache

ASSUME TtlAssumption == Ttl \in Nat

(* while let Some(tail): the tail's should_evict. *)
Due == arena.tail # None /\ Expired(arena.nodes[arena.tail].item)

TtlPruneOne(t) ==
  /\ pc[t] = "pruning"
  /\ Due
  /\ Evict(t, arena.nodes[arena.tail].item, arena.tail)
  /\ UNCHANGED <<pc, op, key, born, now, alone>>

(* prune is over and the operation goes on. *)
Pruned(t, o) == pc[t] = "pruning" /\ op[t] = o /\ ~Due

(* Mutant: get takes the mutex without pruning. *)
TtlGetUnpruned(t) ==
  /\ pc[t] = "pruning"
  /\ op[t] = "get"
  /\ Return(t)
  /\ UNCHANGED <<table, arena, expires, now, crossed, alone>>

(* LightCache::prune drops the mutex; TtlPolicy::get reads the map first. *)
TtlGet(t) ==
  /\ Pruned(t, "get")
  /\ Return(t)
  /\ UNCHANGED <<table, arena, expires, now, crossed, alone>>

TtlPrune(t) ==
  /\ Pruned(t, "prune")
  /\ Return(t)
  /\ UNCHANGED <<table, arena, expires, now, crossed, alone>>

(* Mutant: a key that is inserted again keeps its place in the list. *)
TtlInsertInPlace(t) ==
  /\ Pruned(t, "insert")
  /\ IF key[t] \in Items(arena)
     THEN UNCHANGED <<arena, alone>>
     ELSE Enter(key[t])
  /\ expires' = [expires EXCEPT ![key[t]] = now + Ttl]
  /\ Cross(t, key[t])
  /\ born' = [born EXCEPT ![t] = now]
  /\ Goto(t, "inserting")
  /\ UNCHANGED <<table, op, key, now>>

(* The node's creation is now and it becomes the head, or a new node does. *)
TtlInsert(t) ==
  /\ Pruned(t, "insert")
  /\ IF key[t] \in Items(arena)
     THEN Touch(key[t])
     ELSE Enter(key[t])
  /\ expires' = [expires EXCEPT ![key[t]] = now + Ttl]
  /\ Cross(t, key[t])
  /\ born' = [born EXCEPT ![t] = now]
  /\ Goto(t, "inserting")
  /\ UNCHANGED <<table, op, key, now>>

TtlRemove(t) ==
  /\ Pruned(t, "remove")
  /\ arena' = RemoveItem(arena, key[t])
  /\ expires' = [expires EXCEPT ![key[t]] = None]
  /\ Cross(t, key[t])
  /\ Goto(t, "removing")
  /\ UNCHANGED <<table, op, key, born, now, alone>>

Next ==
  \/ \E t \in Threads, o \in Ops, k \in Keys \cup {None} : Begin(t, o, k)
  \/ \E t \in Threads : \/ TtlPruneOne(t) \/ TtlGet(t) \/ TtlPrune(t)
                        \/ TtlInsert(t) \/ TtlRemove(t)
                        \/ InsertNoPolicy(t) \/ RemoveNoPolicy(t)
  \/ Tick

Spec == Init /\ [][Next]_vars

-------------------------------------------------------------------------------

(* The list is ordered by age: whoever is behind an expired key has expired *)
(* too, so that looking at the tail is enough.                              *)
OldestLast ==
  LET order == Order(arena)
  IN  \A m, n \in DOMAIN order : m < n => expires[order[m]] >= expires[order[n]]

Fresh == \A k \in Keys : table[k] # None => table[k] + Ttl >= now

(* When the loop of prune ends there is no expired value in the map        *)
(* (cache.rs:197), so that get returns none and prune leaves none.          *)
PruneLeavesFresh == (\E t \in Threads : pc[t] = "pruning") /\ ~Due => Fresh

(* That is so, whatever the threads do with other keys, of every key whose  *)
(* last change has reached the map, as long as no key is inserted again     *)
(* while it is the only one.                                                *)
PruneRemovesExpired ==
  ~alone /\ (\E t \in Threads : pc[t] = "pruning") /\ ~Due
    => \A k \in Keys : Settled(k) /\ table[k] # None => table[k] + Ttl >= now
================================================================================
