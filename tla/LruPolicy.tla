------------------------------- MODULE LruPolicy -------------------------------
(***************************************************************************)
(* src/policy/lru.rs: at most `capacity` keys are kept, those used last;    *)
(* with a ttl, keys also expire a fixed time after their last insert.       *)
(* expires stands for the PriorityQueue of `expiring`, None if a key is not *)
(* in it.                                                                   *)
(***************************************************************************)
EXTENDS PolicyCache

CONSTANT Capacity

ASSUME LruAssumption ==
  /\ Capacity \in Nat /\ Capacity > 1
  /\ Ttl \in Nat \cup {None}

(* pq.peek(): a key with the earliest expiry, which has passed. *)
FirstExpired(k) ==
  /\ Expired(k)
  /\ \A q \in Keys : expires[q] # None => expires[k] <= expires[q]

(* Mutant: the key leaves the queue and the map, not the arena. *)
LruPruneOneQueueOnly(t) ==
  /\ pc[t] = "pruning"
  /\ \E k \in Keys :
       /\ FirstExpired(k)
       /\ table' = [table EXCEPT ![k] = None]
       /\ expires' = [expires EXCEPT ![k] = None]
       /\ Cross(t, k)
  /\ UNCHANGED <<arena, pc, op, key, born, now, alone>>

(* Mutant: the value stays in the map. *)
LruPruneOneKeepingValue(t) ==
  /\ pc[t] = "pruning"
  /\ \E k \in Keys :
       /\ FirstExpired(k)
       /\ arena' = RemoveItem(arena, k)
       /\ expires' = [expires EXCEPT ![k] = None]
       /\ Cross(t, k)
  /\ UNCHANGED <<table, pc, op, key, born, now, alone>>

(* The round of the loop: peek, remove_item, remove_no_policy, pop. *)
LruPruneOne(t) ==
  /\ pc[t] = "pruning"
  /\ \E k \in Keys :
       /\ FirstExpired(k)
       /\ arena' = RemoveItem(arena, k)
       /\ table' = [table EXCEPT ![k] = None]
       /\ expires' = [expires EXCEPT ![k] = None]
       /\ Cross(t, k)
  /\ UNCHANGED <<pc, op, key, born, now, alone>>

Pruned(t, o) == pc[t] = "pruning" /\ op[t] = o /\ ~\E k \in Keys : Expired(k)

LruPrune(t) ==
  /\ Pruned(t, "prune")
  /\ Return(t)
  /\ UNCHANGED <<table, arena, expires, now, crossed, alone>>

(* A key that is tracked becomes the head; the map is read afterwards. *)
LruGet(t) ==
  /\ Pruned(t, "get")
  /\ IF key[t] \in Items(arena) THEN Touch(key[t]) ELSE UNCHANGED <<arena, alone>>
  /\ Goto(t, "getting")
  /\ UNCHANGED <<table, expires, op, key, born, now, crossed>>

GetNoPolicy(t) ==
  /\ pc[t] = "getting"
  /\ Return(t)
  /\ UNCHANGED <<table, arena, expires, now, crossed, alone>>

LruInsert(t) ==
  /\ Pruned(t, "insert")
  /\ IF key[t] \in Items(arena) THEN Touch(key[t]) ELSE Enter(key[t])
  /\ expires' = [expires EXCEPT ![key[t]] = IF Ttl = None THEN None ELSE now + Ttl]
  /\ Cross(t, key[t])
  /\ born' = [born EXCEPT ![t] = now]
  /\ Goto(t, "evicting")
  /\ UNCHANGED <<table, op, key, now>>

(* Mutant: one key too many is allowed. *)
LruEvictLate(t) ==
  /\ pc[t] = "evicting"
  /\ IF Len(arena.nodes) > Capacity + 1 /\ arena.tail # None
     THEN Evict(t, arena.nodes[arena.tail].item, arena.tail)
     ELSE UNCHANGED <<table, arena, expires, crossed>>
  /\ Goto(t, "inserting")
  /\ UNCHANGED <<op, key, born, now, alone>>

(* evict: over capacity, the tail goes, if it is known. *)
LruEvict(t) ==
  /\ pc[t] = "evicting"
  /\ IF Len(arena.nodes) > Capacity /\ arena.tail # None
     THEN Evict(t, arena.nodes[arena.tail].item, arena.tail)
     ELSE UNCHANGED <<table, arena, expires, crossed>>
  /\ Goto(t, "inserting")
  /\ UNCHANGED <<op, key, born, now, alone>>

LruRemove(t) ==
  /\ Pruned(t, "remove")
  /\ arena' = RemoveItem(arena, key[t])
  /\ expires' = [expires EXCEPT ![key[t]] = None]
  /\ Cross(t, key[t])
  /\ Goto(t, "removing")
  /\ UNCHANGED <<table, op, key, born, now, alone>>

Next ==
  \/ \E t \in Threads, o \in Ops, k \in Keys \cup {None} : Begin(t, o, k)
  \/ \E t \in Threads : \/ LruPruneOne(t) \/ LruPrune(t) \/ LruGet(t)
                        \/ LruInsert(t) \/ LruEvict(t) \/ LruRemove(t)
                        \/ InsertNoPolicy(t) \/ RemoveNoPolicy(t) \/ GetNoPolicy(t)
  \/ Tick

Spec == Init /\ [][Next]_vars

-------------------------------------------------------------------------------

(* The queue and the arena hold the same keys: each of insert, remove,      *)
(* prune and evict changes both.                                            *)
QueueAgrees ==
  Ttl # None => Items(arena) = {k \in Keys : expires[k] # None}

(* As long as no key is used again while it is the only one, at most one   *)
(* key is over capacity, and only until evict (lru.rs:133).                 *)
WithinCapacity ==
  ~alone
    => /\ Len(arena.nodes) <= Capacity + 1
       /\ Unlocked => Len(arena.nodes) <= Capacity

(* When the loop of prune ends there is no expired value in the map         *)
(* (cache.rs:197) of a key whose last change has reached the map, in        *)
(* whatever order the keys have been used since they were inserted and      *)
(* whatever the threads do with other keys.                                 *)
PruneRemovesExpired ==
  (\E t \in Threads : pc[t] = "pruning") /\ (\A k \in Keys : ~Expired(k))
    => \A k \in Keys : Settled(k) /\ table[k] # None /\ Ttl # None
                         => table[k] + Ttl >= now
================================================================================
