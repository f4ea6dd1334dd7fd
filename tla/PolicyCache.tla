------------------------------ MODULE PolicyCache ------------------------------
(***************************************************************************)
(* What TtlPolicy (src/policy/ttl.rs) and LruPolicy (src/policy/lru.rs)     *)
(* have in common: an operation of LightCache takes the policy's mutex,     *)
(* prunes, changes the arena, releases the mutex, and only then does its    *)
(* own work on the map (cache.rs:272, get_no_policy and the like).          *)
(*                                                                         *)
(* A thread is in one operation at a time.  Its stage pc[t] is one of       *)
(*   idle       in no operation                                             *)
(*   pruning    has the policy's mutex, in the loop of prune                *)
(*   evicting   has the policy's mutex, LruPolicyInner::evict is next       *)
(*   inserting  released the mutex, insert_no_policy is next                *)
(*   removing   released the mutex, remove_no_policy is next                *)
(*   getting    released the mutex, get_no_policy is next                   *)
(* A value in the map is the Instant at which its insert was counted by the *)
(* policy, which is all that the properties ask of it.                      *)
(***************************************************************************)
EXTENDS LinkedArena

CONSTANTS
  Keys,
  Threads,
  Ttl,       \* Duration after which a key expires, in ticks of the clock
  MaxTime    \* bound: the last Instant

Ops == {"get", "insert", "remove", "prune"}

ASSUME PolicyAssumption ==
  /\ MaxTime \in Nat
  /\ None \notin Keys \cup Nat \cup Threads \cup Ops

VARIABLES
  table,    \* the LightMap: the value of each key or None
  arena,    \* the policy's LinkedArena
  expires,  \* last Instant of each key the policy expires, None for others
  pc,       \* stage of each thread
  op,       \* the operation of each thread
  key,      \* its key
  born,     \* the Instant the thread's insert was counted
  now,      \* Instant::now()
  crossed,  \* for the properties only: the keys the policy has changed
            \* while a thread had yet to tell the map of its last change
  alone     \* for the properties only: a key was used again while it was
            \* the only one

vars == <<table, arena, expires, pc, op, key, born, now, crossed, alone>>

Times == 0 .. MaxTime

Init ==
  /\ table = [k \in Keys |-> None]
  /\ arena = NewArena
  /\ expires = [k \in Keys |-> None]
  /\ pc = [t \in Threads |-> "idle"]
  /\ op = [t \in Threads |-> None]
  /\ key = [t \in Threads |-> None]
  /\ born = [t \in Threads |-> None]
  /\ now = 0
  /\ crossed = {}
  /\ alone = FALSE

(* Every variable has its type, and every index that the unsafe accesses of *)
(* linked_arena.rs use is one of its Vec, whatever swap_remove has moved.   *)
TypeOK ==
  /\ table \in [Keys -> Times \cup {None}]
  /\ Items(arena) \subseteq Keys
  /\ InBounds(arena)
  /\ expires \in [Keys -> Nat \cup {None}]
  /\ pc \in [Threads -> {"idle", "pruning", "evicting", "inserting", "removing", "getting"}]
  /\ op \in [Threads -> Ops \cup {None}]
  /\ key \in [Threads -> Keys \cup {None}]
  /\ born \in [Threads -> Times \cup {None}]
  /\ now \in Times
  /\ crossed \subseteq Keys
  /\ alone \in BOOLEAN
  /\ \A t \in Threads : /\ pc[t] = "idle" <=> op[t] = None
                        /\ key[t] = None <=> op[t] \in {None, "prune"}
                        /\ pc[t] = "inserting" => born[t] # None

Goto(t, stage) == pc' = [pc EXCEPT ![t] = stage]

Unlocked == \A t \in Threads : pc[t] \notin {"pruning", "evicting"}

(* Thread t has changed what the policy has of k and has yet to tell the map. *)
Pending(t, k) == pc[t] \in {"evicting", "inserting", "removing"} /\ key[t] = k

(* Thread t changes what the policy has of k, for the history.              *)
Cross(t, k) ==
  crossed' = IF \E u \in Threads \ {t} : Pending(u, k)
             THEN crossed \cup {k}
             ELSE crossed \ {k}

(* A call of an operation of LightCache gets the mutex; prune has no key. *)
Begin(t, o, k) ==
  /\ pc[t] = "idle"
  /\ Unlocked
  /\ o = "prune" <=> k = None
  /\ Goto(t, "pruning")
  /\ op' = [op EXCEPT ![t] = o]
  /\ key' = [key EXCEPT ![t] = k]
  /\ UNCHANGED <<table, arena, expires, born, now, crossed, alone>>

(* The operation is over, and what it was about forgotten. *)
Return(t) ==
  /\ Goto(t, "idle")
  /\ op' = [op EXCEPT ![t] = None]
  /\ key' = [key EXCEPT ![t] = None]
  /\ born' = [born EXCEPT ![t] = None]

(* Mutant: a key expires at its last Instant, not after it. *)
ExpiredEarly(k) == expires[k] # None /\ expires[k] <= now

(* Mutant: a key is given another Instant. *)
ExpiredLate(k) == expires[k] # None /\ expires[k] + 1 < now

(* A key that has passed its last Instant. *)
Expired(k) == expires[k] # None /\ expires[k] < now

(* Mutant: the value stays in the map. *)
EvictKeepingValue(t, k, i) ==
  /\ arena' = Remove(arena, i)
  /\ expires' = [expires EXCEPT ![k] = None]
  /\ Cross(t, k)
  /\ UNCHANGED table

(* The key leaves the arena and the map, with the mutex held. *)
Evict(t, k, i) ==
  /\ arena' = Remove(arena, i)
  /\ table' = [table EXCEPT ![k] = None]
  /\ expires' = [expires EXCEPT ![k] = None]
  /\ Cross(t, k)

(* A key that is used again becomes the head; get_node_mut has found it. *)
Touch(k) ==
  /\ arena' = MoveToHead(arena, arena.idx_of[k])
  /\ alone' = (alone \/ Items(arena) = {k})

Enter(k) == arena' = InsertHead(arena, k) /\ UNCHANGED alone

InsertNoPolicy(t) ==
  /\ pc[t] = "inserting"
  /\ table' = [table EXCEPT ![key[t]] = born[t]]
  /\ Return(t)
  /\ UNCHANGED <<arena, expires, now, crossed, alone>>

RemoveNoPolicy(t) ==
  /\ pc[t] = "removing"
  /\ table' = [table EXCEPT ![key[t]] = None]
  /\ Return(t)
  /\ UNCHANGED <<arena, expires, now, crossed, alone>>

(* The clock goes on, whoever holds the mutex. *)
Tick ==
  /\ now < MaxTime
  /\ now' = now + 1
  /\ UNCHANGED <<table, arena, expires, pc, op, key, born, crossed, alone>>

-------------------------------------------------------------------------------
(* Properties of both policies                                               *)

Recency == INSTANCE RecencyList WITH order <- Order(arena)

(* Whatever the threads do, the arena is a list: its links and its index    *)
(* agree, also when swap_remove has moved a node.                           *)
ArenaIsList == Indexed(arena) /\ Linked(arena) /\ TailIsLast(arena)

(* The arena keeps the keys in the order of their last use and forgets only *)
(* those it removes (linked_arena.rs:133).                                  *)
KeepsRecency == Recency!RecencySpec

(* The last change of k in the policy has reached the map, and no other      *)
(* change of k came in between.                                              *)
Settled(k) == k \notin crossed /\ \A t \in Threads : ~Pending(t, k)

(* Whatever other keys and threads are about, the policy tracks a key if and *)
(* only if it is in the map, unless an operation has yet to change the map   *)
(* (ttl.rs:72) or the policy has changed the key twice before the map was *)
(* told of the first change; the next change that is not overtaken mends it. *)
TracksMap == \A k \in Keys : Settled(k) => (table[k] # None <=> k \in Items(arena))
================================================================================
