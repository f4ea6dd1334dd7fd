------------------------------ MODULE AsyncShard ------------------------------
(***************************************************************************)
(* The shards of a LightMap (src/map.rs) and what the futures of            *)
(* get_or_insert.rs and get_or_insert_race.rs have in common when they use  *)
(* them: the value is computed, the `waiters` mutex of the key's shard is   *)
(* taken, the table is looked at again, and the value is inserted and the   *)
(* waiters are woken before the mutex is released.                          *)
(*                                                                         *)
(* A call is one call of an async insertion method, run as a task of its    *)
(* own.  Its stage pc[c] says where it is between two points at which       *)
(* another thread can see what it did:                                      *)
(*   new        not made yet                                                *)
(*   waiting    GetOrInsertFutureInner::Waiting, between polls              *)
(*   starting   counted as a worker, mutex released, init() is running      *)
(*   working    GetOrInsertFutureInner::Working, between polls              *)
(*   racing     RaceInner, between polls                                    *)
(*   parking    RaceInner, its future is Pending, wants the mutex           *)
(*   ready      its future returned a value, wants the mutex                *)
(*   inserting  holds the mutex, was told to insert (InnerComplete::Insert) *)
(*   inserted   holds the mutex, cache.insert has returned                  *)
(*   dropping   the future is being dropped and wants the mutex             *)
(*   done       the call returned, panicked or was cancelled                *)
(* The value a call computes is named by the call itself.                   *)
(***************************************************************************)
EXTENDS WakerNode, FiniteSets

CONSTANTS
  Keys,
  ShardOf,    \* the shard that the hash of each key leads to
  CoopCalls,  \* calls of get_or_insert and get_or_try_insert
  RaceCalls,  \* calls of get_or_insert_race and get_or_try_insert_race
  Ext,        \* a value written by a direct LightCache::insert
  None,       \* Option::None
  Usage       \* what else the program does with the cache, see below

(***************************************************************************)
(* Usage names the behaviours of the surrounding program that a caller can  *)
(* rule out: "insert", direct LightCache::insert calls; "remove", calls of  *)
(* LightCache::remove or a policy that expires or evicts keys; "cancel",    *)
(* futures dropped, or panicking, before they return; "err", futures of the *)
(* try variants that return Err; "init_panic", init closures that panic;    *)
(* "migrate", futures moved to another task between two polls.              *)
(***************************************************************************)
Usages == {"insert", "remove", "cancel", "err", "init_panic", "migrate"}

ASSUME ShardAssumption ==
  /\ ShardOf \in [Keys -> Nat]
  /\ CoopCalls \cup RaceCalls = Calls
  /\ CoopCalls \cap RaceCalls = {}
  /\ Usage \subseteq Usages
  /\ None \notin Calls \cup {Ext} \cup Keys
  /\ None \notin Wakers
  /\ Ext \notin Calls

VARIABLES
  table,      \* the tables of the shards, the value of each key or None
  waiters,    \* Shard::waiters of all, the Wakers of each key or None
  pc,         \* stage of each call
  key,        \* the key of each call
  joined,     \* calls whose `joined` flag is set
  completed,  \* calls whose own future has its output
  notified,   \* calls the executor is going to poll
  ret         \* the value each call returned, None for an error or a panic

vars == <<table, waiters, pc, key, joined, completed, notified, ret>>

Values == Calls \cup {Ext}

Stages == {"new", "waiting", "starting", "working", "racing", "parking",
           "ready", "inserting", "inserted", "dropping", "done"}

TypeOK ==
  /\ table \in [Keys -> Values \cup {None}]
  /\ waiters \in [Keys -> Wakers \cup {None}]
  /\ pc \in [Calls -> Stages]
  /\ key \in [Calls -> Keys \cup {None}]
  /\ joined \in SUBSET Calls
  /\ completed \in SUBSET Calls
  /\ notified \in SUBSET Calls
  /\ ret \in [Calls -> Values \cup {None}]
  /\ \A c \in Calls : pc[c] # "new" => key[c] \in Keys

Init ==
  /\ table = [k \in Keys |-> None]
  /\ waiters = [k \in Keys |-> None]
  /\ pc = [c \in Calls |-> "new"]
  /\ key = [c \in Calls |-> None]
  /\ joined = {}
  /\ completed = {}
  /\ notified = {}
  /\ ret = [c \in Calls |-> None]

-------------------------------------------------------------------------------
(* Locks, wakers and stages                                                  *)

(* shard.waiters.lock() succeeds when no call of a key of the shard is       *)
(* between InnerComplete::Insert and the end of poll; every other holder     *)
(* releases the mutex within one action.                                     *)
Holding == {"inserting", "inserted"}

Unlocked(k) ==
  \A c \in Calls : pc[c] \in Holding => ShardOf[key[c]] # ShardOf[k]

(* Stages in which the call will be polled again. *)
Pollable == {"waiting", "working", "racing", "parking"}

(* A wake makes the executor poll the call; a finished one has no poll left. *)
Wake(S) == notified' = notified \cup {c \in S : pc[c] \in Pollable}

Goto(c, stage) == pc' = [pc EXCEPT ![c] = stage]

(* Mutant: only futures with a joined flag of their own leave the map. *)
DropStageJoinedOnly(c) == IF c \in joined THEN "dropping" ELSE "done"

(* A Working future and a joined race leave the waiters map when dropped,   *)
(* and nothing else does: PinnedDrop has no other branch.                   *)
DropStage(c) ==
  IF c \in CoopCalls \/ c \in joined THEN "dropping" ELSE "done"

-------------------------------------------------------------------------------
(* The environment of the futures                                            *)

(* LightCache::insert from another thread; it does not look at waiters. *)
Insert(k) ==
  /\ "insert" \in Usage
  /\ table' = [table EXCEPT ![k] = Ext]
  /\ UNCHANGED <<waiters, pc, key, joined, completed, notified, ret>>

(* LightCache::remove from another thread, or the policy dropping the key. *)
Remove(k) ==
  /\ "remove" \in Usage
  /\ table' = [table EXCEPT ![k] = None]
  /\ UNCHANGED <<waiters, pc, key, joined, completed, notified, ret>>

(* The I/O behind a call's own future finishes and wakes the task. *)
Complete(c) ==
  /\ pc[c] \in {"working", "racing", "parking"}
  /\ c \notin completed
  /\ completed' = completed \cup {c}
  /\ Wake({c})
  /\ UNCHANGED <<table, waiters, pc, key, joined, ret>>

(* An executor may poll for no reason: select! and join! poll all branches. *)
SpuriousWake(c) ==
  /\ pc[c] \in Pollable
  /\ c \notin notified
  /\ Wake({c})
  /\ UNCHANGED <<table, waiters, pc, key, joined, completed, ret>>

(* The owner drops the future between two polls, or the user's future      *)
(* panics when it is polled; either way the future is dropped as it is.    *)
Cancel(c) ==
  /\ "cancel" \in Usage
  /\ pc[c] \in {"waiting", "working", "racing"}
  /\ Goto(c, IF pc[c] = "waiting" THEN "done" ELSE DropStage(c))
  /\ notified' = notified \ {c}
  /\ UNCHANGED <<table, waiters, key, joined, completed, ret>>

(* The future goes to another task, which polls it with a waker of its own; *)
(* the wakers it left in the shard wake the old task, which has no use for  *)
(* them.  A user's future re-registers its waker whenever it is polled.     *)
Migrate(c) ==
  /\ "migrate" \in Usage
  /\ pc[c] \in {"waiting", "working", "racing"}
  /\ waiters' = [k \in Keys |-> IF waiters[k] = None THEN None
                                ELSE LeaveWaiter(waiters[k], c)]
  /\ Wake({c})
  /\ UNCHANGED <<table, pc, key, joined, completed, ret>>

-------------------------------------------------------------------------------
(* The end of a call that computed its value                                 *)

(* Ready(out), the mutex is taken, and the value is there already.          *)
Got(c) ==
  /\ pc[c] = "ready"
  /\ Unlocked(key[c])
  /\ table[key[c]] # None
  /\ ret' = [ret EXCEPT ![c] = table[key[c]]]
  /\ Goto(c, DropStage(c))
  /\ UNCHANGED <<table, waiters, key, joined, completed, notified>>

(* Mutant: the table is not looked at again under the mutex. *)
TakeInsertUnchecked(c) ==
  /\ pc[c] = "ready"
  /\ Unlocked(key[c])
  /\ Goto(c, "inserting")
  /\ UNCHANGED <<table, waiters, key, joined, completed, notified, ret>>

(* Ready(out), the mutex is taken and kept: InnerComplete::Insert(Ok). *)
TakeInsert(c) ==
  /\ pc[c] = "ready"
  /\ Unlocked(key[c])
  /\ table[key[c]] = None
  /\ Goto(c, "inserting")
  /\ UNCHANGED <<table, waiters, key, joined, completed, notified, ret>>

(* InnerComplete::Insert(Err) in the try variants: the mutex is released    *)
(* when the arm ends, and the error is returned.                            *)
Fail(c) ==
  /\ "err" \in Usage
  /\ pc[c] = "ready"
  /\ Unlocked(key[c])
  /\ table[key[c]] = None
  /\ Goto(c, DropStage(c))
  /\ UNCHANGED <<table, waiters, key, joined, completed, notified, ret>>

(* self.cache.insert(key, value.clone()), the mutex still held. *)
CacheInsert(c) ==
  /\ pc[c] = "inserting"
  /\ table' = [table EXCEPT ![key[c]] = c]
  /\ Goto(c, "inserted")
  /\ UNCHANGED <<waiters, key, joined, completed, notified, ret>>

(* Mutant: the node is read, not removed. *)
FinishKeepingNode(c) ==
  /\ pc[c] = "inserted"
  /\ waiters[key[c]] # None
  /\ Wake(waiters[key[c]].wakers)
  /\ ret' = [ret EXCEPT ![c] = c]
  /\ Goto(c, DropStage(c))
  /\ UNCHANGED <<table, waiters, key, joined, completed>>

(* Mutant: the node is dropped without waking its wakers. *)
FinishSilently(c) ==
  /\ pc[c] = "inserted"
  /\ waiters[key[c]] # None
  /\ waiters' = [waiters EXCEPT ![key[c]] = None]
  /\ ret' = [ret EXCEPT ![c] = c]
  /\ Goto(c, DropStage(c))
  /\ UNCHANGED <<table, key, joined, completed, notified>>

(* lock.remove(&key) found the node: wakers.finish(), return the value. *)
Finish(c) ==
  /\ pc[c] = "inserted"
  /\ waiters[key[c]] # None
  /\ waiters' = [waiters EXCEPT ![key[c]] = None]
  /\ Wake(waiters[key[c]].wakers)
  /\ ret' = [ret EXCEPT ![c] = c]
  /\ Goto(c, DropStage(c))
  /\ UNCHANGED <<table, key, joined, completed>>

(* lock.remove(&key) found nothing: unreachable!() unwinds the task. *)
Unreachable(c) ==
  /\ pc[c] = "inserted"
  /\ waiters[key[c]] = None
  /\ Goto(c, DropStage(c))
  /\ UNCHANGED <<table, waiters, key, joined, completed, notified, ret>>

(* Mutant: the drop of a failed worker does not alert the waiters. *)
DropWorkerSilently(c) ==
  /\ pc[c] = "dropping"
  /\ Unlocked(key[c])
  /\ Goto(c, "done")
  /\ IF waiters[key[c]] # None
     THEN waiters' = [waiters EXCEPT ![key[c]] = RemoveWorker(@)]
     ELSE UNCHANGED waiters
  /\ UNCHANGED <<table, key, joined, completed, notified, ret>>

(* PinnedDrop: remove_worker and alert_all on whatever node the key has. *)
DropWorker(c) ==
  /\ pc[c] = "dropping"
  /\ Unlocked(key[c])
  /\ Goto(c, "done")
  /\ IF waiters[key[c]] # None
     THEN /\ waiters' = [waiters EXCEPT ![key[c]] = RemoveWorker(@)]
          /\ Wake(waiters[key[c]].wakers)
     ELSE UNCHANGED <<waiters, notified>>
  /\ UNCHANGED <<table, key, joined, completed, ret>>

-------------------------------------------------------------------------------
(* What the two kinds of future share in their next-state relations.  The    *)
(* steps of Progress are those the executor, or the thread in the middle of  *)
(* a poll, is bound to take.                                                 *)
Progress(c) ==
  \/ Got(c) \/ TakeInsert(c) \/ Fail(c)
  \/ CacheInsert(c) \/ Finish(c) \/ Unreachable(c)
  \/ DropWorker(c)

Environment ==
  \/ \E k \in Keys : Insert(k) \/ Remove(k)
  \/ \E c \in Calls : Complete(c) \/ SpuriousWake(c) \/ Cancel(c) \/ Migrate(c)

-------------------------------------------------------------------------------
(* Properties both kinds of future are meant to have                         *)

(* Counted(k): the calls that the worker count of k's node stands for, since *)
(* their drop takes one off it: cooperative calls that are past waiting and  *)
(* races that joined a node.                                                 *)
Counted(k) ==
  {c \in CoopCalls \cup joined : /\ key[c] = k
                                 /\ pc[c] \notin {"new", "waiting", "done"}}

(* Calls of key k whose own future is being created, polled or inserted.    *)
Computing(k) == {c \in Counted(k) : pc[c] # "dropping"}

KeepsComputed ==
  \A k \in Keys : table[k] \in Calls => table'[k] \notin Calls \ {table[k]}

(* The value one call computed is never replaced by the value another call  *)
(* computed: the second look at the table under the mutex sees the first    *)
(* one (get_or_insert.rs:275, get_or_insert_race.rs:220).  Only a direct    *)
(* insert or a removal can take a computed value out of the table.          *)
NoComputedOverwrite == [][KeepsComputed]_vars

(* Once a computed value is in the table and its inserter has released the  *)
(* mutex, nobody is registered for the key any more.  So the waiters entry  *)
(* that LightCache::insert warns of leaking can only come from a direct     *)
(* insert or from a computation that failed.                                *)
ComputedValueClearsWaiters ==
  \A k \in Keys : table[k] \in Calls /\ waiters[k] # None
                    => \E c \in Calls : pc[c] = "inserted" /\ key[c] = k

(* A call that was told to insert finds the node it is to remove: the       *)
(* unreachable!() of all four poll methods is not reached.                  *)
NoUnreachable ==
  \A c \in Calls : pc[c] = "inserted" => waiters[key[c]] # None

(* The same in a cache that is used with racing calls too: none but a race  *)
(* that never saw a node is told to insert without one.                     *)
CountedFindNode ==
  \A c \in CoopCalls \cup joined : pc[c] = "inserted" => waiters[key[c]] # None

(* A node counts every call that will take one off its count.  So the count *)
(* is not zero while such a call lives, nobody takes over from it, and      *)
(* checked_sub in remove_worker never has to make up for a count that is    *)
(* too low (waker_node.rs:28).                                              *)
NoneUncounted ==
  \A k \in Keys : waiters[k] # None
                    => Cardinality(Counted(k)) <= waiters[k].workers

(* A key is computed by one call at a time (cache.rs:25).                   *)
SingleWorker ==
  \A k \in Keys : \A c, d \in Computing(k) \cap CoopCalls : c = d

(* A node that counts a worker has one that will drop its count or remove   *)
(* the node; otherwise whoever waits for it waits forever.                  *)
NoPhantomWorker ==
  \A k \in Keys : waiters[k] # None /\ waiters[k].workers > 0
                    => Counted(k) # {}

(* A parked waiter, one the executor has no reason to poll, is registered   *)
(* with a node of its key that still counts a worker: somebody is going to  *)
(* finish or alert_all, and will wake it.                                   *)
ParkedIsRegistered ==
  \A c \in Calls : pc[c] = "waiting" /\ c \notin notified
    => /\ waiters[key[c]] # None
       /\ c \in waiters[key[c]].wakers
       /\ waiters[key[c]].workers > 0

(* The calls of a key that return a computed value return the same one      *)
(* (the "many callers returns the same value" tests of get_or_insert.rs),   *)
(* also when direct inserts come in between.                                *)
OneComputedValue ==
  \A c, d \in Calls :
    key[c] = key[d] /\ {ret[c], ret[d]} \subseteq Calls => ret[c] = ret[d]
================================================================================
