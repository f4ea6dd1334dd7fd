------------------------------ MODULE RefreshCache ------------------------------
(***************************************************************************)
(* src/refresh.rs: LightCache::get_or_try_insert on a cache with TtlPolicy. *)
(* The two halves of this development meet here: the futures (GetOrInsert)  *)
(* and the policy (TtlPolicy) that expires the values of the table.  A call *)
(* asks the policy first, which prunes and reads the table with its mutex   *)
(* held; the polls of its future read the table without the policy; and the *)
(* call that was told to insert asks the policy again, while it has the     *)
(* mutex of the waiters.  There is one such mutex for each shard of the map *)
(* (ShardOf), so that inserts of keys of different shards go on side by     *)
(* side, and one mutex of the policy for all of them.                       *)
(* The calls are the policy's threads.  A value is the call that computed   *)
(* it, and the policy sees the Instant of its insert.                       *)
(***************************************************************************)
EXTENDS GetOrInsert, Integers

CONSTANTS
  Ttl,      \* Duration given to RefreshCache::new
  MaxTime   \* bound: the last Instant

ASSUME RefreshAssumption ==
  /\ Ttl \in Nat
  /\ MaxTime \in Nat
  /\ None \notin Nat \cup {"get", "insert", "remove", "prune"}
  /\ RaceCalls = {}

VARIABLES
  arena, expires, op, born, now, crossed, alone,  \* as in PolicyCache
  ppc,      \* where each call is in an operation of the policy
  pkey,     \* the key of that operation
  stamp,    \* the Instant of each call's value, None before it is stored
  begun,    \* when each call read the table for the first time
  lost      \* for the properties only: the keys the policy has dropped, and
            \* the calls whose insert was overtaken by that

policyVars == <<arena, expires, ppc, op, pkey, born, now, crossed, alone>>

refreshVars == <<vars, policyVars, stamp, begun, lost>>

(* The table as the policy sees it. *)
Stamps == [k \in Keys |-> IF table[k] = None THEN None ELSE stamp[table[k]]]

Policy == INSTANCE TtlPolicy WITH
            Threads <- Calls, table <- Stamps, pc <- ppc, key <- pkey

RefreshTypeOK ==
  /\ TypeOK
  /\ Policy!TypeOK
  /\ stamp \in [Calls -> Nat \cup {None}]
  /\ begun \in [Calls -> Nat \cup {None}]
  /\ lost \subseteq Keys \cup Calls
  /\ \A c \in Calls : /\ op[c] \in {"get", "insert", None}
                      /\ op[c] = "get" => pc[c] = "new"
                      /\ op[c] = "insert" => pc[c] = "inserting" /\ pkey[c] = key[c]

(* RefreshCache::new. *)
RefreshInit ==
  /\ Init
  /\ stamp = [c \in Calls |-> None]
  /\ begun = [c \in Calls |-> None]
  /\ lost = {}
  /\ Policy!Init

-------------------------------------------------------------------------------
(* RefreshCache::get, up to the future                                       *)

(* self.get(&key) takes the policy's mutex. *)
StartGet(c, k) ==
  /\ pc[c] = "new"
  /\ UNCHANGED <<vars, stamp, begun, lost>>
  /\ Policy!Begin(c, "get", k)

(* The policy drops the oldest key: for the shard this is a remove. *)
PruneOne(c) ==
  /\ Policy!Due
  /\ LET k == arena.nodes[arena.tail].item
     IN  /\ Remove(k)
         /\ lost' = lost \cup {k} \cup {d \in Calls : ppc[d] = "inserting" /\ pkey[d] = k}
  /\ UNCHANGED <<stamp, begun>>
  /\ Policy!TtlPruneOne(c)

(* The table is read, still with the policy's mutex, and the call returns   *)
(* the value or goes on with a future.                                      *)
Read(c) ==
  /\ op[c] = "get"
  /\ GetOrInsertCall(c, pkey[c])
  /\ begun' = [begun EXCEPT ![c] = now]
  /\ UNCHANGED <<stamp, lost>>
  /\ Policy!TtlGet(c)

-------------------------------------------------------------------------------
(* The future, whose polls leave the policy alone but for cache.insert       *)

Poll(c) ==
  /\ PollCoop(c) \/ Got(c) \/ TakeInsert(c) \/ Fail(c)
       \/ Finish(c) \/ Unreachable(c) \/ DropWorker(c)
  /\ UNCHANGED <<policyVars, stamp, begun, lost>>

(* cache.insert takes the policy's mutex, with that of the waiters held. *)
BeginInsert(c) ==
  /\ pc[c] = "inserting"
  /\ UNCHANGED <<vars, stamp, begun, lost>>
  /\ Policy!Begin(c, "insert", key[c])

(* The policy has pruned, counts the key and releases its mutex. *)
CountInsert(c) ==
  /\ UNCHANGED <<vars, stamp, begun, lost>>
  /\ Policy!TtlInsert(c)

WriteValue(c) ==
  /\ CacheInsert(c)
  /\ stamp' = [stamp EXCEPT ![c] = born[c]]
  /\ UNCHANGED <<begun, lost>>
  /\ Policy!InsertNoPolicy(c)

(* The program around the cache, and the executor. *)
Surroundings(c) ==
  /\ SpuriousWake(c) \/ Cancel(c) \/ InitPanics(c) \/ Migrate(c)
  /\ UNCHANGED <<policyVars, stamp, begun, lost>>

FutureCompletes(c) ==
  /\ Complete(c)
  /\ UNCHANGED <<policyVars, stamp, begun, lost>>

Tick ==
  /\ UNCHANGED <<vars, stamp, begun, lost>>
  /\ Policy!Tick

-------------------------------------------------------------------------------

(* What a thread does in the middle of a poll or of an operation.            *)
Work(c) ==
  \/ PruneOne(c) \/ Read(c) \/ Poll(c)
  \/ BeginInsert(c) \/ CountInsert(c) \/ WriteValue(c)

RefreshNext ==
  \/ \E c \in Calls : \/ \E k \in Keys : StartGet(c, k)
                      \/ Work(c) \/ Surroundings(c) \/ FutureCompletes(c)
  \/ Tick

RefreshSpec == RefreshInit /\ [][RefreshNext]_refreshVars

(***************************************************************************)
(* As in AsyncInsert: notified calls are polled, threads go on (each call   *)
(* takes each mutex a bounded number of times) and the refresher's futures  *)
(* complete.  The clock may stand still.                                    *)
(***************************************************************************)
FairRefreshSpec ==
  /\ RefreshSpec
  /\ \A c \in Calls : WF_refreshVars(Work(c)) /\ WF_refreshVars(FutureCompletes(c))

-------------------------------------------------------------------------------

(* The Instants of the values a key has had.                                 *)
Past(k) == {stamp[c] : c \in {d \in Calls : key[d] = k /\ stamp[d] # None}}

Latest(S) == IF S = {} THEN None ELSE CHOOSE s \in S : \A r \in S : r <= s

Store == INSTANCE ExpiringStore WITH
           held <- Stamps, last <- [k \in Keys |-> Latest(Past(k))], time <- now

(* A value is removed only when its time to live is over and replaced by no *)
(* other before, so that the refresher's value is stored once per time to   *)
(* live, whoever is polled, cancelled or fails (refresh.rs:31).             *)
KeepsValuesForTtl == Store!StoreSpec

(* A value that outlives its time to live is one whose insert the policy    *)
(* has overtaken: dropped the key between counting it and the write of its  *)
(* value to the table (ttl.rs:72).  All others are gone when the policy has *)
(* pruned, so that get does not return them (cache.rs:197).                 *)
FreshUnlessOvertaken ==
  (\E c \in Calls : ppc[c] = "pruning") /\ ~Policy!Due
    => \A k \in Keys : \/ table[k] = None
                       \/ table[k] \in lost
                       \/ stamp[table[k]] + Ttl >= now

(* A call returns no value that had expired before the call looked at the   *)
(* table first, also when it finds one in a later poll, which does not ask  *)
(* the policy (get_or_insert.rs:228), unless the value's insert was         *)
(* overtaken.                                                               *)
ReturnsFresh ==
  \A c \in Calls : ret[c] # None /\ ret[c] \notin lost
                     => stamp[ret[c]] # None /\ stamp[ret[c]] + Ttl >= begun[c]

(* A call that has the policy's mutex to insert a key finds no node of it,   *)
(* whatever keys of other shards are being inserted: there is no value, or   *)
(* the call would not insert one, and nodes go with values and inserts.  So  *)
(* the only key is never moved to the head, by which the list would lose its *)
(* tail (linked_arena.rs:155).                                               *)
InsertsOnlyNewKeys ==
  \A c \in Calls : ppc[c] = "pruning" /\ op[c] = "insert"
                     => pkey[c] \notin Policy!Items(arena)

(* A key that the policy has not dropped is refreshed by one call at a time *)
(* (cache.rs:25), which finds its node when it has inserted the value.      *)
OneRefreshAtATime ==
  \A k \in Keys \ lost :
    /\ \A c, d \in Computing(k) : c = d
    /\ \A c \in Calls : pc[c] = "inserted" /\ key[c] = k => waiters[k] # None

(* A get that waits for another, with nothing to poll it, is on the wakers  *)
(* of its key's node, and a call that the node counts is still there to     *)
(* wake it when it finishes, fails or is dropped (get_or_insert.rs:241),    *)
(* unless the policy has dropped the key.                                   *)
WaitersAreServed ==
  \A c \in Calls : pc[c] = "waiting" /\ c \notin notified /\ key[c] \notin lost
    => /\ waiters[key[c]] # None
       /\ c \in waiters[key[c]].wakers
       /\ Counted(key[c]) # {}

(* Every get returns, unless its key has been dropped by the policy: then a *)
(* waiter may have been woken for a value that is gone when it is polled    *)
(* (get_or_insert.rs:236, as after a remove).                               *)
GetReturns ==
  \A c \in Calls : pc[c] # "new" \/ ppc[c] # "idle" ~> pc[c] = "done" \/ key[c] \in lost
================================================================================
