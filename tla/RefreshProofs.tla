----------------------------- MODULE RefreshProofs -----------------------------
(***************************************************************************)
(* Theorems about RefreshCache for any number of calls and keys and any     *)
(* time to live.                                                            *)
(***************************************************************************)
EXTENDS RefreshCache, GetOrInsertProofs, Sequences

USE ShardAssumption, RefreshAssumption

(* The types that the arguments below need. *)
RType ==
  /\ table \in [Keys -> Calls \cup {None}]
  /\ pc \in [Calls -> Stages]
  /\ key \in [Calls -> Keys \cup {None}]
  /\ ppc \in [Calls -> {"idle", "pruning", "inserting"}]
  /\ op \in [Calls -> {"get", "insert", None}]
  /\ pkey \in [Calls -> Keys \cup {None}]
  /\ born \in [Calls -> Nat \cup {None}]
  /\ expires \in [Keys -> Nat \cup {None}]
  /\ stamp \in [Calls -> Nat \cup {None}]
  /\ now \in Nat
  /\ \A c \in Calls : pc[c] # "new" => key[c] \in Keys

(* One call at a time has the waiters' mutex of a shard, and what a call    *)
(* does in the policy goes with its stage.                                  *)
Coupled ==
  /\ \A c, d \in Calls : pc[c] \in Holding /\ pc[d] \in Holding
                           /\ ShardOf[key[c]] = ShardOf[key[d]] => c = d
  /\ \A c \in Calls : /\ op[c] = "get" => pc[c] = "new" /\ pkey[c] \in Keys
                      /\ op[c] = "insert" => pc[c] = "inserting" /\ pkey[c] = key[c]
                      /\ ppc[c] = "inserting" => op[c] = "insert"
                      /\ pc[c] = "inserting" => table[key[c]] = None

(* Every value that k has had is over by Instant s. *)
OverBy(k, s) ==
  \A d \in Calls : key[d] = k /\ stamp[d] # None => stamp[d] + Ttl < s

(* An insert that the policy has counted, and the value of a key: the       *)
(* policy has not given the key another Instant, but may have dropped it.   *)
Counts ==
  \A c \in Calls : ppc[c] = "inserting" =>
    /\ born[c] \in 0 .. now
    /\ expires[key[c]] \in {None, born[c] + Ttl}
    /\ OverBy(key[c], born[c])

ValueCounts ==
  \A k \in Keys : table[k] # None =>
    /\ key[table[k]] = k
    /\ stamp[table[k]] # None
    /\ expires[k] \in {None, stamp[table[k]] + Ttl}
    /\ \A d \in Calls : key[d] = k /\ stamp[d] # None => stamp[d] <= stamp[table[k]]

Gone == \A k \in Keys : table[k] = None => OverBy(k, now)

Stored ==
  \A c \in Calls : stamp[c] # None =>
    /\ pc[c] \in {"inserted", "dropping", "done"}
    /\ stamp[c] <= now

(* Without assuming that the calls are finitely many. *)
HasLatest ==
  \A k \in Keys : Past(k) # {} => \E s \in Past(k) : \A r \in Past(k) : r <= s

RInv == RType /\ Coupled /\ Counts /\ ValueCounts /\ Gone /\ Stored /\ HasLatest

-------------------------------------------------------------------------------

(* Without a new stamp the past of the keys is the same.                     *)
LEMMA SamePast ==
  ASSUME HasLatest, UNCHANGED <<key, stamp>>
  PROVE  HasLatest'
<1>1. \A k \in Keys : Past(k)' = Past(k)
  BY DEF Past
<1> QED BY <1>1 DEF HasLatest

(* What a poll, a drop or the program around does: a call that has begun     *)
(* returns its key's value or the one it has stored, and it becomes          *)
(* "inserting" only with the mutex free and nothing in the table.            *)
PollsOf(c) ==
  /\ UNCHANGED <<table, key, policyVars, stamp, begun, lost>>
  /\ \/ UNCHANGED ret
     \/ /\ pc[c] # "new" /\ table[key[c]] # None
        /\ ret' = [ret EXCEPT ![c] = table[key[c]]]
     \/ /\ pc[c] = "inserted"
        /\ ret' = [ret EXCEPT ![c] = c]
  /\ \/ UNCHANGED pc
     \/ /\ pc[c] \notin {"new", "inserting", "done"}
        /\ \E x \in Stages : /\ pc' = [pc EXCEPT ![c] = x]
                             /\ x \notin {"new", "inserted"}
                             /\ pc[c] \in {"inserted", "dropping"} => x \in {"dropping", "done"}
                             /\ x = "inserting" => Unlocked(key[c]) /\ table[key[c]] = None

(* Polls and the like are as PollsOf says.                                   *)
LEMMA PollEffect ==
  ASSUME NEW c \in Calls, RType, Poll(c) \/ Surroundings(c) \/ FutureCompletes(c)
  PROVE  PollsOf(c)
<1>1. CASE Poll(c)
  <2>1. CASE PollCoop(c)
    BY <1>1, <2>1 DEF Poll, PollCoop, WaitGot, WaitPending, WaitTakeOver, WaitStart,
       InitReturns, PollWorking, BeginPoll, Goto, PollsOf, Stages
  <2>2. CASE Got(c) \/ Finish(c) \/ Unreachable(c) \/ DropWorker(c) \/ Fail(c)
    BY <1>1, <2>2 DEF Poll, Got, Finish, Unreachable, DropWorker, Fail, Goto,
       DropStage, PollsOf, Stages
  <2>3. CASE TakeInsert(c)
    BY <1>1, <2>3 DEF Poll, TakeInsert, Goto, PollsOf, Stages
  <2> QED BY <1>1, <2>1, <2>2, <2>3 DEF Poll
<1>2. CASE Surroundings(c)
  BY <1>2 DEF Surroundings, SpuriousWake, Cancel, InitPanics, Migrate, Goto, DropStage,
     PollsOf, Stages
<1>3. CASE FutureCompletes(c)
  BY <1>3 DEF FutureCompletes, Complete, PollsOf
<1> QED BY <1>1, <1>2, <1>3

(* What an operation of the policy that begins does: StartGet, BeginInsert.  *)
Begins(c) ==
  /\ UNCHANGED <<table, pc, key, stamp, born, now, expires, ret, begun, lost>>
  /\ UNCHANGED alone
  /\ ppc[c] = "idle"
  /\ \E o \in {"get", "insert"}, k \in Keys :
       /\ o = "get" => pc[c] = "new"
       /\ o = "insert" => pc[c] = "inserting" /\ k = key[c]
       /\ ppc' = [ppc EXCEPT ![c] = "pruning"]
       /\ op' = [op EXCEPT ![c] = o]
       /\ pkey' = [pkey EXCEPT ![c] = k]

(* A call enters an operation of the policy.                                 *)
LEMMA BeginStep ==
  ASSUME NEW c \in Calls, RInv, Begins(c)
  PROVE  RInv'
<1> USE DEF RInv, Begins
<1>1. RType'
  BY DEF RType
<1>2. Coupled'
  BY DEF RType, Coupled
<1>3. Counts'
  BY DEF RType, Counts, OverBy
<1>4. ValueCounts' /\ Gone' /\ Stored' /\ HasLatest'
  BY SamePast DEF ValueCounts, Gone, OverBy, Stored
<1> QED BY <1>1, <1>2, <1>3, <1>4

(* A call is polled, dropped or cancelled, or its future completes.          *)
LEMMA PollStep ==
  ASSUME NEW c \in Calls, RInv, PollsOf(c)
  PROVE  RInv'
<1> USE DEF RInv, PollsOf, policyVars
<1>1. RType'
  BY DEF RType
<1>2. Coupled'
  BY DEF RType, Coupled, Unlocked, Holding
<1>3. Counts' /\ ValueCounts' /\ Gone' /\ HasLatest'
  BY SamePast DEF Counts, ValueCounts, Gone, OverBy
<1>4. Stored'
  BY DEF RType, Stored
<1> QED BY <1>1, <1>2, <1>3, <1>4

(* A prune removes a value whose time to live is over, and with it every    *)
(* other that the key has had.                                              *)
LEMMA PruneStep ==
  ASSUME NEW c \in Calls, RInv, PruneOne(c)
  PROVE  RInv'
<1> DEFINE k == arena.nodes[arena.tail].item
<1>1. /\ UNCHANGED <<pc, key, ppc, op, pkey, born, now, stamp>>
      /\ table' = [table EXCEPT ![k] = None]
      /\ expires' = [expires EXCEPT ![k] = None]
      /\ expires[k] # None /\ expires[k] < now
  BY DEF PruneOne, Remove, Policy!TtlPruneOne, Policy!Due, Policy!Expired, Policy!Evict
<1> HIDE DEF k
<1> USE <1>1 DEF RInv
<1>2. RType'
  BY DEF RType
<1>3. Coupled'
  BY DEF RType, Coupled
<1>4. Counts'
  BY DEF RType, Counts, OverBy
<1>5. ValueCounts'
  BY DEF RType, ValueCounts
<1>6. Gone'
  BY DEF RType, Gone, OverBy, ValueCounts
<1>7. Stored' /\ HasLatest'
  BY SamePast DEF Stored
<1> QED BY <1>2, <1>3, <1>4, <1>5, <1>6, <1>7

(* A call reads the table with the policy's mutex.                           *)
LEMMA ReadStep ==
  ASSUME NEW c \in Calls, RInv, Read(c)
  PROVE  RInv'
<1>1. /\ UNCHANGED <<table, now, stamp, expires>>
      /\ pc[c] = "new" /\ op[c] = "get" /\ pkey[c] \in Keys
      /\ key' = [key EXCEPT ![c] = pkey[c]]
      /\ \E x \in {"waiting", "done"} : pc' = [pc EXCEPT ![c] = x]
      /\ ppc' = [ppc EXCEPT ![c] = "idle"]
      /\ op' = [op EXCEPT ![c] = None]
      /\ pkey' = [pkey EXCEPT ![c] = None]
      /\ born' = [born EXCEPT ![c] = None]
  BY DEF RInv, Coupled, Read, GetOrInsertCall, Goto, Policy!TtlGet, Policy!Return, Policy!Goto
<1> USE <1>1 DEF RInv
<1>2. stamp[c] = None
  BY DEF Stored
<1>3. RType'
  BY DEF RType, Stages
<1>4. Coupled'
  <2>1. pc'[c] \notin Holding
    BY DEF RType, Holding
  <2>2. \A d \in Calls \ {c} : UNCHANGED <<pc[d], key[d], ppc[d], op[d], pkey[d]>>
    BY DEF RType
  <2>3. pc'[c] # "inserting" /\ op'[c] = None /\ ppc'[c] = "idle"
    BY DEF RType
  <2> QED BY <2>1, <2>2, <2>3 DEF Coupled
<1>5. Counts'
  BY <1>2 DEF RType, Coupled, Counts, OverBy
<1>6. ValueCounts' /\ Gone'
  BY <1>2 DEF RType, ValueCounts, Gone, OverBy
<1>7. Stored'
  BY <1>2 DEF RType, Stored
<1>8. \A k \in Keys : Past(k)' = Past(k)
  BY <1>2 DEF RType, Past
<1>9. HasLatest'
  BY <1>8 DEF HasLatest
<1> QED BY <1>3, <1>4, <1>5, <1>6, <1>7, <1>9

(* The policy counts an insert: whatever the key has had is over by now.     *)
LEMMA CountInsertStep ==
  ASSUME NEW c \in Calls, RInv, CountInsert(c)
  PROVE  RInv'
<1>1. /\ UNCHANGED <<table, pc, key, op, pkey, now, stamp>>
      /\ op[c] = "insert" /\ pc[c] = "inserting" /\ pkey[c] = key[c]
      /\ key[c] \in Keys /\ table[key[c]] = None
      /\ expires' = [expires EXCEPT ![key[c]] = now + Ttl]
      /\ born' = [born EXCEPT ![c] = now]
      /\ ppc' = [ppc EXCEPT ![c] = "inserting"]
  BY DEF RInv, RType, Coupled, CountInsert, vars, Policy!TtlInsert, Policy!Pruned, Policy!Goto
<1> USE <1>1 DEF RInv
<1>2. RType'
  BY DEF RType
<1>3. Coupled'
  BY DEF RType, Coupled
<1>4. \A d \in Calls : ppc'[d] = "inserting" /\ key[d] = key[c] => d = c
  BY DEF RType, Coupled, Holding
<1>5. Counts'
  BY <1>4 DEF RType, Counts, Gone, OverBy
<1>6. ValueCounts'
  BY DEF RType, ValueCounts
<1>7. Gone' /\ Stored'
  BY DEF Gone, OverBy, Stored
<1>8. HasLatest'
  BY SamePast
<1> QED BY <1>2, <1>3, <1>5, <1>6, <1>7, <1>8

(* What the write of a value finds and does.                                *)
LEMMA WriteEffect ==
  ASSUME NEW c \in Calls, RInv, WriteValue(c)
  PROVE  /\ UNCHANGED <<key, now, expires>>
         /\ pc[c] = "inserting" /\ ppc[c] = "inserting"
         /\ key[c] \in Keys /\ table[key[c]] = None
         /\ stamp[c] = None
         /\ born[c] \in 0 .. now
         /\ expires[key[c]] \in {None, born[c] + Ttl}
         /\ OverBy(key[c], born[c])
         /\ table' = [table EXCEPT ![key[c]] = c]
         /\ stamp' = [stamp EXCEPT ![c] = born[c]]
         /\ pc' = [pc EXCEPT ![c] = "inserted"]
         /\ ppc' = [ppc EXCEPT ![c] = "idle"]
         /\ op' = [op EXCEPT ![c] = None]
         /\ pkey' = [pkey EXCEPT ![c] = None]
         /\ born' = [born EXCEPT ![c] = None]
<1>1. pc[c] = "inserting" /\ ppc[c] = "inserting"
  BY DEF WriteValue, CacheInsert, Policy!InsertNoPolicy
<1>2. stamp[c] = None
  BY <1>1 DEF RInv, Stored
<1> QED
  BY <1>1, <1>2 DEF RInv, RType, Coupled, Counts, WriteValue, CacheInsert, Goto,
     Policy!InsertNoPolicy, Policy!Return, Policy!Goto

(* The value that is written becomes the latest of its key.                 *)
LEMMA WritePast ==
  ASSUME NEW c \in Calls, RInv, WriteValue(c)
  PROVE  /\ \A k \in Keys \ {key[c]} : Past(k)' = Past(k)
         /\ Past(key[c])' = Past(key[c]) \cup {born[c]}
         /\ \A s \in Past(key[c]) : s \in Nat /\ s + Ttl < born[c]
<1>1. /\ key' = key /\ key[c] \in Keys
      /\ stamp \in [Calls -> Nat \cup {None}]
      /\ stamp[c] = None
      /\ stamp' = [stamp EXCEPT ![c] = born[c]]
      /\ born[c] \in Nat
      /\ OverBy(key[c], born[c])
  BY WriteEffect DEF RInv, RType
<1>2. \A d \in Calls \ {c} : stamp'[d] = stamp[d]
  BY <1>1
<1>3. stamp'[c] = born[c] /\ born[c] # None
  BY <1>1
<1>4. \A k \in Keys \ {key[c]} : Past(k)' = Past(k)
  BY <1>1, <1>2 DEF Past
<1>5. \A s \in Past(key[c]) : s \in Nat /\ s + Ttl < born[c]
  BY <1>1 DEF Past, OverBy
<1>6. Past(key[c])' = Past(key[c]) \cup {born[c]}
  <2>1. born[c] \in Past(key[c])'
    BY <1>1, <1>3 DEF Past
  <2> QED BY <1>1, <1>2, <1>3, <2>1 DEF Past
<1> QED BY <1>4, <1>5, <1>6

(* A value is written with the Instant that the policy counted.              *)
LEMMA WriteStep ==
  ASSUME NEW c \in Calls, RInv, WriteValue(c)
  PROVE  RInv'
<1>1. /\ UNCHANGED <<key, now, expires>>
      /\ key[c] \in Keys /\ table[key[c]] = None
      /\ stamp[c] = None
      /\ born[c] \in 0 .. now
      /\ pc[c] = "inserting" /\ ppc[c] = "inserting"
  BY WriteEffect
<1>2. /\ expires[key[c]] \in {None, born[c] + Ttl}
      /\ OverBy(key[c], born[c])
  BY WriteEffect
<1>3. /\ table' = [table EXCEPT ![key[c]] = c]
      /\ stamp' = [stamp EXCEPT ![c] = born[c]]
      /\ pc' = [pc EXCEPT ![c] = "inserted"]
  BY WriteEffect
<1>4. /\ ppc' = [ppc EXCEPT ![c] = "idle"]
      /\ op' = [op EXCEPT ![c] = None]
      /\ pkey' = [pkey EXCEPT ![c] = None]
      /\ born' = [born EXCEPT ![c] = None]
  BY WriteEffect
<1>5. RType
  BY DEF RInv
<1>6. RType'
  <2>1. born[c] \in Nat
    BY <1>1, <1>5 DEF RType
  <2>2. stamp' \in [Calls -> Nat \cup {None}]
    BY <1>3, <1>5, <2>1 DEF RType
  <2>3. table' \in [Keys -> Calls \cup {None}]
    BY <1>1, <1>3, <1>5 DEF RType
  <2>4. pc' \in [Calls -> Stages]
    BY <1>3, <1>5 DEF RType, Stages
  <2>5. /\ ppc' \in [Calls -> {"idle", "pruning", "inserting"}]
        /\ op' \in [Calls -> {"get", "insert", None}]
    BY <1>4, <1>5 DEF RType
  <2>6. /\ pkey' \in [Calls -> Keys \cup {None}]
        /\ born' \in [Calls -> Nat \cup {None}]
    BY <1>4, <1>5 DEF RType
  <2>7. \A d \in Calls : pc'[d] # "new" => key'[d] \in Keys
    BY <1>1, <1>3, <1>5 DEF RType
  <2> QED BY <1>1, <1>5, <2>2, <2>3, <2>4, <2>5, <2>6, <2>7 DEF RType
<1>7. \A d \in Calls \ {c} : pc'[d] = pc[d] /\ (pc[d] \in Holding => key[d] # key[c])
  BY <1>1, <1>3, <1>5 DEF RType, RInv, Coupled, Holding
<1>8. pc'[c] = "inserted" /\ op'[c] = None /\ ppc'[c] = "idle"
  BY <1>3, <1>4, <1>5 DEF RType
<1>9. \A d \in Calls \ {c} : UNCHANGED <<op[d], pkey[d], ppc[d], stamp[d]>>
  BY <1>3, <1>4, <1>5 DEF RType
<1>10. \A k \in Keys : table'[k] = IF k = key[c] THEN c ELSE table[k]
  BY <1>3, <1>5 DEF RType
<1>11. stamp'[c] = born[c] /\ born[c] # None
  BY <1>1, <1>3, <1>5 DEF RType
<1>12. Coupled'
  <2>1. \A d, e \in Calls : pc'[d] \in Holding /\ pc'[e] \in Holding
                             /\ ShardOf[key[d]] = ShardOf[key[e]] => d = e
    <3>1. \A d \in Calls : pc'[d] \in Holding => pc[d] \in Holding
      BY <1>1, <1>7, <1>8 DEF Holding
    <3> QED BY <3>1 DEF RInv, Coupled
  <2>2. \A d \in Calls : pc'[d] = "inserting" => table'[key[d]] = None
    BY <1>1, <1>5, <1>7, <1>8, <1>10 DEF RType, RInv, Coupled, Holding
  <2> QED BY <1>1, <1>7, <1>8, <1>9, <2>1, <2>2 DEF RInv, Coupled
<1>13. Counts'
  <2>1. \A d \in Calls : ppc'[d] = "inserting"
                         => /\ ppc[d] = "inserting" /\ d # c /\ key[d] \in Keys
                            /\ key[d] # key[c]
    BY <1>5, <1>7, <1>8, <1>9 DEF RInv, RType, Coupled, Holding
  <2>2. \A d, e \in Calls : e # c \/ key[d] # key[c]
                             => (key[e] = key[d] /\ stamp'[e] # None
                                   => stamp'[e] = stamp[e] /\ stamp[e] # None)
    BY <1>9
  <2>3. \A d \in Calls \ {c} : born'[d] = born[d]
    BY <1>4, <1>5 DEF RType
  <2> QED BY <1>1, <2>1, <2>2, <2>3 DEF RInv, Counts, OverBy
<1>14. ValueCounts'
  <2> SUFFICES ASSUME NEW k \in Keys, table'[k] # None
               PROVE  /\ key[table'[k]] = k
                      /\ stamp'[table'[k]] # None
                      /\ expires[k] \in {None, stamp'[table'[k]] + Ttl}
                      /\ \A d \in Calls : key[d] = k /\ stamp'[d] # None
                                           => stamp'[d] <= stamp'[table'[k]]
    BY <1>1 DEF ValueCounts
  <2>1. CASE k = key[c]
    BY <1>1, <1>2, <1>5, <1>9, <1>10, <1>11, <2>1 DEF OverBy, RType
  <2>2. CASE k # key[c]
    <3>1. table'[k] = table[k] /\ key[table[k]] = k /\ table[k] \in Calls \ {c}
      BY <1>5, <1>10, <2>2 DEF RInv, RType, ValueCounts
    <3> QED BY <1>9, <2>2, <3>1 DEF RInv, ValueCounts
  <2> QED BY <2>1, <2>2
<1>15. Gone'
  BY <1>1, <1>9, <1>10 DEF RInv, Gone, OverBy
<1>16. Stored'
  BY <1>1, <1>5, <1>7, <1>8, <1>9, <1>11 DEF RInv, RType, Stored
<1>17. HasLatest'
  <2> DEFINE old == Past(key[c])
             new == Past(key[c])'
  <2>1. /\ new = old \cup {born[c]}
        /\ \A s \in old : s \in Nat /\ s + Ttl < born[c]
        /\ born[c] \in Nat
    BY <1>1, <1>5, WritePast DEF RType
  <2> HIDE DEF old, new
  <2>2. \A r \in new : r <= born[c]
    BY <2>1
  <2>3. ASSUME NEW k \in Keys, Past(k)' # {}
        PROVE  \E s \in Past(k)' : \A r \in Past(k)' : r <= s
    <3>1. CASE k = key[c]
      BY <1>1, <2>1, <2>2, <3>1 DEF new
    <3>2. CASE k # key[c]
      BY <2>3, <3>2, WritePast DEF RInv, HasLatest
    <3> QED BY <3>1, <3>2
  <2> QED BY <2>3 DEF HasLatest
<1> QED BY <1>6, <1>12, <1>13, <1>14, <1>15, <1>16, <1>17 DEF RInv

(* The clock goes on, and nothing that was over begins again.                *)
LEMMA TickStep == RInv /\ Tick => RInv'
<1> SUFFICES ASSUME RInv, Tick
             PROVE  RInv'
  OBVIOUS
<1>1. /\ UNCHANGED <<table, pc, key, ppc, op, pkey, born, expires, stamp>>
      /\ now' = now + 1
  BY DEF Tick, vars, Policy!Tick
<1> USE <1>1 DEF RInv
<1>2. RType' /\ Coupled'
  BY DEF RType, Coupled
<1>3. Counts' /\ ValueCounts' /\ Gone' /\ Stored'
  BY DEF RType, Counts, ValueCounts, Gone, OverBy, Stored
<1>4. HasLatest'
  BY SamePast
<1> QED BY <1>2, <1>3, <1>4

(* The invariant holds at first.                                             *)
LEMMA InitInv == RefreshInit => RInv
  BY DEF RefreshInit, Init, Policy!Init, RInv, RType, Stages, Coupled, Holding,
     Counts, ValueCounts, Gone, OverBy, Stored, HasLatest, Past

(* What each step is, for the arguments by cases.                           *)
LEMMA Steps ==
  ASSUME RInv, [RefreshNext]_refreshVars
  PROVE  \/ \E c \in Calls : \/ Begins(c) /\ UNCHANGED <<vars, stamp>>
                            \/ PruneOne(c)
                            \/ Read(c)
                            \/ PollsOf(c)
                            \/ CountInsert(c)
                            \/ WriteValue(c)
         \/ Tick
         \/ UNCHANGED refreshVars
<1>1. ASSUME NEW c \in Calls, NEW k \in Keys, StartGet(c, k)
      PROVE  Begins(c) /\ UNCHANGED <<vars, stamp>>
  BY <1>1 DEF StartGet, vars, Policy!Begin, Policy!Goto, Begins
<1>2. ASSUME NEW c \in Calls, BeginInsert(c)
      PROVE  Begins(c) /\ UNCHANGED <<vars, stamp>>
  <2>1. key[c] \in Keys
    BY <1>2 DEF RInv, RType, BeginInsert
  <2> QED BY <1>2, <2>1 DEF BeginInsert, vars, Policy!Begin, Policy!Goto, Begins
<1>3. ASSUME NEW c \in Calls, Poll(c) \/ Surroundings(c) \/ FutureCompletes(c)
      PROVE  PollsOf(c)
  BY <1>3, PollEffect DEF RInv
<1> QED BY <1>1, <1>2, <1>3 DEF RefreshNext, Work

(* And in every step.                                                        *)
LEMMA RStep == RInv /\ [RefreshNext]_refreshVars => RInv'
<1> SUFFICES ASSUME RInv, [RefreshNext]_refreshVars
             PROVE  RInv'
  OBVIOUS
<1>1. CASE UNCHANGED refreshVars
  <2> USE <1>1 DEF RInv, refreshVars, vars, policyVars
  <2>1. RType' /\ Coupled'
    BY DEF RType, Coupled
  <2>2. Counts' /\ ValueCounts' /\ Gone' /\ Stored' /\ HasLatest'
    BY SamePast DEF Counts, ValueCounts, Gone, OverBy, Stored
  <2> QED BY <2>1, <2>2
<1> QED
  BY <1>1, Steps, BeginStep, PruneStep, ReadStep, PollStep, CountInsertStep, WriteStep, TickStep

(* Whatever calls are polled, cancelled or fail, and whenever the policy     *)
(* prunes: a stored value has the Instant the policy counted, no value of    *)
(* its key is younger, and a key without a value has had none that is still  *)
(* in its time to live (ttl.rs:58-73, get_or_insert.rs:129-148).             *)
THEOREM RefreshInvariant == RefreshSpec => []RInv
  BY InitInv, RStep, PTL DEF RefreshSpec

-------------------------------------------------------------------------------
(* Values stay for their time to live                                        *)

Last == [k \in Keys |-> Latest(Past(k))]

(* The latest Instant is the one that no other is after.                     *)
LEMMA LatestIs ==
  ASSUME NEW S, NEW b \in S, S \subseteq Nat, \A r \in S : r <= b
  PROVE  Latest(S) = b
<1>1. \E s \in S : \A r \in S : r <= s
  OBVIOUS
<1> DEFINE m == CHOOSE s \in S : \A r \in S : r <= s
<1>2. m \in S /\ \A r \in S : r <= m
  BY <1>1
<1> HIDE DEF m
<1>3. m = b
  BY <1>2
<1> QED BY <1>3 DEF Latest, m

(* The past of a key are Instants.                                           *)
LEMMA PastIsNat == ASSUME RType, NEW k \in Keys PROVE Past(k) \subseteq Nat
  BY DEF RType, Past

(* A step that writes no value leaves what the keys have had.               *)
LEMMA SameLast ==
  ASSUME UNCHANGED <<key, stamp>>
  PROVE  Last' = Last
  BY DEF Last, Past

(* The stamps are those of the values in the table.                          *)
LEMMA SameHeld ==
  ASSUME UNCHANGED <<table, stamp>>
  PROVE  Stamps' = Stamps
  BY DEF Stamps

(* A read gives no key another value, and its call had none before.          *)
LEMMA ReadLast ==
  ASSUME NEW c \in Calls, RInv, Read(c)
  PROVE  Last' = Last
<1>1. /\ UNCHANGED stamp
      /\ pc[c] = "new"
      /\ key' = [key EXCEPT ![c] = pkey[c]]
  BY DEF Read, GetOrInsertCall
<1>2. stamp[c] = None
  BY <1>1 DEF RInv, Stored
<1>3. \A k \in Keys : Past(k)' = Past(k)
  BY <1>1, <1>2 DEF RInv, RType, Past
<1> QED BY <1>3 DEF Last

(* A value that the policy removes has outlived its time to live.           *)
LEMMA PruneExpires ==
  ASSUME NEW c \in Calls, RInv, PruneOne(c)
  PROVE  [Store!StoreNext]_<<Stamps, Last, now>>
<1> DEFINE k == arena.nodes[arena.tail].item
<1>1. /\ UNCHANGED <<key, now, stamp>>
      /\ table' = [table EXCEPT ![k] = None]
      /\ expires[k] # None /\ expires[k] < now
  BY DEF PruneOne, Remove, Policy!TtlPruneOne, Policy!Due, Policy!Expired, Policy!Evict
<1> HIDE DEF k
<1>2. Last' = Last
  BY <1>1, SameLast
<1>3. CASE k \in Keys /\ table[k] # None
  <2>1. Stamps[k] # None /\ Stamps[k] + Ttl < now
    BY <1>1, <1>3 DEF RInv, RType, ValueCounts, Stamps
  <2>2. Stamps' = [Stamps EXCEPT ![k] = None]
    BY <1>1, <1>3 DEF RInv, RType, Stamps
  <2>3. Store!Expire(k)
    BY <1>1, <1>2, <2>1, <2>2 DEF Store!Expire, Last
  <2> QED BY <1>3, <2>3 DEF Store!StoreNext
<1>4. CASE ~(k \in Keys /\ table[k] # None)
  <2>1. table' = table
    BY <1>1, <1>4 DEF RInv, RType
  <2> QED BY <1>1, <1>2, <2>1, SameHeld
<1> QED BY <1>3, <1>4

(* A value is written when those that the key has had have outlived theirs. *)
LEMMA WriteKeeps ==
  ASSUME NEW c \in Calls, RInv, WriteValue(c)
  PROVE  Store!Keep(key[c])
<1> DEFINE k == key[c]
<1>1. /\ k \in Keys /\ table[k] = None
      /\ born[c] \in 0 .. now
      /\ UNCHANGED now
  BY WriteEffect
<1>2. Stamps[k] = None
  BY <1>1 DEF Stamps
<1>3. Stamps' = [Stamps EXCEPT ![k] = born[c]]
  <2>1. /\ table' = [table EXCEPT ![k] = c]
        /\ stamp' = [stamp EXCEPT ![c] = born[c]]
        /\ table \in [Keys -> Calls \cup {None}]
        /\ stamp \in [Calls -> Nat \cup {None}]
    BY WriteEffect DEF RInv, RType
  <2>2. ASSUME NEW j \in Keys, j # k
        PROVE  Stamps'[j] = Stamps[j]
    <3>1. table'[j] = table[j]
      BY <2>1, <2>2
    <3>2. table[j] # None => table[j] \in Calls /\ table[j] # c
      BY <2>1, <2>2 DEF RInv, ValueCounts
    <3> QED BY <2>1, <3>1, <3>2 DEF Stamps
  <2>3. Stamps'[k] = born[c]
    <3>1. table'[k] = c /\ c # None
      BY <1>1, <2>1
    <3> QED BY <1>1, <2>1, <3>1 DEF Stamps
  <2> QED BY <2>2, <2>3 DEF Stamps
<1>4. Last[k] # None => Last[k] + Ttl < born[c]
  <2>1. CASE Past(k) = {}
    BY <1>1, <2>1 DEF Last, Latest
  <2>2. CASE Past(k) # {}
    <3>1. PICK s \in Past(k) : \A r \in Past(k) : r <= s
      BY <1>1, <2>2 DEF RInv, HasLatest
    <3>2. Last[k] = s
      BY <1>1, <3>1, LatestIs, PastIsNat DEF RInv, Last
    <3> QED BY <3>1, <3>2, WritePast
  <2> QED BY <2>1, <2>2
<1>5. Last' = [Last EXCEPT ![k] = born[c]]
  <2>1. \A j \in Keys \ {k} : Latest(Past(j))' = Latest(Past(j))
    <3> SUFFICES ASSUME NEW j \in Keys \ {k}
                 PROVE  Latest(Past(j)') = Latest(Past(j))
      BY DEF Latest
    <3>1. Past(j)' = Past(j)
      BY WritePast
    <3> QED BY <3>1
  <2>2. Latest(Past(k))' = born[c]
    <3> DEFINE new == Past(k) \cup {born[c]}
    <3>1. new \subseteq Nat /\ \A r \in new : r <= born[c]
      BY <1>1, WritePast DEF RInv, RType
    <3>2. Latest(new) = born[c]
      BY <3>1, LatestIs
    <3> QED BY <3>2, WritePast DEF Latest
  <2>3. \A j \in Keys : Last'[j] = IF j = k THEN born[c] ELSE Last[j]
    <3>1. key' = key
      BY WriteEffect
    <3>2. \A j \in Keys : Last'[j] = Latest(Past(j))'
      BY DEF Last, Latest
    <3> QED BY <2>1, <2>2, <3>1, <3>2 DEF Last
  <2> QED BY <2>3 DEF Last
<1> QED BY <1>1, <1>2, <1>3, <1>4, <1>5 DEF Store!Keep, Last

(* Every step is one of ExpiringStore, or none of its.                       *)
LEMMA StoreStep ==
  RInv /\ [RefreshNext]_refreshVars => [Store!StoreNext]_<<Stamps, Last, now>>
<1> SUFFICES ASSUME RInv, [RefreshNext]_refreshVars
             PROVE  [Store!StoreNext]_<<Stamps, Last, now>>
  OBVIOUS
<1>1. ASSUME NEW c \in Calls, \/ Begins(c) /\ UNCHANGED <<vars, stamp>>
                             \/ PollsOf(c) \/ CountInsert(c)
      PROVE  UNCHANGED <<Stamps, Last, now>>
  <2>1. UNCHANGED <<table, key, stamp, now>>
    BY <1>1 DEF Begins, PollsOf, policyVars, CountInsert, vars, Policy!TtlInsert
  <2> QED BY <2>1, SameHeld, SameLast
<1>2. ASSUME NEW c \in Calls, Read(c)
      PROVE  UNCHANGED <<Stamps, Last, now>>
  <2>1. UNCHANGED <<table, stamp, now>>
    BY <1>2 DEF Read, GetOrInsertCall, Policy!TtlGet
  <2> QED BY <1>2, <2>1, SameHeld, ReadLast
<1>3. ASSUME NEW c \in Calls, WriteValue(c)
      PROVE  Store!StoreNext
  BY <1>3, WriteKeeps, WriteEffect DEF Store!StoreNext
<1>4. ASSUME Tick
      PROVE  Store!StoreNext
  <2>1. UNCHANGED <<table, key, stamp>> /\ now' = now + 1
    BY <1>4 DEF Tick, vars, Policy!Tick
  <2>2. UNCHANGED <<Stamps, Last>>
    BY <2>1, SameHeld, SameLast
  <2> QED BY <2>1, <2>2 DEF Store!StoreNext, Store!Pass, Last
<1>5. CASE UNCHANGED refreshVars
  BY <1>5, SameHeld, SameLast DEF refreshVars, vars, policyVars
<1> QED BY <1>1, <1>2, <1>3, <1>4, <1>5, Steps, PruneExpires

(* refresh.rs:31.  A value stays until its time to live is over, and another *)
(* is not stored before: for any number of calls, keys and ticks, whoever is *)
(* polled, cancelled or fails, a key is stored at most once per time to live.*)
THEOREM ValuesKept == RefreshSpec => KeepsValuesForTtl
<1>1. RefreshInit => Store!StoreInit
  BY DEF RefreshInit, Init, Policy!Init, Store!StoreInit, Stamps, Past, Latest
<1>2. RInv /\ [RefreshNext]_refreshVars
        => [Store!StoreNext]_<<Stamps, [k \in Keys |-> Latest(Past(k))], now>>
  BY StoreStep DEF Last
<1> QED
  BY <1>1, <1>2, RefreshInvariant, PTL DEF RefreshSpec, KeepsValuesForTtl, Store!StoreSpec

-------------------------------------------------------------------------------
(* The futures are those of AsyncInsert                                      *)

(* Seen from the shard, this is AsyncInsert: the policy removes keys and     *)
(* does nothing else to the futures.                                         *)
ImplementsAsyncInsert == Spec

(* Every step is one of AsyncInsert, or none of its.                         *)
LEMMA AsyncStep ==
  RInv /\ [RefreshNext]_refreshVars => [Next]_vars
<1> SUFFICES ASSUME RInv, [RefreshNext]_refreshVars
             PROVE  [Next]_vars
  OBVIOUS
<1>1. CoopCalls = Calls
  OBVIOUS
<1>2. ASSUME NEW c \in Calls, PruneOne(c)
      PROVE  [Next]_vars
  <2> DEFINE k == arena.nodes[arena.tail].item
  <2>1. Remove(k)
    BY <1>2 DEF PruneOne
  <2> HIDE DEF k
  <2>2. CASE k \in Keys
    BY <2>1, <2>2 DEF Next, Environment
  <2>3. CASE k \notin Keys
    BY <2>1, <2>3 DEF RInv, RType, Remove, vars
  <2> QED BY <2>2, <2>3
<1>3. ASSUME NEW c \in Calls, Read(c)
      PROVE  Next
  <2>1. pkey[c] \in Keys
    BY <1>3 DEF RInv, Coupled, Read
  <2> QED BY <1>1, <1>3, <2>1 DEF Read, Next, CoopNext
<1>4. ASSUME NEW c \in Calls, Poll(c) \/ WriteValue(c)
      PROVE  Next
  BY <1>1, <1>4 DEF Poll, WriteValue, Next, CoopNext, Progress
<1>5. ASSUME NEW c \in Calls, Surroundings(c) \/ FutureCompletes(c)
      PROVE  Next
  BY <1>1, <1>5 DEF Surroundings, FutureCompletes, Next, CoopNext, Environment
<1>6. ASSUME \/ \E c \in Calls : \/ \E k \in Keys : StartGet(c, k)
                                \/ BeginInsert(c) \/ CountInsert(c)
             \/ Tick
             \/ UNCHANGED refreshVars
      PROVE  UNCHANGED vars
  BY <1>6 DEF StartGet, BeginInsert, CountInsert, Tick, refreshVars
<1> QED
  BY <1>2, <1>3, <1>4, <1>5, <1>6 DEF RefreshNext, Work

(* get_or_insert.rs does not know of policies: seen from a shard, a cache    *)
(* with a TtlPolicy does nothing that the futures would not meet when        *)
(* somebody removes keys, so what is proved of them holds with the policy.   *)
THEOREM FuturesUnchanged == RefreshSpec => ImplementsAsyncInsert
<1>1. RefreshInit => Init
  BY DEF RefreshInit
<1> QED
  BY <1>1, AsyncStep, RefreshInvariant, PTL DEF RefreshSpec, ImplementsAsyncInsert, Spec

-------------------------------------------------------------------------------
(* The policy is that of TtlPolicy                                           *)

(* Seen from the policy, this is TtlPolicy with the calls for its threads:   *)
(* what get_or_try_insert asks of it are gets and inserts.                   *)
Ttls == INSTANCE TtlProofs WITH
          Threads <- Calls, table <- Stamps, pc <- ppc, key <- pkey

ImplementsTtlPolicy == Ttls!Spec

(* What the proofs about TtlPolicy assume.                                   *)
LEMMA TtlsAssumptions == Ttls!PolicyAssumption /\ Ttls!TtlAssumption
  BY DEF Ttls!PolicyAssumption, Ttls!TtlAssumption, Ttls!Ops

(* The arena is the same one.                                                *)
LEMMA SameArena ==
  ASSUME NEW a, NEW i, NEW x
  PROVE  /\ Policy!Remove(a, i) = Ttls!Remove(a, i)
         /\ Policy!InsertHead(a, x) = Ttls!InsertHead(a, x)
         /\ Policy!MoveToHead(a, i) = Ttls!MoveToHead(a, i)
<1>1. \A n, j, p : /\ Policy!SetPrev(n, j, p) = Ttls!SetPrev(n, j, p)
                   /\ Policy!SetNext(n, j, p) = Ttls!SetNext(n, j, p)
  BY DEF Policy!SetPrev, Ttls!SetPrev, Policy!SetNext, Ttls!SetNext
<1>2. \A m, y, j : /\ Policy!PutIndex(m, y, j) = Ttls!PutIndex(m, y, j)
                   /\ Policy!DropIndex(m, y) = Ttls!DropIndex(m, y)
                   /\ Policy!SwapRemove(m, j) = Ttls!SwapRemove(m, j)
  BY DEF Policy!PutIndex, Ttls!PutIndex, Policy!DropIndex, Ttls!DropIndex,
     Policy!SwapRemove, Ttls!SwapRemove
<1>3. \A u, j : /\ Policy!Unlink(u, j) = Ttls!Unlink(u, j)
                /\ Policy!Relink(u, j) = Ttls!Relink(u, j)
  <2>1. ASSUME NEW u, NEW j
        PROVE  Policy!Unlink(u, j) = Ttls!Unlink(u, j)
    BY <1>1, Zenon DEF Policy!Unlink, Ttls!Unlink
  <2>2. ASSUME NEW u, NEW j
        PROVE  Policy!Relink(u, j) = Ttls!Relink(u, j)
    BY <1>1, Zenon DEF Policy!Relink, Ttls!Relink
  <2> QED BY <2>1, <2>2
<1>4. Policy!Remove(a, i) = Ttls!Remove(a, i)
  <2> DEFINE u == Policy!Unlink(a, i)
             v == Ttls!Unlink(a, i)
             PCut(r) == [r EXCEPT !.nodes = Policy!SwapRemove(@, i),
                                  !.idx_of = Policy!DropIndex(@, r.nodes[i].item)]
             TCut(r) == [r EXCEPT !.nodes = Ttls!SwapRemove(@, i),
                                  !.idx_of = Ttls!DropIndex(@, r.nodes[i].item)]
             PFix(r) == [r EXCEPT !.idx_of = Policy!PutIndex(@, r.nodes[i].item, i)]
             TFix(r) == [r EXCEPT !.idx_of = Ttls!PutIndex(@, r.nodes[i].item, i)]
  <2>1. \A r : PCut(r) = TCut(r) /\ PFix(r) = TFix(r)
    BY <1>2
  <2>2. u = v
    BY <1>3
  <2>3. Policy!Remove(a, i)
          = IF i = Len(u.nodes) THEN PCut(u) ELSE Policy!Relink(PFix(PCut(u)), i)
    BY DEF Policy!Remove
  <2>4. Ttls!Remove(a, i)
          = IF i = Len(v.nodes) THEN TCut(v) ELSE Ttls!Relink(TFix(TCut(v)), i)
    BY DEF Ttls!Remove
  <2> HIDE DEF u, v, PCut, TCut, PFix, TFix
  <2> QED BY <1>3, <2>1, <2>2, <2>3, <2>4
<1>5. Policy!InsertHead(a, x) = Ttls!InsertHead(a, x)
  BY <1>1, <1>2 DEF Policy!InsertHead, Ttls!InsertHead, Policy!NewNode, Ttls!NewNode
<1>6. Policy!MoveToHead(a, i) = Ttls!MoveToHead(a, i)
  BY <1>1, <1>3 DEF Policy!MoveToHead, Ttls!MoveToHead
<1> QED BY <1>4, <1>5, <1>6

(* Every step is one of TtlPolicy, or none of its.                           *)
LEMMA PolicyStep ==
  RInv /\ [RefreshNext]_refreshVars => [Ttls!Next]_(Ttls!vars)
<1> SUFFICES ASSUME RInv, [RefreshNext]_refreshVars
             PROVE  [Ttls!Next]_(Ttls!vars)
  OBVIOUS
<1>1. ASSUME NEW c \in Calls, NEW o \in {"get", "insert"}, NEW k \in Keys,
             Policy!Begin(c, o, k)
      PROVE  Ttls!Next
  <2>1. Ttls!Begin(c, o, k)
    BY <1>1 DEF Policy!Begin, Ttls!Begin, Policy!Goto, Ttls!Goto,
       Policy!Unlocked, Ttls!Unlocked
  <2> QED BY <2>1 DEF Ttls!Next, Ttls!Ops
<1>2. ASSUME NEW c \in Calls, PruneOne(c)
      PROVE  Ttls!Next
  <2>1. Ttls!TtlPruneOne(c)
    BY <1>2, SameArena DEF PruneOne, Policy!TtlPruneOne, Ttls!TtlPruneOne, Policy!Due,
       Ttls!Due, Policy!Expired, Ttls!Expired, Policy!Evict, Ttls!Evict,
       Policy!Cross, Ttls!Cross, Policy!Pending, Ttls!Pending
  <2> QED BY <2>1 DEF Ttls!Next
<1>3. ASSUME NEW c \in Calls, Read(c)
      PROVE  Ttls!Next
  <2>1. Ttls!TtlGet(c)
    BY <1>3 DEF Read, Policy!TtlGet, Ttls!TtlGet, Policy!Pruned, Ttls!Pruned, Policy!Due,
       Ttls!Due, Policy!Expired, Ttls!Expired, Policy!Return, Ttls!Return, Policy!Goto, Ttls!Goto
  <2> QED BY <2>1 DEF Ttls!Next
<1>4. ASSUME NEW c \in Calls, CountInsert(c)
      PROVE  Ttls!Next
  <2>1. Ttls!TtlInsert(c)
    BY <1>4, SameArena DEF CountInsert, Policy!TtlInsert, Ttls!TtlInsert, Policy!Pruned, Ttls!Pruned,
       Policy!Due, Ttls!Due, Policy!Expired, Ttls!Expired, Policy!Goto, Ttls!Goto,
       Policy!Items, Ttls!Items, Policy!Touch, Ttls!Touch, Policy!Enter, Ttls!Enter,
       Policy!Cross, Ttls!Cross, Policy!Pending, Ttls!Pending
  <2> QED BY <2>1 DEF Ttls!Next
<1>5. ASSUME NEW c \in Calls, WriteValue(c)
      PROVE  Ttls!Next
  <2>1. Ttls!InsertNoPolicy(c)
    BY <1>5 DEF WriteValue, Policy!InsertNoPolicy, Ttls!InsertNoPolicy,
       Policy!Return, Ttls!Return, Policy!Goto, Ttls!Goto
  <2> QED BY <2>1 DEF Ttls!Next
<1>6. CASE Tick
  BY <1>6 DEF Tick, Policy!Tick, Ttls!Tick, Ttls!Next
<1>7. ASSUME \/ \E c \in Calls : PollsOf(c)
             \/ UNCHANGED refreshVars
      PROVE  UNCHANGED Ttls!vars
  <2>1. UNCHANGED <<table, stamp, policyVars>>
    BY <1>7 DEF PollsOf, refreshVars, vars
  <2> QED BY <2>1, SameHeld DEF policyVars, Ttls!vars
<1>8. ASSUME NEW c \in Calls, \/ \E k \in Keys : StartGet(c, k)
                             \/ BeginInsert(c)
      PROVE  Ttls!Next
  BY <1>1, <1>8 DEF StartGet, BeginInsert, RInv, RType
<1> QED
  BY <1>2, <1>3, <1>4, <1>5, <1>6, <1>7, <1>8, PollEffect DEF RefreshNext, Work, RInv

(* ttl.rs does not know of futures: seen from the policy, the cache does     *)
(* what TtlPolicy does for any threads, so what is proved of it holds here.  *)
THEOREM PolicyUnchanged == RefreshSpec => ImplementsTtlPolicy
<1>1. RefreshInit => Ttls!Init
  BY DEF RefreshInit, Policy!Init, Ttls!Init, Policy!NewArena, Ttls!NewArena
<1> QED
  BY <1>1, PolicyStep, RefreshInvariant, PTL DEF RefreshSpec, ImplementsTtlPolicy, Ttls!Spec

(* In particular the invariant of TtlPolicy.                                 *)
LEMMA PolicyInvariant == RefreshSpec => []Ttls!TtlInv
<1>1. Ttls!Spec => []Ttls!TtlInv
  BY TtlsAssumptions, Ttls!TtlInvariant
<1> QED BY <1>1, PolicyUnchanged, PTL DEF ImplementsTtlPolicy

-------------------------------------------------------------------------------
(* What the calls return is fresh                                            *)

FreshTypes ==
  /\ begun \in [Calls -> Nat \cup {None}]
  /\ ret \in [Calls -> Calls \cup {None}]
  /\ lost \subseteq Keys \cup Calls

(* A key that the policy expires has a value, or is about to.                *)
KeysHaveValues ==
  \A k \in Keys : expires[k] # None
    => table[k] # None \/ \E c \in Calls : ppc[c] = "inserting" /\ key[c] = k

(* The list has its tail.                                                    *)
TailKept == ~alone

(* A value that the policy does not know was overtaken.                      *)
UnknownIsLost ==
  /\ \A k \in Keys : table[k] # None /\ expires[k] = None => table[k] \in lost
  /\ \A c \in Calls : ppc[c] = "inserting" /\ expires[key[c]] = None => c \in lost

(* A value that a call may still find had not expired when the call began.   *)
InTime ==
  \A c \in Calls : pc[c] # "new" =>
    /\ begun[c] \in 0 .. now
    /\ \A k \in Keys : table[k] # None /\ table[k] \notin lost
                         => stamp[table[k]] + Ttl >= begun[c]
    /\ \A d \in Calls : ppc[d] = "inserting" /\ d \notin lost
                         => born[d] + Ttl >= begun[c]
    /\ pc[c] = "inserted" /\ c \notin lost
         => stamp[c] # None /\ stamp[c] + Ttl >= begun[c]

(* Together with RInv and the invariant of TtlPolicy this is inductive.      *)
FreshInv ==
  /\ FreshTypes
  /\ TailKept
  /\ KeysHaveValues
  /\ UnknownIsLost
  /\ InTime
  /\ ReturnsFresh

(* The policy does not know the key that a call inserts but has not counted: *)
(* it has no value, and no other call that inserts it has been counted.      *)
LEMMA UnknownKey ==
  ASSUME RInv, Ttls!TtlInv, FreshInv, NEW c \in Calls,
         pc[c] = "inserting", ppc[c] # "inserting"
  PROVE  expires[key[c]] = None /\ key[c] \notin Policy!Items(arena)
<1>1. key[c] \in Keys /\ table[key[c]] = None
  BY DEF RInv, RType, Coupled
<1>2. \A d \in Calls : ppc[d] = "inserting" => key[d] # key[c]
  BY DEF RInv, Coupled, Holding
<1>3. expires[key[c]] = None
  BY <1>1, <1>2 DEF FreshInv, KeysHaveValues
<1>4. key[c] \notin Ttls!Items(arena)
  BY <1>1, <1>3 DEF Ttls!TtlInv, Ttls!KeysExpire
<1> QED BY <1>3, <1>4 DEF Policy!Items, Ttls!Items

(* When the policy has pruned no key it knows has expired.                   *)
LEMMA Pruned ==
  ASSUME RInv, Ttls!TtlInv, TailKept, ~Policy!Due, NEW k \in Keys, expires[k] # None
  PROVE  expires[k] \in Nat /\ expires[k] >= now
<1>1. ~Ttls!Due /\ ~alone
  BY DEF Policy!Due, Ttls!Due, Policy!Expired, Ttls!Expired, TailKept
<1>2. expires[k] >= now
  BY <1>1, TtlsAssumptions, Ttls!PrunedIsFresh
<1> QED BY <1>2 DEF RInv, RType

(* Then a value, or one about to be written, is in its time to live or lost. *)
LEMMA PrunedValues ==
  ASSUME RInv, Ttls!TtlInv, FreshInv, ~Policy!Due
  PROVE  /\ \A k \in Keys : table[k] # None /\ table[k] \notin lost
                             => stamp[table[k]] + Ttl >= now
         /\ \A d \in Calls : ppc[d] = "inserting" /\ d \notin lost
                             => born[d] + Ttl >= now
<1>1. ASSUME NEW k \in Keys, table[k] # None, table[k] \notin lost
      PROVE  stamp[table[k]] + Ttl >= now
  <2>1. expires[k] # None
    BY <1>1 DEF FreshInv, UnknownIsLost
  <2>2. expires[k] = stamp[table[k]] + Ttl
    BY <1>1, <2>1 DEF RInv, ValueCounts
  <2> QED BY <2>1, <2>2, Pruned DEF FreshInv
<1>2. ASSUME NEW d \in Calls, ppc[d] = "inserting", d \notin lost
      PROVE  born[d] + Ttl >= now
  <2>1. expires[key[d]] # None
    BY <1>2 DEF FreshInv, UnknownIsLost
  <2>2. key[d] \in Keys /\ expires[key[d]] = born[d] + Ttl
    BY <1>2, <2>1 DEF RInv, RType, Coupled, Counts
  <2> QED BY <2>1, <2>2, Pruned DEF FreshInv
<1> QED BY <1>1, <1>2

(* A call enters an operation of the policy.                                 *)
LEMMA BeginFresh ==
  ASSUME NEW c \in Calls, RInv, FreshInv, Begins(c)
  PROVE  FreshInv'
<1>1. UNCHANGED <<table, pc, key, stamp, born, now, expires, ret, begun, lost>>
  BY DEF Begins
<1>2. \A d \in Calls : ppc'[d] = "inserting" => ppc[d] = "inserting"
  BY DEF Begins, RInv, RType
<1>3. \A d \in Calls : ppc[d] = "inserting" => ppc'[d] = "inserting"
  BY DEF Begins, RInv, RType
<1>4. FreshTypes' /\ TailKept' /\ ReturnsFresh'
  BY <1>1 DEF Begins, FreshInv, FreshTypes, TailKept, ReturnsFresh
<1>5. KeysHaveValues'
  BY <1>1, <1>3 DEF FreshInv, KeysHaveValues
<1>6. UnknownIsLost' /\ InTime'
  BY <1>1, <1>2 DEF FreshInv, UnknownIsLost, InTime
<1> QED BY <1>4, <1>5, <1>6 DEF FreshInv

(* A call is polled, dropped or cancelled, or its future completes.          *)
LEMMA PollFresh ==
  ASSUME NEW c \in Calls, RInv, FreshInv, PollsOf(c)
  PROVE  FreshInv'
<1>1. UNCHANGED <<table, key, ppc, born, expires, now, alone, stamp, begun, lost>>
  BY DEF PollsOf, policyVars
<1>2. \A d \in Calls : /\ pc'[d] # "new" => pc[d] # "new"
                       /\ pc'[d] = "inserted" => pc[d] = "inserted"
  BY DEF PollsOf, RInv, RType
<1>3. TailKept' /\ KeysHaveValues' /\ UnknownIsLost'
  BY <1>1 DEF FreshInv, TailKept, KeysHaveValues, UnknownIsLost
<1>4. InTime'
  BY <1>1, <1>2 DEF FreshInv, InTime
<1>5. CASE UNCHANGED ret
  <2>1. FreshTypes' /\ ReturnsFresh'
    BY <1>1, <1>5 DEF FreshInv, FreshTypes, ReturnsFresh
  <2> QED BY <1>3, <1>4, <2>1 DEF FreshInv
<1>6. CASE ~UNCHANGED ret
  <2>1. PICK d \in Calls : /\ ret' = [ret EXCEPT ![c] = d]
                           /\ d \notin lost => stamp[d] # None /\ stamp[d] + Ttl >= begun[c]
    <3>1. CASE pc[c] # "new" /\ table[key[c]] # None /\ ret' = [ret EXCEPT ![c] = table[key[c]]]
      <4>1. key[c] \in Keys /\ table[key[c]] \in Calls
        BY <3>1 DEF RInv, RType
      <4>2. stamp[table[key[c]]] # None
        BY <3>1, <4>1 DEF RInv, ValueCounts
      <4> QED BY <3>1, <4>1, <4>2 DEF FreshInv, InTime
    <3>2. CASE pc[c] = "inserted" /\ ret' = [ret EXCEPT ![c] = c]
      BY <3>2 DEF FreshInv, InTime
    <3> QED BY <1>6, <3>1, <3>2 DEF PollsOf
  <2>2. FreshTypes'
    BY <1>1, <2>1 DEF FreshInv, FreshTypes
  <2>3. \A e \in Calls : ret'[e] = IF e = c THEN d ELSE ret[e]
    BY <2>1 DEF FreshInv, FreshTypes
  <2>4. ReturnsFresh'
    BY <1>1, <2>1, <2>3 DEF FreshInv, ReturnsFresh
  <2> QED BY <1>3, <1>4, <2>2, <2>4 DEF FreshInv
<1> QED BY <1>5, <1>6

(* The policy drops a key, and whoever inserts it is overtaken.              *)
LEMMA PruneFresh ==
  ASSUME NEW c \in Calls, RInv, Ttls!TtlInv, FreshInv, PruneOne(c)
  PROVE  FreshInv'
<1> DEFINE k == arena.nodes[arena.tail].item
<1>1. /\ UNCHANGED <<pc, key, ppc, pkey, born, now, alone, stamp, begun, ret>>
      /\ table' = [table EXCEPT ![k] = None]
      /\ expires' = [expires EXCEPT ![k] = None]
      /\ lost' = lost \cup {k} \cup {d \in Calls : ppc[d] = "inserting" /\ pkey[d] = k}
  BY DEF PruneOne, Remove, Policy!TtlPruneOne, Policy!Evict
<1>2. k \in Keys
  <2>1. Ttls!Due
    BY DEF PruneOne, Policy!Due, Ttls!Due, Policy!Expired, Ttls!Expired
  <2>2. \A x \in Ttls!Items(arena) : x \in Keys
    BY TtlsAssumptions, Ttls!ItemsAreKeys
  <2> QED BY <2>1, <2>2, TtlsAssumptions, Ttls!DueIsKey
<1> HIDE DEF k
<1>3. lost \subseteq lost' /\ \A d \in Calls : ppc[d] = "inserting" /\ key[d] = k => d \in lost'
  BY <1>1 DEF RInv, Coupled
<1>4. \A j \in Keys : /\ table'[j] = IF j = k THEN None ELSE table[j]
                      /\ expires'[j] = IF j = k THEN None ELSE expires[j]
  BY <1>1 DEF RInv, RType
<1>5. FreshTypes'
  BY <1>1, <1>2 DEF FreshInv, FreshTypes
<1>6. TailKept' /\ KeysHaveValues'
  BY <1>1, <1>4 DEF FreshInv, TailKept, KeysHaveValues
<1>7. UnknownIsLost'
  <2>1. \A j \in Keys : table'[j] # None /\ expires'[j] = None => table'[j] \in lost'
    BY <1>3, <1>4 DEF FreshInv, UnknownIsLost
  <2>2. ASSUME NEW d \in Calls, ppc[d] = "inserting", expires'[key[d]] = None
        PROVE  d \in lost'
    <3>1. key[d] \in Keys
      BY <2>2 DEF RInv, RType, Coupled
    <3> QED BY <1>3, <1>4, <2>2, <3>1 DEF FreshInv, UnknownIsLost
  <2> QED BY <1>1, <2>1, <2>2 DEF UnknownIsLost
<1>8. InTime'
  BY <1>1, <1>3, <1>4 DEF FreshInv, InTime
<1>9. ReturnsFresh'
  BY <1>1, <1>3 DEF FreshInv, ReturnsFresh
<1> QED BY <1>5, <1>6, <1>7, <1>8, <1>9 DEF FreshInv

(* A call begins when the policy has pruned.                                 *)
LEMMA ReadFresh ==
  ASSUME NEW c \in Calls, RInv, Ttls!TtlInv, FreshInv, Read(c)
  PROVE  FreshInv'
<1>1. /\ UNCHANGED <<table, now, stamp, expires, lost, alone>>
      /\ pc[c] = "new" /\ op[c] = "get" /\ pkey[c] \in Keys /\ ~Policy!Due
      /\ key' = [key EXCEPT ![c] = pkey[c]]
      /\ \E x \in {"waiting", "done"} : pc' = [pc EXCEPT ![c] = x]
      /\ ppc[c] = "pruning" /\ ppc' = [ppc EXCEPT ![c] = "idle"]
      /\ born' = [born EXCEPT ![c] = None]
      /\ begun' = [begun EXCEPT ![c] = now]
      /\ ret' = [ret EXCEPT ![c] = table[pkey[c]]]
  BY DEF RInv, Coupled, Read, GetOrInsertCall, Goto, Policy!TtlGet, Policy!Pruned,
     Policy!Return, Policy!Goto
<1>2. \A d \in Calls \ {c} : /\ key'[d] = key[d] /\ pc'[d] = pc[d] /\ ppc'[d] = ppc[d]
                             /\ born'[d] = born[d] /\ begun'[d] = begun[d] /\ ret'[d] = ret[d]
  BY <1>1 DEF RInv, RType, FreshInv, FreshTypes
<1>3. /\ ppc'[c] = "idle" /\ pc'[c] \in {"waiting", "done"} /\ begun'[c] = now
      /\ ret'[c] = table[pkey[c]]
  BY <1>1 DEF RInv, RType, FreshInv, FreshTypes
<1>4. now \in Nat
  BY DEF RInv, RType
<1>5. FreshTypes' /\ TailKept'
  BY <1>1, <1>4 DEF RInv, RType, FreshInv, FreshTypes, TailKept
<1>6. KeysHaveValues'
  BY <1>1, <1>2, <1>3 DEF FreshInv, KeysHaveValues
<1>7. UnknownIsLost'
  BY <1>1, <1>2, <1>3 DEF FreshInv, UnknownIsLost
<1>8. InTime'
  BY <1>1, <1>2, <1>3, <1>4, PrunedValues DEF FreshInv, InTime
<1>9. ReturnsFresh'
  <2>1. table[pkey[c]] # None => stamp[table[pkey[c]]] # None
    BY <1>1 DEF RInv, ValueCounts
  <2> QED BY <1>1, <1>2, <1>3, <2>1, PrunedValues DEF FreshInv, ReturnsFresh
<1> QED BY <1>5, <1>6, <1>7, <1>8, <1>9 DEF FreshInv

(* The policy counts an insert, of a key that it does not know.              *)
LEMMA CountFresh ==
  ASSUME NEW c \in Calls, RInv, Ttls!TtlInv, FreshInv, CountInsert(c)
  PROVE  FreshInv'
<1>1. /\ UNCHANGED <<table, pc, key, now, stamp, begun, lost, ret>>
      /\ pc[c] = "inserting" /\ pkey[c] = key[c] /\ ppc[c] = "pruning"
      /\ key[c] \in Keys /\ table[key[c]] = None
      /\ expires' = [expires EXCEPT ![key[c]] = now + Ttl]
      /\ born' = [born EXCEPT ![c] = now]
      /\ ppc' = [ppc EXCEPT ![c] = "inserting"]
  BY DEF RInv, RType, Coupled, CountInsert, vars, Policy!TtlInsert, Policy!Pruned, Policy!Goto
<1>2. \A d \in Calls : ppc[d] = "inserting" => d # c /\ key[d] # key[c]
  BY <1>1 DEF RInv, RType, Coupled, Holding
<1>3. expires[key[c]] = None /\ key[c] \notin Policy!Items(arena)
  BY <1>1, UnknownKey
<1>4. alone' = alone
  BY <1>1, <1>3 DEF CountInsert, Policy!TtlInsert, Policy!Enter
<1>5. now \in Nat
  BY DEF RInv, RType
<1>6. /\ \A d \in Calls \ {c} : ppc'[d] = ppc[d] /\ born'[d] = born[d]
      /\ ppc'[c] = "inserting" /\ born'[c] = now
      /\ \A d \in Calls : ppc[d] = "inserting" => key[d] \in Keys \ {key[c]}
  BY <1>1, <1>2 DEF RInv, RType, Coupled
<1>7. \A k \in Keys : expires'[k] = IF k = key[c] THEN now + Ttl ELSE expires[k]
  BY <1>1 DEF RInv, RType
<1>8. FreshTypes' /\ TailKept' /\ ReturnsFresh'
  BY <1>1, <1>4 DEF FreshInv, FreshTypes, TailKept, ReturnsFresh
<1>9. KeysHaveValues'
  BY <1>1, <1>2, <1>6, <1>7 DEF FreshInv, KeysHaveValues
<1>10. UnknownIsLost'
  BY <1>1, <1>5, <1>6, <1>7 DEF FreshInv, UnknownIsLost
<1>11. InTime'
  BY <1>1, <1>5, <1>6 DEF FreshInv, InTime
<1> QED BY <1>8, <1>9, <1>10, <1>11 DEF FreshInv

(* A value is written that every call may find.                              *)
LEMMA WriteFresh ==
  ASSUME NEW c \in Calls, RInv, FreshInv, WriteValue(c)
  PROVE  FreshInv'
<1>1. /\ UNCHANGED <<key, now, expires>>
      /\ key[c] \in Keys /\ stamp[c] = None /\ born[c] \in 0 .. now
      /\ pc[c] = "inserting" /\ ppc[c] = "inserting"
  BY WriteEffect
<1>2. /\ table' = [table EXCEPT ![key[c]] = c]
      /\ stamp' = [stamp EXCEPT ![c] = born[c]]
      /\ pc' = [pc EXCEPT ![c] = "inserted"]
      /\ ppc' = [ppc EXCEPT ![c] = "idle"]
      /\ born' = [born EXCEPT ![c] = None]
  BY WriteEffect
<1>3. UNCHANGED <<begun, lost, alone, ret>>
  BY DEF WriteValue, CacheInsert, Policy!InsertNoPolicy
<1>4. \A d \in Calls \ {c} : /\ pc'[d] = pc[d] /\ ppc'[d] = ppc[d]
                             /\ born'[d] = born[d] /\ stamp'[d] = stamp[d]
  BY <1>2 DEF RInv, RType
<1>5. /\ pc'[c] = "inserted" /\ ppc'[c] = "idle" /\ stamp'[c] = born[c]
      /\ born[c] # None
  BY <1>1, <1>2 DEF RInv, RType
<1>6. \A k \in Keys : table'[k] = IF k = key[c] THEN c ELSE table[k]
  BY <1>2 DEF RInv, RType
<1>7. FreshTypes' /\ TailKept'
  BY <1>3 DEF FreshInv, FreshTypes, TailKept
<1>8. KeysHaveValues'
  BY <1>1, <1>4, <1>6 DEF FreshInv, KeysHaveValues
<1>9. UnknownIsLost'
  BY <1>1, <1>3, <1>4, <1>5, <1>6 DEF FreshInv, UnknownIsLost
<1>10. \A k \in Keys \ {key[c]} : table'[k] = table[k] /\ (table[k] # None => table[k] \in Calls \ {c})
  BY <1>6 DEF RInv, RType, ValueCounts
<1>11. InTime'
  <2> SUFFICES ASSUME NEW d \in Calls, pc'[d] # "new"
               PROVE  /\ begun[d] \in 0 .. now
                      /\ \A k \in Keys : table'[k] # None /\ table'[k] \notin lost
                                           => stamp'[table'[k]] + Ttl >= begun[d]
                      /\ \A e \in Calls : ppc'[e] = "inserting" /\ e \notin lost
                                           => born'[e] + Ttl >= begun[d]
                      /\ pc'[d] = "inserted" /\ d \notin lost
                           => stamp'[d] # None /\ stamp'[d] + Ttl >= begun[d]
    BY <1>1, <1>3 DEF InTime
  <2>1. pc[d] # "new"
    BY <1>1, <1>4
  <2>2. c \notin lost => born[c] + Ttl >= begun[d]
    BY <1>1, <2>1 DEF FreshInv, InTime
  <2>3. begun[d] \in 0 .. now
    BY <2>1 DEF FreshInv, InTime
  <2>4. ASSUME NEW k \in Keys, table'[k] # None, table'[k] \notin lost
        PROVE  stamp'[table'[k]] + Ttl >= begun[d]
    <3>1. CASE k = key[c]
      BY <1>5, <1>6, <2>2, <2>4, <3>1
    <3>2. CASE k # key[c]
      BY <1>4, <1>10, <2>1, <2>4, <3>2 DEF FreshInv, InTime
    <3> QED BY <3>1, <3>2
  <2>5. ASSUME NEW e \in Calls, ppc'[e] = "inserting", e \notin lost
        PROVE  born'[e] + Ttl >= begun[d]
    BY <1>4, <1>5, <2>1, <2>5 DEF FreshInv, InTime
  <2>6. ASSUME pc'[d] = "inserted", d \notin lost
        PROVE  stamp'[d] # None /\ stamp'[d] + Ttl >= begun[d]
    <3>1. CASE d = c
      BY <1>5, <2>2, <2>6, <3>1
    <3>2. CASE d # c
      BY <1>4, <2>1, <2>6, <3>2 DEF FreshInv, InTime
    <3> QED BY <3>1, <3>2
  <2> QED BY <2>3, <2>4, <2>5, <2>6
<1>12. ReturnsFresh'
  <2> SUFFICES ASSUME NEW d \in Calls, ret[d] # None, ret[d] \notin lost
               PROVE  stamp'[ret[d]] # None /\ stamp'[ret[d]] + Ttl >= begun[d]
    BY <1>3 DEF ReturnsFresh
  <2>1. stamp[ret[d]] # None /\ stamp[ret[d]] + Ttl >= begun[d] /\ ret[d] \in Calls
    BY DEF FreshInv, FreshTypes, ReturnsFresh
  <2> QED BY <1>1, <1>4, <2>1
<1> QED BY <1>7, <1>8, <1>9, <1>11, <1>12 DEF FreshInv

(* The clock goes on.                                                        *)
LEMMA TickFresh ==
  ASSUME RInv, FreshInv, Tick
  PROVE  FreshInv'
<1>1. /\ UNCHANGED <<table, pc, key, ppc, born, expires, alone, stamp, begun, lost, ret>>
      /\ now' = now + 1 /\ now \in Nat
  BY DEF Tick, vars, Policy!Tick, RInv, RType
<1>2. /\ FreshTypes' /\ TailKept' /\ KeysHaveValues'
      /\ UnknownIsLost' /\ ReturnsFresh'
  BY <1>1 DEF FreshInv, FreshTypes, TailKept, KeysHaveValues, UnknownIsLost, ReturnsFresh
<1>3. InTime'
  BY <1>1 DEF FreshInv, InTime
<1> QED BY <1>2, <1>3 DEF FreshInv

(* The invariant holds at first.                                             *)
LEMMA FreshInit == RefreshInit => FreshInv
  BY DEF RefreshInit, Init, Policy!Init, FreshInv, FreshTypes, TailKept,
     KeysHaveValues, UnknownIsLost, InTime, ReturnsFresh

(* And in every step.                                                        *)
LEMMA FreshStep ==
  RInv /\ Ttls!TtlInv /\ FreshInv /\ [RefreshNext]_refreshVars => FreshInv'
<1> SUFFICES ASSUME RInv, Ttls!TtlInv, FreshInv, [RefreshNext]_refreshVars
             PROVE  FreshInv'
  OBVIOUS
<1>1. CASE UNCHANGED refreshVars
  <2> USE <1>1 DEF FreshInv, refreshVars, vars, policyVars
  <2>1. FreshTypes' /\ TailKept' /\ KeysHaveValues' /\ UnknownIsLost'
    BY DEF FreshTypes, TailKept, KeysHaveValues, UnknownIsLost
  <2>2. InTime' /\ ReturnsFresh'
    BY DEF InTime, ReturnsFresh
  <2> QED BY <2>1, <2>2
<1> QED
  BY <1>1, Steps, BeginFresh, PruneFresh, ReadFresh, PollFresh, CountFresh, WriteFresh, TickFresh

(* The policy counts every insert before its value is written and prunes     *)
(* before a call reads, so that all values are in time but those whose       *)
(* insert it has overtaken (ttl.rs:58-73, cache.rs:197).                     *)
THEOREM FreshInvariant == RefreshSpec => []FreshInv
<1>1. RefreshSpec => [](RInv /\ Ttls!TtlInv)
  BY RefreshInvariant, PolicyInvariant, PTL
<1> QED BY <1>1, FreshInit, FreshStep, PTL DEF RefreshSpec

(* cache.rs:197.  When the policy has pruned, no value in the table has      *)
(* outlived its time to live but one whose insert the policy overtook.       *)
THEOREM PrunesAllButOvertaken == RefreshSpec => []FreshUnlessOvertaken
<1>1. RInv /\ Ttls!TtlInv /\ FreshInv => FreshUnlessOvertaken
  BY PrunedValues DEF FreshUnlessOvertaken
<1> QED BY <1>1, RefreshInvariant, PolicyInvariant, FreshInvariant, PTL

(* get_or_insert.rs:228.  No call returns a value that had expired when it   *)
(* began, also when a poll finds it without the policy, unless the value's   *)
(* insert was overtaken.                                                     *)
THEOREM NothingStaleReturned == RefreshSpec => []ReturnsFresh
<1>1. FreshInv => ReturnsFresh
  BY DEF FreshInv
<1> QED BY <1>1, FreshInvariant, PTL

(* linked_arena.rs:155.  The policy never counts a key that is in its list,  *)
(* so that a cache with a refresher does not lose the tail.                  *)
THEOREM KeysAreNew == RefreshSpec => []InsertsOnlyNewKeys
<1>1. RInv /\ Ttls!TtlInv /\ FreshInv => InsertsOnlyNewKeys
  BY UnknownKey, SMT DEF InsertsOnlyNewKeys, RInv, Coupled
<1> QED BY <1>1, RefreshInvariant, PolicyInvariant, FreshInvariant, PTL

(* The variables of the futures, of the policy and of the cache have their   *)
(* types, and every index into the arena is one of its Vec.                  *)
THEOREM RefreshTypes == RefreshSpec => []RefreshTypeOK
<1>1. Ttls!Spec => []Ttls!TypeOK
  BY TtlsAssumptions, Ttls!TtlTypes
<1>2. ASSUME RInv, FreshInv, TypeOK, Ttls!TypeOK
      PROVE  RefreshTypeOK
  <2>1. Policy!TypeOK
    BY <1>2 DEF Policy!TypeOK, Ttls!TypeOK, Policy!Times, Ttls!Times, Policy!Items,
       Ttls!Items, Policy!InBounds, Ttls!InBounds, Policy!Indices, Ttls!Indices,
       Policy!Ops, Ttls!Ops
  <2> QED BY <1>2, <2>1 DEF RefreshTypeOK, RInv, RType, Coupled, FreshInv, FreshTypes
<1> QED
  BY <1>1, <1>2, TypeCorrect, RefreshInvariant, FreshInvariant, FuturesUnchanged,
     PolicyUnchanged, PTL
  DEF ImplementsAsyncInsert, ImplementsTtlPolicy

-------------------------------------------------------------------------------
(* Keys that the policy has not dropped                                      *)

(* What is lost stays lost, and no other key loses its value.                *)
LEMMA OnlyLostKeys ==
  ASSUME RInv, [RefreshNext]_refreshVars
  PROVE  /\ lost \subseteq lost'
         /\ \A k \in Keys \ lost' : table[k] # None => table'[k] # None
<1>1. ASSUME NEW c \in Calls, PruneOne(c)
      PROVE  /\ lost \subseteq lost'
             /\ \A k \in Keys \ lost' : table'[k] = table[k]
  <2> DEFINE q == arena.nodes[arena.tail].item
  <2>1. q \in lost' /\ lost \subseteq lost' /\ table' = [table EXCEPT ![q] = None]
    BY <1>1 DEF PruneOne, Remove
  <2> HIDE DEF q
  <2> QED BY <2>1 DEF RInv, RType
<1>2. ASSUME NEW c \in Calls, \/ Begins(c) /\ UNCHANGED <<vars, stamp>>
                             \/ PollsOf(c) \/ CountInsert(c) \/ Read(c)
      PROVE  UNCHANGED <<lost, table>>
  BY <1>2 DEF Begins, PollsOf, CountInsert, Read, GetOrInsertCall, vars
<1>3. ASSUME NEW c \in Calls, WriteValue(c)
      PROVE  /\ UNCHANGED lost
             /\ \A k \in Keys : table[k] # None => table'[k] # None
  <2>1. UNCHANGED lost /\ table' = [table EXCEPT ![key[c]] = c] /\ c # None
    BY <1>3 DEF WriteValue, CacheInsert
  <2> QED BY <2>1 DEF RInv, RType
<1>4. CASE Tick \/ UNCHANGED refreshVars
  BY <1>4 DEF Tick, refreshVars, vars
<1> QED BY <1>1, <1>2, <1>3, <1>4, Steps

(* To them the policy does nothing, and what the futures keep for a key      *)
(* whose value stays is kept.                                                *)
KeptKeys == DropsAreCounted /\ \A k \in Keys \ lost : CountInv(k)

(* The invariant of the mutex and that of the kept keys hold in every state. *)
LEMMA KeptKeysInvariant == RefreshSpec => [](MutexInv /\ KeptKeys)
<1>1. RefreshInit => KeptKeys
  BY CountInit DEF RefreshInit, KeptKeys
<1>2. RInv /\ MutexInv /\ KeptKeys /\ [RefreshNext]_refreshVars => KeptKeys'
  <2> SUFFICES ASSUME RInv, MutexInv, KeptKeys, [RefreshNext]_refreshVars
               PROVE  KeptKeys'
    OBVIOUS
  <2>1. [Next]_vars
    BY AsyncStep
  <2>2. DropsAreCounted'
    BY <2>1, DropsStep DEF KeptKeys, MutexInv
  <2>3. ASSUME NEW k \in Keys \ lost'
        PROVE  CountInv(k)'
    <3>1. CountInv(k) /\ (table[k] # None => table'[k] # None)
      BY OnlyLostKeys DEF KeptKeys
    <3> QED BY <2>1, <3>1, CountStep DEF KeptKeys
  <2> QED BY <2>2, <2>3 DEF KeptKeys
<1>3. RefreshSpec => []MutexInv
  BY FuturesUnchanged, MutexInvariant, PTL DEF ImplementsAsyncInsert
<1> QED BY <1>1, <1>2, <1>3, RefreshInvariant, PTL DEF RefreshSpec

(* cache.rs:25.  For any number of calls and keys: a key that the policy has *)
(* not dropped is refreshed by one call at a time, which finds its node.     *)
THEOREM RefreshedOnceAtATime == RefreshSpec => []OneRefreshAtATime
<1>1. MutexInv /\ KeptKeys => OneRefreshAtATime
  <2> SUFFICES ASSUME MutexInv, KeptKeys, NEW k \in Keys \ lost
               PROVE  /\ \A c, d \in Computing(k) : c = d
                      /\ \A c \in Calls : pc[c] = "inserted" /\ key[c] = k => waiters[k] # None
    BY DEF OneRefreshAtATime
  <2>1. CountInv(k)
    BY DEF KeptKeys
  <2>2. Counted(k) \subseteq CoopCalls
    BY DEF MutexInv, TypeOK, Counted
  <2>3. \A c \in Calls : pc[c] = "inserted" /\ key[c] = k => c \in Counted(k)
    BY DEF Counted
  <2> QED BY <2>1, <2>2, <2>3 DEF CountInv, Computing, Holding
<1> QED BY <1>1, KeptKeysInvariant, PTL

(* get_or_insert.rs:241.  If no refresher panics before it has its future    *)
(* and no get changes its task: for any number of calls and keys, whoever    *)
(* waits for a key that the policy has not dropped, with nothing to poll it, *)
(* is on the wakers of its node and somebody is there to wake it.            *)
THEOREM NoRefreshWakeLost ==
  ASSUME "init_panic" \notin Usage, "migrate" \notin Usage
  PROVE  RefreshSpec => []WaitersAreServed
<1> DEFINE Parked == \A k \in Keys \ lost : ParkedInv(k)
<1>1. RefreshInit => Parked
  BY DEF RefreshInit, Init, ParkedInv
<1>2. RInv /\ MutexInv /\ KeptKeys /\ Parked /\ [RefreshNext]_refreshVars => Parked'
  <2> SUFFICES ASSUME RInv, MutexInv, KeptKeys, Parked, [RefreshNext]_refreshVars,
                      NEW k \in Keys \ lost'
               PROVE  ParkedInv(k)'
    OBVIOUS
  <2>1. [Next]_vars
    BY AsyncStep
  <2>2. k \notin lost /\ (table[k] # None => table'[k] # None)
    BY OnlyLostKeys
  <2>3. /\ TypeOK /\ DropsAreCounted
        /\ \A c \in Calls : key[c] = k /\ pc[c] = "inserted" => table[k] # None
    BY <2>2 DEF MutexInv, KeptKeys, CountInv
  <2> QED BY <2>1, <2>2, <2>3, ParkedStep
<1>3. TypeOK /\ Parked /\ NoPhantomWorker => WaitersAreServed
  BY DEF TypeOK, ParkedInv, NoPhantomWorker, WaitersAreServed
<1>4. RefreshSpec => []NoPhantomWorker
  BY FuturesUnchanged, WorkersAreReal, PTL DEF ImplementsAsyncInsert
<1>5. MutexInv => TypeOK
  BY DEF MutexInv
<1> HIDE DEF Parked
<1> QED
  BY <1>1, <1>2, <1>3, <1>4, <1>5, RefreshInvariant, KeptKeysInvariant, PTL DEF RefreshSpec
================================================================================
