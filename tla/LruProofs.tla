------------------------------- MODULE LruProofs -------------------------------
(***************************************************************************)
(* The invariants of LruPolicy, for any threads, keys, capacity and ttl.    *)
(***************************************************************************)
EXTENDS LruPolicy, PolicyProofs

(* The queue holds the keys of the arena, or nothing if there is no ttl.     *)
Queued ==
  \A k \in Keys : expires[k] # None <=> Ttl # None /\ k \in Items(arena)

(* Who is about to evict has put its key in front, and one key too many      *)
(* perhaps.                                                                  *)
Full(n) ==
  ~alone => /\ n <= Capacity + 1
            /\ (\A t \in Threads : pc[t] # "evicting") => n <= Capacity

Front(n, c) == \A t \in Threads : pc[t] = "evicting" => 1 \in 1 .. n /\ key[t] = c[1]

Held(n, c) == Tracked(n, c) /\ Full(n) /\ Front(n, c)

(* The inductive invariant of LruPolicy.                                     *)
LruInv ==
  /\ Types
  /\ Exclusive
  /\ Agrees
  /\ Queued
  /\ \E n \in Nat : \E c : Held(n, c)

(* What the invariant and the assumptions give at once.                       *)
LEMMA LruFacts ==
  ASSUME LruInv
  PROVE  /\ KeyTypes /\ ThreadTypes /\ Agrees /\ Exclusive /\ Queued
         /\ None \notin Nat /\ None \notin Ops
         /\ now \in Nat
         /\ Capacity \in Nat /\ Capacity > 1
BY PolicyAssumption, LruAssumption DEF LruInv, Types, KeyTypes, Times

(* A key leaves the arena and the queue, in a step of the thread that has    *)
(* the mutex to a stage without it, or in a round of prune.                  *)
LEMMA LruGone ==
  ASSUME LruInv, NEW k \in Items(arena), arena' = Remove(arena, arena.idx_of[k]),
         expires' = [expires EXCEPT ![k] = None], UNCHANGED alone,
         NEW t \in Threads, pc[t] \in {"pruning", "evicting"},
         NEW stage \in {"pruning", "inserting", "removing"}, Goto(t, stage)
  PROVE  /\ k \in Keys
         /\ Items(arena') = Items(arena) \ {k}
         /\ Queued'
         /\ (\E n \in Nat : \E c : Held(n, c))'
<1>1. PICK n \in Nat : \E c : Held(n, c)
  BY DEF LruInv
<1>2. PICK c : Held(n, c)
  BY <1>1
<1>3. KeyTypes /\ ThreadTypes /\ Exclusive /\ Queued /\ None \notin Nat /\ Capacity \in Nat
  BY LruFacts
<1>4. /\ n \in Nat \ {0}
      /\ \E r \in 1 .. n : c[r] = k /\ Tracked(n - 1, Dropped(c, n, r))'
      /\ Items(arena') = Items(arena) \ {k}
  BY <1>2, RemoveTracked DEF Held
<1>5. PICK r \in 1 .. n : c[r] = k /\ Tracked(n - 1, Dropped(c, n, r))'
  BY <1>4
<1>6. Items(arena) \subseteq Keys
  BY <1>2, <1>3, ListIs DEF Tracked, Held
<1>7. \A u \in Threads : pc'[u] # "evicting"
  <2>1. \A u \in Threads : pc'[u] = IF u = t THEN stage ELSE pc[u]
    BY <1>3 DEF Goto, ThreadTypes
  <2> QED BY <1>3, <2>1 DEF Exclusive
<1>8. Queued'
  <2>1. \A q \in Keys : expires'[q] = IF q = k THEN None ELSE expires[q]
    BY <1>3 DEF KeyTypes
  <2> QED BY <1>3, <1>4, <1>6, <2>1 DEF Queued
<1>9. n - 1 \in Nat
  BY <1>4
<1>10. Full(n - 1)'
  BY <1>2, <1>3, <1>9 DEF Full, Held
<1>11. Front(n - 1, Dropped(c, n, r))'
  <2> DEFINE d == Dropped(c, n, r)
  <2> HIDE DEF d
  <2>1. Front(n - 1, d)'
    BY <1>7 DEF Front
  <2> QED BY <2>1 DEF d
<1> QED BY <1>4, <1>5, <1>6, <1>8, <1>9, <1>10, <1>11 DEF Held

(* A round of prune.                                                         *)
LEMMA PruneOneInv ==
  ASSUME LruInv, NEW t \in Threads, LruPruneOne(t)
  PROVE  LruInv'
<1>1. PICK k \in Keys : /\ FirstExpired(k)
                        /\ arena' = RemoveItem(arena, k)
                        /\ table' = [table EXCEPT ![k] = None]
                        /\ expires' = [expires EXCEPT ![k] = None]
                        /\ Cross(t, k)
  BY DEF LruPruneOne
<1>2. pc[t] = "pruning" /\ UNCHANGED <<pc, op, key, born, now, alone>>
  BY DEF LruPruneOne
<1>3. KeyTypes /\ ThreadTypes /\ Agrees /\ Exclusive /\ Queued
  BY LruFacts
<1>4. k \in Items(arena) /\ arena' = Remove(arena, arena.idx_of[k])
  <2>1. k \in Items(arena)
    BY <1>1, <1>3 DEF FirstExpired, Expired, Queued
  <2> QED BY <1>1, <2>1 DEF RemoveItem
<1>5. PICK stage \in {"pruning", "inserting", "removing"} : stage = pc[t] /\ Goto(t, stage)
  BY <1>2, <1>3 DEF Goto, ThreadTypes
<1>6. /\ Items(arena') = Items(arena) \ {k}
      /\ Queued'
      /\ (\E n \in Nat : \E c : Held(n, c))'
  BY <1>1, <1>2, <1>4, <1>5, LruGone
<1>7. KeyTypes' /\ ThreadTypes'
  BY <1>1, <1>2, <1>3, SameThreadTypes DEF KeyTypes, Times, Cross
<1>8. Agrees'
  BY <1>1, <1>2, <1>3, <1>5, <1>6, EvictAgrees
<1>9. Exclusive'
  BY <1>2, <1>3 DEF Exclusive
<1> QED BY <1>6, <1>7, <1>8, <1>9 DEF LruInv, Types

(* evict.                                                                    *)
LEMMA EvictInv ==
  ASSUME LruInv, NEW t \in Threads, LruEvict(t)
  PROVE  LruInv'
<1>1. /\ pc[t] = "evicting" /\ Goto(t, "inserting")
      /\ UNCHANGED <<op, key, born, now, alone>>
  BY DEF LruEvict
<1>2. KeyTypes /\ ThreadTypes /\ Agrees /\ Exclusive /\ Queued /\ None \notin Nat
      /\ None \notin Ops /\ Capacity \in Nat /\ Capacity > 1
  BY LruFacts
<1>3. PICK n \in Nat : \E c : Held(n, c)
  BY DEF LruInv
<1>4. PICK c : Held(n, c)
  BY <1>3
<1>5. /\ Len(arena.nodes) = n
      /\ ItemsAre(arena, n, c)
      /\ c \in [1 .. n -> Keys]
  BY <1>2, <1>4, ListIs DEF Held, Tracked
<1>6. ThreadTypes'
  <2>1. op[t] \notin {None, "prune"}
    BY <1>1, <1>2 DEF ThreadTypes, ThreadType
  <2>2. /\ born' \in [Threads -> Times \cup {None}]
        /\ \A u \in Threads \ {t} : born'[u] = born[u]
        /\ born'[t] # None
    BY <1>1, <1>2 DEF ThreadTypes, ThreadType
  <2> QED BY <1>1, <1>2, <2>1, <2>2, StageTypes
<1>7. Exclusive'
  BY <1>1, <1>2, ExclusiveKept
<1>8. CASE n > Capacity /\ arena.tail # None
  <2>1. n \in 1 .. n /\ arena.nodes[arena.tail].item = c[n] /\ c[n] \in Items(arena)
        /\ arena.tail = arena.idx_of[c[n]]
    BY <1>4, <1>8, TailIs DEF Held
  <2>2. PICK k \in Keys : k = c[n]
    BY <1>5, <2>1
  <2>3. /\ arena' = Remove(arena, arena.idx_of[k])
        /\ table' = [table EXCEPT ![k] = None]
        /\ expires' = [expires EXCEPT ![k] = None]
        /\ Cross(t, k)
    BY <1>5, <1>8, <2>1, <2>2 DEF LruEvict, Evict
  <2>4. /\ Items(arena') = Items(arena) \ {k}
        /\ Queued'
        /\ (\E m \in Nat : \E d : Held(m, d))'
    BY <1>1, <2>1, <2>2, <2>3, LruGone
  <2>5. key[t] # k
    <3>1. 1 \in 1 .. n /\ key[t] = c[1]
      BY <1>1, <1>4 DEF Held, Front
    <3>2. n # 1
      BY <1>2, <1>8
    <3> QED BY <1>5, <2>1, <2>2, <3>1, <3>2 DEF ItemsAre
  <2>6. KeyTypes'
    BY <1>1, <1>2, <2>3 DEF KeyTypes, Times, Cross
  <2>7. Agrees'
    BY <1>1, <1>2, <2>2, <2>3, <2>4, <2>5, EvictAgrees
  <2> QED BY <1>6, <1>7, <2>4, <2>6, <2>7 DEF LruInv, Types
<1>9. CASE ~(n > Capacity /\ arena.tail # None)
  <2>1. UNCHANGED <<table, arena, expires, crossed>>
    BY <1>5, <1>9 DEF LruEvict
  <2>2. KeyTypes'
    BY <1>1, <1>2, <2>1 DEF KeyTypes, Times
  <2>3. Agrees'
    BY <1>1, <1>2, <2>1, StayAgrees
  <2>4. Queued'
    BY <1>2, <2>1 DEF Queued
  <2>5. \A u \in Threads : pc'[u] # "evicting"
    <3>1. \A u \in Threads : pc'[u] = IF u = t THEN "inserting" ELSE pc[u]
      BY <1>1, <1>2 DEF Goto, ThreadTypes
    <3> QED BY <1>1, <1>2, <3>1 DEF Exclusive
  <2>6. Tracked(n, c)'
    BY <1>1, <1>4, <2>1, SameTracked DEF Held
  <2>7. Full(n)'
    <3>1. ~alone => n <= Capacity
      <4>1. ~alone /\ n # 0 => arena.tail # None
        BY <1>4 DEF Held, Tracked, HasTail
      <4> QED BY <1>2, <1>9, <4>1
    <3> QED BY <1>1, <1>2, <3>1 DEF Full
  <2>8. Front(n, c)'
    BY <2>5 DEF Front
  <2>9. Held(n, c)'
    BY <2>6, <2>7, <2>8 DEF Held
  <2> QED BY <1>6, <1>7, <2>2, <2>3, <2>4, <2>9 DEF LruInv, Types
<1> QED BY <1>8, <1>9

(* An insert is counted: the key is in front, and is in the queue if there   *)
(* is a ttl.                                                                 *)
LEMMA InsertInv ==
  ASSUME LruInv, NEW t \in Threads, LruInsert(t)
  PROVE  LruInv'
<1>1. /\ pc[t] = "pruning" /\ op[t] = "insert"
      /\ IF key[t] \in Items(arena) THEN Touch(key[t]) ELSE Enter(key[t])
      /\ expires' = [expires EXCEPT ![key[t]] = IF Ttl = None THEN None ELSE now + Ttl]
      /\ Cross(t, key[t])
      /\ born' = [born EXCEPT ![t] = now]
      /\ Goto(t, "evicting")
      /\ UNCHANGED <<table, op, key, now>>
  BY DEF LruInsert, Pruned
<1>2. /\ KeyTypes /\ ThreadTypes /\ Agrees /\ Exclusive /\ Queued
      /\ None \notin Nat /\ None \notin Ops /\ now \in Nat /\ Capacity \in Nat
  BY LruFacts
<1>3. key[t] \in Keys /\ op[t] \notin {None, "prune"}
  <2>1. "insert" # None
    BY <1>2 DEF Ops
  <2> QED BY <1>1, <1>2, <2>1 DEF ThreadTypes, ThreadType
<1>4. PICK k \in Keys : k = key[t]
  BY <1>3
<1>5. PICK n \in Nat : \E c : Held(n, c)
  BY DEF LruInv
<1>6. PICK c : Held(n, c)
  BY <1>5
<1>7. Tracked(n, c) /\ Full(n)
  BY <1>6 DEF Held
<1>8. \A u \in Threads : pc'[u] = "evicting" => u = t
  <2>1. \A u \in Threads : pc'[u] = IF u = t THEN "evicting" ELSE pc[u]
    BY <1>1, <1>2 DEF Goto, ThreadTypes
  <2> QED BY <1>1, <1>2, <2>1 DEF Exclusive
<1>9. ~alone => n <= Capacity
  <2>1. \A u \in Threads : pc[u] # "evicting"
    BY <1>1, <1>2 DEF Exclusive
  <2> QED BY <1>7, <2>1 DEF Full
<1>10. ASSUME k \in Items(arena)
       PROVE  /\ Items(arena') = Items(arena) \cup {k}
              /\ alone' \in BOOLEAN
              /\ (\E m \in Nat : \E d : Held(m, d))'
  <2>1. /\ \E r \in 1 .. n : c[r] = k /\ Tracked(n, Raised(c, n, r))'
        /\ Items(arena') = Items(arena)
        /\ alone' \in BOOLEAN
    BY <1>1, <1>4, <1>7, <1>10, TouchTracked
  <2>2. PICK r \in 1 .. n : c[r] = k /\ Tracked(n, Raised(c, n, r))'
    BY <2>1
  <2> DEFINE d == Raised(c, n, r)
  <2>3. 1 \in 1 .. n /\ d[1] = k
    BY <2>2 DEF Raised
  <2>4. Tracked(n, d)'
    BY <2>2
  <2> HIDE DEF d
  <2>5. Front(n, d)'
    BY <1>1, <1>4, <1>8, <2>3 DEF Front
  <2>6. Full(n)'
    <3>1. alone => alone'
      BY <1>1, <1>4, <1>10 DEF Touch
    <3> QED BY <1>2, <1>9, <3>1 DEF Full
  <2>7. Held(n, d)'
    BY <2>4, <2>5, <2>6 DEF Held
  <2> QED BY <1>10, <2>1, <2>7
<1>11. ASSUME k \notin Items(arena)
       PROVE  /\ Items(arena') = Items(arena) \cup {k}
              /\ alone' \in BOOLEAN
              /\ (\E m \in Nat : \E d : Held(m, d))'
  <2>1. /\ Tracked(n + 1, Pushed(c, n, k))'
        /\ Items(arena') = Items(arena) \cup {k}
        /\ alone' = alone
    BY <1>1, <1>4, <1>7, <1>11, EnterTracked
  <2> DEFINE d == Pushed(c, n, k)
  <2>2. 1 \in 1 .. n + 1 /\ d[1] = k
    BY DEF Pushed
  <2>3. Tracked(n + 1, d)'
    BY <2>1
  <2> HIDE DEF d
  <2>4. Front(n + 1, d)'
    BY <1>1, <1>4, <1>8, <2>2 DEF Front
  <2>5. Full(n + 1)'
    <3>1. pc'[t] = "evicting"
      BY <1>1, <1>2 DEF Goto, ThreadTypes
    <3> QED BY <1>2, <1>9, <2>1, <3>1 DEF Full
  <2>6. n + 1 \in Nat
    OBVIOUS
  <2>7. Held(n + 1, d)'
    BY <2>3, <2>4, <2>5 DEF Held
  <2>8. alone' \in BOOLEAN
    BY <1>2, <2>1 DEF KeyTypes
  <2> QED BY <2>1, <2>6, <2>7, <2>8
<1>12. /\ Items(arena') = Items(arena) \cup {k}
       /\ alone' \in BOOLEAN
       /\ (\E m \in Nat : \E d : Held(m, d))'
  BY <1>10, <1>11
<1>13. /\ expires' = [expires EXCEPT ![k] = Expiry(now)]
       /\ Expiry(now) \in Nat \cup {None}
       /\ Expiry(now) # None <=> Ttl # None
  BY <1>1, <1>2, <1>4, LruAssumption DEF Expiry
<1>14. Queued'
  <2>1. \A q \in Keys : expires'[q] = IF q = k THEN Expiry(now) ELSE expires[q]
    BY <1>2, <1>13 DEF KeyTypes
  <2> QED BY <1>2, <1>12, <1>13, <2>1 DEF Queued
<1>15. KeyTypes'
  <2> DEFINE e == Expiry(now)
  <2>1. e \in Nat \cup {None} /\ expires' = [expires EXCEPT ![k] = e]
    BY <1>13
  <2> HIDE DEF e
  <2>2. expires' \in [Keys -> Nat \cup {None}]
    BY <1>2, <2>1 DEF KeyTypes
  <2>3. crossed' \subseteq Keys /\ alone' \in BOOLEAN
    BY <1>1, <1>2, <1>4, <1>12 DEF KeyTypes, Cross
  <2> QED BY <1>1, <1>2, <2>2, <2>3 DEF KeyTypes, Times
<1>16. ThreadTypes'
  <2>1. now \in Times /\ now # None /\ born \in [Threads -> Times \cup {None}]
    BY <1>2 DEF KeyTypes, ThreadTypes, Times
  <2>2. /\ born' \in [Threads -> Times \cup {None}]
        /\ born'[t] # None
        /\ \A u \in Threads \ {t} : born'[u] = born[u]
    BY <1>1, <2>1
  <2> QED BY <1>1, <1>2, <1>3, <2>2, StageTypes
<1>17. Agrees'
  <2>1. /\ pc'[t] = "evicting" /\ born'[t] = now
        /\ \A u \in Threads \ {t} : born'[u] = born[u]
    BY <1>1, <1>2 DEF Goto, ThreadTypes
  <2> DEFINE e == Expiry(now)
  <2>2. expires' = [expires EXCEPT ![k] = e]
    BY <1>13
  <2> HIDE DEF e
  <2>3. expires'[k] = e /\ \A q \in Keys \ {k} : expires'[q] = expires[q]
    BY <1>2, <2>2 DEF KeyTypes
  <2>4. Ahead(t, k)'
    BY <1>12, <2>1, <2>3 DEF Ahead, Expiry, e
  <2> QED BY <1>1, <1>2, <1>4, <1>12, <2>1, <2>3, <2>4, CountAgrees
<1>18. Exclusive'
  BY <1>1, <1>2, ExclusiveKept
<1> QED BY <1>12, <1>14, <1>15, <1>16, <1>17, <1>18 DEF LruInv, Types

(* get: a key that is tracked is in front, then the map is read.             *)
LEMMA GetInv ==
  ASSUME LruInv, NEW t \in Threads, LruGet(t)
  PROVE  LruInv'
<1>1. /\ pc[t] = "pruning" /\ op[t] = "get" /\ Goto(t, "getting")
      /\ IF key[t] \in Items(arena) THEN Touch(key[t]) ELSE UNCHANGED <<arena, alone>>
      /\ UNCHANGED <<table, expires, op, key, born, now, crossed>>
  BY DEF LruGet, Pruned
<1>2. /\ KeyTypes /\ ThreadTypes /\ Agrees /\ Exclusive /\ Queued
      /\ None \notin Nat /\ None \notin Ops /\ now \in Nat /\ Capacity \in Nat
  BY LruFacts
<1>3. op[t] \notin {None, "prune"}
  <2>1. "get" # None
    BY <1>2 DEF Ops
  <2> QED BY <1>1, <2>1
<1>4. PICK n \in Nat : \E c : Held(n, c)
  BY DEF LruInv
<1>5. PICK c : Held(n, c)
  BY <1>4
<1>6. \A u \in Threads : pc[u] # "evicting" /\ pc'[u] # "evicting"
  <2>1. \A u \in Threads : pc'[u] = IF u = t THEN "getting" ELSE pc[u]
    BY <1>1, <1>2 DEF Goto, ThreadTypes
  <2> QED BY <1>1, <1>2, <2>1 DEF Exclusive
<1>7. /\ Items(arena') = Items(arena)
      /\ alone' \in BOOLEAN
      /\ alone => alone'
      /\ \E d : Tracked(n, d)'
  <2>1. CASE key[t] \in Items(arena)
    <3>1. PICK k \in Items(arena) : k = key[t]
      BY <2>1
    <3>2. /\ \E r \in 1 .. n : c[r] = k /\ Tracked(n, Raised(c, n, r))'
          /\ Items(arena') = Items(arena)
          /\ alone' \in BOOLEAN
          /\ alone => alone'
      BY <1>1, <1>5, <3>1, TouchTracked DEF Held
    <3>3. PICK r \in 1 .. n : Tracked(n, Raised(c, n, r))'
      BY <3>2
    <3> QED BY <3>2, <3>3
  <2>2. CASE key[t] \notin Items(arena)
    <3>1. arena' = arena /\ alone' = alone /\ alone \in BOOLEAN
      BY <1>1, <1>2, <2>2 DEF KeyTypes
    <3>2. Tracked(n, c)'
      BY <1>5, <3>1, SameTracked DEF Held
    <3> QED BY <3>1, <3>2
  <2> QED BY <2>1, <2>2
<1>8. PICK d : Tracked(n, d)'
  BY <1>7
<1>9. Front(n, d)'
  BY <1>6 DEF Front
<1>10. Full(n)'
  BY <1>2, <1>5, <1>6, <1>7 DEF Held, Full
<1>11. Held(n, d)'
  BY <1>8, <1>9, <1>10 DEF Held
<1>12. Queued'
  BY <1>1, <1>2, <1>7 DEF Queued
<1>13. KeyTypes'
  BY <1>1, <1>2, <1>7 DEF KeyTypes, Times
<1>14. ThreadTypes'
  <2>1. /\ born' \in [Threads -> Times \cup {None}]
        /\ \A u \in Threads \ {t} : born'[u] = born[u]
    BY <1>1, <1>2 DEF ThreadTypes
  <2> QED BY <1>1, <1>2, <1>3, <2>1, StageTypes
<1>15. Agrees'
  BY <1>1, <1>2, <1>7, QuietAgrees
<1>16. Exclusive'
  BY <1>1, <1>2, ExclusiveKept
<1> QED BY <1>11, <1>12, <1>13, <1>14, <1>15, <1>16 DEF LruInv, Types

(* The steps that change neither the arena nor the queue, and after which    *)
(* nobody evicts who did not evict the same key before.                      *)
LEMMA SameList ==
  ASSUME LruInv, UNCHANGED <<arena, expires>>, alone' = alone,
         \A u \in Threads : /\ pc'[u] = "evicting" <=> pc[u] = "evicting"
                            /\ pc[u] = "evicting" => key'[u] = key[u]
  PROVE  Queued' /\ (\E n \in Nat : \E c : Held(n, c))'
<1>1. PICK n \in Nat : \E c : Held(n, c)
  BY DEF LruInv
<1>2. PICK c : Held(n, c)
  BY <1>1
<1>3. Tracked(n, c)'
  BY <1>2, SameTracked DEF Held
<1>4. Full(n)'
  BY <1>2 DEF Held, Full
<1>5. Front(n, c)'
  BY <1>2 DEF Held, Front
<1>6. Queued'
  BY DEF LruInv, Queued
<1> QED BY <1>3, <1>4, <1>5, <1>6 DEF Held

(* The policy forgets a key, if it knows it.                                 *)
LEMMA RemoveInv ==
  ASSUME LruInv, NEW t \in Threads, LruRemove(t)
  PROVE  LruInv'
<1>1. /\ pc[t] = "pruning" /\ op[t] = "remove"
      /\ arena' = RemoveItem(arena, key[t])
      /\ expires' = [expires EXCEPT ![key[t]] = None]
      /\ Cross(t, key[t])
      /\ Goto(t, "removing")
      /\ UNCHANGED <<table, op, key, born, now, alone>>
  BY DEF LruRemove, Pruned
<1>2. /\ KeyTypes /\ ThreadTypes /\ Agrees /\ Exclusive /\ Queued
      /\ None \notin Nat /\ None \notin Ops
  BY LruFacts
<1>3. key[t] \in Keys /\ op[t] \notin {None, "prune"}
  <2>1. "remove" # None
    BY <1>2 DEF Ops
  <2> QED BY <1>1, <1>2, <2>1 DEF ThreadTypes, ThreadType
<1>4. PICK k \in Keys : k = key[t]
  BY <1>3
<1>5. /\ Items(arena') = Items(arena) \ {k}
      /\ Queued'
      /\ (\E n \in Nat : \E c : Held(n, c))'
  <2>1. CASE k \in Items(arena)
    <3>1. arena' = Remove(arena, arena.idx_of[k])
      BY <1>1, <1>4, <2>1 DEF RemoveItem
    <3> QED BY <1>1, <1>4, <2>1, <3>1, LruGone
  <2>2. CASE k \notin Items(arena)
    <3>1. arena' = arena
      BY <1>1, <1>4, <2>2 DEF RemoveItem
    <3>2. expires' = expires
      <4>1. expires[k] = None
        BY <1>2, <2>2 DEF Queued
      <4> QED BY <1>1, <1>2, <1>4, <4>1 DEF KeyTypes
    <3>3. \A u \in Threads : pc'[u] = "evicting" <=> pc[u] = "evicting"
      BY <1>1, <1>2 DEF Goto, ThreadTypes
    <3>4. Queued' /\ (\E n \in Nat : \E c : Held(n, c))'
      BY <1>1, <3>1, <3>2, <3>3, SameList
    <3> QED BY <2>2, <3>1, <3>4
  <2> QED BY <2>1, <2>2
<1>6. KeyTypes'
  BY <1>1, <1>2, <1>3 DEF KeyTypes, Times, Cross
<1>7. ThreadTypes'
  <2>1. /\ born' \in [Threads -> Times \cup {None}]
        /\ \A u \in Threads \ {t} : born'[u] = born[u]
    BY <1>1, <1>2 DEF ThreadTypes
  <2> QED BY <1>1, <1>2, <1>3, <2>1, StageTypes
<1>8. Agrees'
  <2>1. /\ pc'[t] = "removing"
        /\ \A q \in Keys \ {k} : expires'[q] = expires[q]
    BY <1>1, <1>2, <1>4 DEF Goto, KeyTypes, ThreadTypes
  <2>2. Ahead(t, k)'
    BY <1>5, <2>1 DEF Ahead
  <2> QED BY <1>1, <1>2, <1>4, <1>5, <2>1, <2>2, CountAgrees
<1>9. Exclusive'
  BY <1>1, <1>2, ExclusiveKept
<1> QED BY <1>5, <1>6, <1>7, <1>8, <1>9 DEF LruInv, Types

(* An operation begins.                                                      *)
LEMMA BeginInv ==
  ASSUME LruInv, NEW t \in Threads, NEW o \in Ops, NEW k \in Keys \cup {None}, Begin(t, o, k)
  PROVE  LruInv'
<1>1. KeyTypes /\ ThreadTypes /\ Agrees /\ Exclusive
  BY LruFacts
<1>2. KeyTypes' /\ ThreadTypes'
  BY <1>1, BeginTypes
<1>3. Agrees' /\ Exclusive'
  <2>1. /\ pc[t] = "idle" /\ Goto(t, "pruning")
        /\ \A u \in Threads \ {t} : key'[u] = key[u] /\ born'[u] = born[u]
        /\ UNCHANGED <<table, arena, expires, crossed>>
    BY <1>1 DEF Begin, ThreadTypes
  <2> QED BY <1>1, <2>1, BeginExclusive, QuietAgrees
<1>4. UNCHANGED <<arena, expires>> /\ alone' = alone
  BY DEF Begin
<1>5. \A u \in Threads : /\ pc'[u] = "evicting" <=> pc[u] = "evicting"
                         /\ pc[u] = "evicting" => key'[u] = key[u]
  BY <1>1 DEF Begin, Goto, ThreadTypes
<1> QED BY <1>2, <1>3, <1>4, <1>5, SameList DEF LruInv, Types

(* get and prune are over.                                                   *)
LEMMA GetPruneInv ==
  ASSUME LruInv, NEW t \in Threads, GetNoPolicy(t) \/ LruPrune(t)
  PROVE  LruInv'
<1>1. /\ pc[t] \in {"pruning", "getting"} /\ Return(t)
      /\ UNCHANGED <<table, arena, expires, now, crossed, alone>>
  BY DEF GetNoPolicy, LruPrune, Pruned
<1>2. KeyTypes /\ ThreadTypes /\ Agrees /\ Exclusive
  BY LruFacts
<1>3. KeyTypes' /\ ThreadTypes'
  BY <1>1, <1>2, ReturnTypes DEF KeyTypes, Times
<1>4. /\ Goto(t, "idle")
      /\ \A u \in Threads \ {t} : key'[u] = key[u] /\ born'[u] = born[u]
  BY <1>1, <1>2 DEF Return, ThreadTypes
<1>5. Agrees'
  BY <1>1, <1>2, <1>4, QuietAgrees
<1>6. Exclusive'
  BY <1>2, <1>4, ExclusiveKept
<1>7. \A u \in Threads : /\ pc'[u] = "evicting" <=> pc[u] = "evicting"
                         /\ pc[u] = "evicting" => key'[u] = key[u]
  BY <1>1, <1>2, <1>4 DEF Goto, ThreadTypes
<1> QED BY <1>1, <1>3, <1>5, <1>6, <1>7, SameList DEF LruInv, Types

(* The map catches up.                                                       *)
LEMMA CatchUpInv ==
  ASSUME LruInv, NEW t \in Threads, InsertNoPolicy(t) \/ RemoveNoPolicy(t)
  PROVE  LruInv'
<1>1. /\ pc[t] \in {"inserting", "removing"} /\ Return(t)
      /\ table' = [table EXCEPT ![key[t]] = IF pc[t] = "inserting" THEN born[t] ELSE None]
      /\ UNCHANGED <<arena, expires, now, crossed, alone>>
  BY DEF InsertNoPolicy, RemoveNoPolicy
<1>2. KeyTypes /\ ThreadTypes /\ Agrees /\ Exclusive
  BY LruFacts
<1>3. KeyTypes' /\ ThreadTypes'
  <2>1. born[t] \in Times \cup {None}
    BY <1>2 DEF ThreadTypes
  <2>2. KeyTypes'
    BY <1>1, <1>2, <2>1 DEF KeyTypes, Times
  <2> QED BY <1>1, <1>2, <2>2, ReturnTypes
<1>4. Agrees'
  BY <1>2, CatchUpAgrees
<1>5. Exclusive'
  BY <1>1, <1>2, ExclusiveKept DEF Return
<1>6. \A u \in Threads : /\ pc'[u] = "evicting" <=> pc[u] = "evicting"
                         /\ pc[u] = "evicting" => key'[u] = key[u]
  BY <1>1, <1>2 DEF Return, Goto, ThreadTypes
<1> QED BY <1>1, <1>3, <1>4, <1>5, <1>6, SameList DEF LruInv, Types

(* The clock goes on.                                                        *)
LEMMA TickInv ==
  ASSUME LruInv, Tick
  PROVE  LruInv'
<1>1. /\ KeyTypes /\ ThreadTypes /\ Agrees /\ Exclusive
      /\ now < MaxTime /\ now' = now + 1
      /\ UNCHANGED <<table, arena, expires, pc, op, key, born, crossed, alone>>
  BY DEF LruInv, Types, Tick
<1>2. KeyTypes' /\ ThreadTypes'
  BY <1>1, SameThreadTypes, PolicyAssumption DEF KeyTypes, Times
<1>3. Agrees' /\ Exclusive'
  BY <1>1, TickAgrees
<1> QED BY <1>1, <1>2, <1>3, SameList DEF LruInv, Types

-------------------------------------------------------------------------------

(* The invariant holds whatever the threads do.                              *)
THEOREM LruInvariant == Spec => []LruInv
<1>1. Init => LruInv
  <2> SUFFICES ASSUME Init PROVE LruInv
    OBVIOUS
  <2>1. Types /\ Tracked(0, <<>>) /\ Exclusive /\ Agrees /\ Items(arena) = {}
    BY InitIs
  <2>2. Queued
    BY <2>1 DEF Init, Queued
  <2>3. Full(0) /\ Front(0, <<>>)
    BY LruAssumption DEF Full, Front, Init
  <2>4. \E n \in Nat : \E c : Held(n, c)
    BY <2>1, <2>3 DEF Held
  <2> QED BY <2>1, <2>2, <2>4 DEF LruInv
<1>2. LruInv /\ [Next]_vars => LruInv'
  <2> SUFFICES ASSUME LruInv, [Next]_vars PROVE LruInv'
    OBVIOUS
  <2>1. ASSUME NEW t \in Threads, NEW o \in Ops, NEW k \in Keys \cup {None}, Begin(t, o, k)
        PROVE  LruInv'
    BY <2>1, BeginInv
  <2>2. ASSUME NEW t \in Threads, LruPruneOne(t) PROVE LruInv'
    BY <2>2, PruneOneInv
  <2>3. ASSUME NEW t \in Threads, LruPrune(t) \/ GetNoPolicy(t) PROVE LruInv'
    BY <2>3, GetPruneInv
  <2>4. ASSUME NEW t \in Threads, LruGet(t) PROVE LruInv'
    BY <2>4, GetInv
  <2>5. ASSUME NEW t \in Threads, LruInsert(t) PROVE LruInv'
    BY <2>5, InsertInv
  <2>6. ASSUME NEW t \in Threads, LruEvict(t) PROVE LruInv'
    BY <2>6, EvictInv
  <2>7. ASSUME NEW t \in Threads, LruRemove(t) PROVE LruInv'
    BY <2>7, RemoveInv
  <2>8. ASSUME NEW t \in Threads, InsertNoPolicy(t) \/ RemoveNoPolicy(t) PROVE LruInv'
    BY <2>8, CatchUpInv
  <2>9. CASE Tick
    BY <2>9, TickInv
  <2>10. CASE UNCHANGED vars
    <3>1. UNCHANGED <<arena, expires, pc, key, alone>>
      BY <2>10 DEF vars
    <3>2. KeyTypes' /\ ThreadTypes'
      BY <2>10, SameThreadTypes DEF vars, LruInv, Types, KeyTypes, Times
    <3>3. Agrees' /\ Exclusive'
      BY <2>10, TickAgrees DEF vars, LruInv
    <3> QED BY <3>1, <3>2, <3>3, SameList DEF LruInv, Types
  <2> QED BY <2>1, <2>2, <2>3, <2>4, <2>5, <2>6, <2>7, <2>8, <2>9, <2>10 DEF Next
<1> QED BY <1>1, <1>2, PTL DEF Spec

(* The invariant implies what TLC checks of the variables and of the arena. *)
LEMMA LruIsList == LruInv => TypeOK /\ ArenaIsList
<1> SUFFICES ASSUME LruInv PROVE TypeOK /\ ArenaIsList
  OBVIOUS
<1>1. PICK n \in Nat : \E c : Held(n, c)
  BY DEF LruInv
<1>2. PICK c : Held(n, c)
  BY <1>1
<1> QED BY <1>2, TrackedIs DEF LruInv, Held

(* Every variable has its type, and every index that the unsafe accesses of  *)
(* linked_arena.rs use (63, 87, 158) is one of its Vec, however many keys    *)
(* there are.                                                                *)
THEOREM LruTypes == Spec => []TypeOK
<1>1. LruInv => TypeOK
  BY LruIsList
<1> QED BY <1>1, LruInvariant, PTL

(* linked_arena.rs:202.  The links of the arena make it a list, whatever     *)
(* swap_remove has moved.                                                    *)
THEOREM LruArena == Spec => []ArenaIsList
<1>1. LruInv => ArenaIsList
  BY LruIsList
<1> QED BY <1>1, LruInvariant, PTL

(* The queue and the arena hold the same keys.                               *)
THEOREM LruQueue == Spec => []QueueAgrees
<1>1. LruInv => QueueAgrees
  <2> SUFFICES ASSUME LruInv PROVE QueueAgrees
    OBVIOUS
  <2>1. PICK n \in Nat : \E c : Held(n, c)
    BY DEF LruInv
  <2>2. PICK c : Held(n, c)
    BY <2>1
  <2>3. None \notin Nat /\ Queued
    BY LruFacts
  <2>4. Items(arena) \subseteq Keys
    BY <2>2, <2>3, ListIs DEF Held, Tracked
  <2> QED BY <2>3, <2>4 DEF QueueAgrees, Queued
<1> QED BY <1>1, LruInvariant, PTL

(* At most one key is over capacity, and only until evict, as long as no key *)
(* has been used again while it was the only one.                            *)
THEOREM LruCapacity == Spec => []WithinCapacity
<1>1. LruInv => WithinCapacity
  <2> SUFFICES ASSUME LruInv PROVE WithinCapacity
    OBVIOUS
  <2>1. PICK n \in Nat : \E c : Held(n, c)
    BY DEF LruInv
  <2>2. PICK c : Held(n, c)
    BY <2>1
  <2>3. None \notin Nat
    BY LruFacts
  <2>4. Len(arena.nodes) = n
    BY <2>2, <2>3, ListIs DEF Held, Tracked
  <2>5. Unlocked => \A t \in Threads : pc[t] # "evicting"
    BY DEF Unlocked
  <2> QED BY <2>2, <2>4, <2>5 DEF WithinCapacity, Held, Full
<1> QED BY <1>1, LruInvariant, PTL

(* The policy tracks a key if and only if it is in the map, unless a change  *)
(* of it has yet to reach the map or two of its changes have crossed.        *)
THEOREM LruTracks == Spec => []TracksMap
<1>1. LruInv => TracksMap
  BY AgreesTracks DEF LruInv
<1> QED BY <1>1, LruInvariant, PTL

(* Prune leaves no expired value of a key that is settled, since such a key  *)
(* is in the queue with the expiry of its value.                             *)
THEOREM LruPrunes == Spec => []PruneRemovesExpired
<1>1. LruInv => PruneRemovesExpired
  <2> SUFFICES ASSUME LruInv, \A q \in Keys : ~Expired(q),
                      NEW k \in Keys, Settled(k), table[k] # None, Ttl # None
               PROVE  table[k] + Ttl >= now
    BY DEF PruneRemovesExpired
  <2>1. KeyTypes /\ ThreadTypes /\ Agrees /\ None \notin Nat /\ now \in Nat
    BY LruFacts
  <2>2. expires[k] = table[k] + Ttl
    BY <2>1 DEF Agrees, AgreesOn, Settled, Matches, Expiry
  <2>3. table[k] + Ttl \in Nat
    BY <2>1, LruAssumption, PolicyAssumption DEF KeyTypes, Times
  <2>4. ~(expires[k] < now)
    BY <2>1, <2>2, <2>3 DEF Expired
  <2> QED BY <2>1, <2>2, <2>3, <2>4
<1> QED BY <1>1, LruInvariant, PTL

(* The arena keeps the keys in the order of their last use: every step uses  *)
(* a key, forgets one or leaves the order alone.                             *)
THEOREM LruRecency == Spec => KeepsRecency
<1>1. Init => Recency!RecencyInit
  <2> SUFFICES ASSUME Init PROVE Order(arena) = <<>>
    BY DEF Recency!RecencyInit
  <2>1. ListOf(arena, Keys, 0, <<>>) /\ None \notin Nat
    BY InitIs, PolicyAssumption DEF Tracked
  <2> QED BY <2>1, OrderIs
<1>2. LruInv /\ [Next]_vars => [Recency!RecencyNext]_(Order(arena))
  <2> SUFFICES ASSUME LruInv, [Next]_vars, arena' # arena
               PROVE  Recency!RecencyNext
    OBVIOUS
  <2>1. PICK n \in Nat : \E c : Held(n, c)
    BY DEF LruInv
  <2>2. PICK c : Tracked(n, c)
    BY <2>1 DEF Held
  <2>3. KeyTypes /\ ThreadTypes /\ Queued /\ None \notin Ops
    BY LruFacts
  <2>4. ASSUME NEW t \in Threads, LruPruneOne(t)
        PROVE  \E k \in Keys : Recency!Forget(k)
    <3>1. PICK k \in Keys : FirstExpired(k) /\ arena' = RemoveItem(arena, k)
      BY <2>4 DEF LruPruneOne
    <3>2. k \in Items(arena) /\ arena' = Remove(arena, arena.idx_of[k])
      BY <3>1 DEF RemoveItem
    <3>3. alone' = alone
      BY <2>4 DEF LruPruneOne
    <3> QED BY <2>2, <3>2, <3>3, RemoveForgets
  <2>5. ASSUME NEW t \in Threads, LruInsert(t) \/ LruGet(t)
        PROVE  \E k \in Keys : Recency!UseNew(k) \/ Recency!UseAgain(k)
    <3>1. CASE key[t] \in Items(arena)
      <4>1. PICK k \in Items(arena) : k = key[t]
        BY <3>1
      <4>2. Touch(k)
        BY <2>5, <4>1 DEF LruInsert, LruGet
      <4> QED BY <2>2, <4>2, TouchUses
    <3>2. CASE key[t] \notin Items(arena)
      <4>1. pc[t] = "pruning" /\ op[t] = "insert" /\ Enter(key[t])
        BY <2>5, <3>2 DEF LruInsert, LruGet, Pruned
      <4>2. PICK k \in Keys : k = key[t]
        <5>1. "insert" # None
          BY <2>3 DEF Ops
        <5> QED BY <2>3, <4>1, <5>1 DEF ThreadTypes, ThreadType
      <4> QED BY <2>2, <3>2, <4>1, <4>2, EnterUses
    <3> QED BY <3>1, <3>2
  <2>6. ASSUME NEW t \in Threads, LruRemove(t)
        PROVE  \E k \in Keys : Recency!Forget(k)
    <3>1. arena' = RemoveItem(arena, key[t]) /\ alone' = alone
      BY <2>6 DEF LruRemove
    <3>2. key[t] \in Items(arena) /\ arena' = Remove(arena, arena.idx_of[key[t]])
      BY <3>1 DEF RemoveItem
    <3> QED BY <2>2, <3>1, <3>2, RemoveForgets
  <2>7. ASSUME NEW t \in Threads, LruEvict(t)
        PROVE  \E k \in Keys : Recency!Forget(k)
    <3>1. /\ arena.tail # None /\ alone' = alone
          /\ arena' = Remove(arena, arena.tail)
      BY <2>7 DEF LruEvict, Evict
    <3>2. c[n] \in Items(arena) /\ arena.tail = arena.idx_of[c[n]]
      BY <2>2, <3>1, TailIs
    <3> QED BY <2>2, <3>1, <3>2, RemoveForgets
  <2> QED BY <2>4, <2>5, <2>6, <2>7 DEF Next, vars, Recency!RecencyNext, Begin, LruPrune,
             InsertNoPolicy, RemoveNoPolicy, GetNoPolicy, Tick
<1> QED BY <1>1, <1>2, LruInvariant, PTL DEF Spec, KeepsRecency, Recency!RecencySpec
================================================================================
