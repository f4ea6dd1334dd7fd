------------------------------- MODULE TtlProofs -------------------------------
(***************************************************************************)
(* The invariants of TtlPolicy, for any threads, keys, ttl and number of    *)
(* steps of the clock.                                                      *)
(***************************************************************************)
EXTENDS TtlPolicy, PolicyProofs

(* The keys that expire are those of the arena, none later than one that    *)
(* would be inserted now.                                                    *)
KeysExpire ==
  \A k \in Keys : /\ expires[k] # None <=> k \in Items(arena)
                  /\ expires[k] # None => expires[k] <= now + Ttl

(* The list is ordered by age.                                              *)
Aged(n, c) == \A p, q \in 1 .. n : p < q => expires[c[p]] >= expires[c[q]]

(* The inductive invariant of TtlPolicy.                                     *)
TtlInv ==
  /\ Types
  /\ Exclusive
  /\ Agrees
  /\ KeysExpire
  /\ \E n \in Nat : \E c : Tracked(n, c) /\ Aged(n, c)

(* A key leaves the arena and has no expiry any more.                        *)
LEMMA TtlGone ==
  ASSUME TtlInv, NEW k \in Items(arena), arena' = Remove(arena, arena.idx_of[k]),
         expires' = [expires EXCEPT ![k] = None], UNCHANGED <<now, alone>>
  PROVE  /\ k \in Keys
         /\ Items(arena') = Items(arena) \ {k}
         /\ KeysExpire'
         /\ (\E n \in Nat : \E c : Tracked(n, c) /\ Aged(n, c))'
<1>1. PICK n \in Nat : \E c : Tracked(n, c) /\ Aged(n, c)
  BY DEF TtlInv
<1>2. PICK c : Tracked(n, c) /\ Aged(n, c)
  BY <1>1
<1>3. /\ n \in Nat \ {0}
      /\ \E r \in 1 .. n : c[r] = k /\ Tracked(n - 1, Dropped(c, n, r))'
      /\ Items(arena') = Items(arena) \ {k}
  BY <1>2, RemoveTracked
<1>4. PICK r \in 1 .. n : c[r] = k /\ Tracked(n - 1, Dropped(c, n, r))'
  BY <1>3
<1>5. None \notin Nat
  BY PolicyAssumption
<1>6. /\ Items(arena) \subseteq Keys /\ c \in [1 .. n -> Keys]
      /\ ItemsAre(arena, n, c)
  BY <1>2, <1>5, ListIs DEF Tracked
<1>7. \A q \in Keys : expires'[q] = IF q = k THEN None ELSE expires[q]
  BY DEF TtlInv, Types, KeyTypes
<1>8. KeysExpire'
  BY <1>3, <1>6, <1>7 DEF TtlInv, KeysExpire
<1>9. Aged(n - 1, Dropped(c, n, r))'
  <2> DEFINE d == Dropped(c, n, r)
  <2>1. \A j \in (1 .. n) \ {r} : c[j] \in Keys /\ expires'[c[j]] = expires[c[j]]
    BY <1>4, <1>6, <1>7 DEF ItemsAre
  <2> DEFINE Old(x) == IF x < r THEN x ELSE x + 1
  <2>2. /\ \A x \in 1 .. n - 1 : Old(x) \in (1 .. n) \ {r} /\ d[x] = c[Old(x)]
        /\ \A x, y \in 1 .. n - 1 : x < y => Old(x) < Old(y)
    BY DEF Dropped
  <2> HIDE DEF d, Old
  <2>3. ASSUME NEW p \in 1 .. n - 1, NEW q \in 1 .. n - 1, p < q
        PROVE  expires'[d[p]] >= expires'[d[q]]
    <3>1. expires[c[Old(p)]] >= expires[c[Old(q)]]
      BY <1>2, <2>2, <2>3 DEF Aged
    <3> QED BY <2>1, <2>2, <3>1
  <2>4. Aged(n - 1, d)'
    BY <2>3 DEF Aged
  <2> QED BY <2>4 DEF d
<1>10. n - 1 \in Nat
  BY <1>3
<1> QED BY <1>3, <1>4, <1>6, <1>8, <1>9, <1>10

(* The arena holds keys only.                                                *)
LEMMA ItemsAreKeys == TtlInv => Items(arena) \subseteq Keys
<1> SUFFICES ASSUME TtlInv
             PROVE  Items(arena) \subseteq Keys
  OBVIOUS
<1>1. PICK n \in Nat : \E c : Tracked(n, c) /\ Aged(n, c)
  BY DEF TtlInv
<1>2. PICK c : Tracked(n, c)
  BY <1>1
<1> QED BY <1>2, PolicyAssumption, ListIs DEF Tracked

(* What prune finds at the tail is a key of the arena.                       *)
LEMMA DueIsKey ==
  ASSUME TtlInv, Due
  PROVE  /\ arena.nodes[arena.tail].item \in Items(arena)
         /\ arena.tail = arena.idx_of[arena.nodes[arena.tail].item]
<1>1. PICK n \in Nat : \E c : Tracked(n, c) /\ Aged(n, c)
  BY DEF TtlInv
<1>2. PICK c : Tracked(n, c) /\ Aged(n, c)
  BY <1>1
<1> QED BY <1>2, TailIs DEF Due

(* A thread that prunes and finds the tail expired.                          *)
LEMMA PruneOneInv ==
  ASSUME TtlInv, NEW t \in Threads, TtlPruneOne(t)
  PROVE  TtlInv'
<1> DEFINE k == arena.nodes[arena.tail].item
<1>1. /\ pc[t] = "pruning" /\ arena.tail # None /\ Expired(k)
      /\ arena' = Remove(arena, arena.tail)
      /\ table' = [table EXCEPT ![k] = None]
      /\ expires' = [expires EXCEPT ![k] = None]
      /\ Cross(t, k)
      /\ UNCHANGED <<pc, op, key, born, now, alone>>
  BY DEF TtlPruneOne, Evict, Due
<1>2. k \in Items(arena) /\ arena.tail = arena.idx_of[k]
  BY DueIsKey DEF TtlPruneOne
<1> HIDE DEF k
<1>3. /\ k \in Keys
      /\ Items(arena') = Items(arena) \ {k}
      /\ KeysExpire'
      /\ (\E n \in Nat : \E c : Tracked(n, c) /\ Aged(n, c))'
  BY <1>1, <1>2, TtlGone
<1>4. KeyTypes' /\ ThreadTypes'
  <2>1. KeyTypes'
    BY <1>1, <1>3 DEF TtlInv, Types, KeyTypes, Times, Cross
  <2> QED BY <1>1, <2>1, SameThreadTypes DEF TtlInv, Types
<1>5. Goto(t, pc[t])
  BY <1>1 DEF Goto, TtlInv, Types, ThreadTypes
<1>6. Agrees'
  <2>1. KeyTypes /\ ThreadTypes /\ Agrees
    BY DEF TtlInv, Types
  <2> DEFINE stage == pc[t]
  <2>2. Goto(t, stage) /\ stage = pc[t]
    BY <1>5
  <2> HIDE DEF stage
  <2> QED BY <1>1, <1>3, <2>1, <2>2, EvictAgrees
<1>7. Exclusive'
  BY <1>1 DEF TtlInv, Exclusive
<1> QED BY <1>3, <1>4, <1>6, <1>7 DEF TtlInv, Types

(* An insert is counted: the key is in front.                                *)
LEMMA InsertInv ==
  ASSUME TtlInv, NEW t \in Threads, TtlInsert(t)
  PROVE  TtlInv'
<1>1. /\ pc[t] = "pruning" /\ op[t] = "insert"
      /\ IF key[t] \in Items(arena) THEN Touch(key[t]) ELSE Enter(key[t])
      /\ expires' = [expires EXCEPT ![key[t]] = now + Ttl]
      /\ Cross(t, key[t])
      /\ born' = [born EXCEPT ![t] = now]
      /\ Goto(t, "inserting")
      /\ UNCHANGED <<table, op, key, now>>
  BY DEF TtlInsert, Pruned
<1>2. /\ KeyTypes /\ ThreadTypes /\ Agrees /\ Exclusive /\ KeysExpire
      /\ None \notin Nat /\ None \notin Ops
  BY PolicyAssumption DEF TtlInv, Types
<1>3a. key[t] \in Keys /\ op[t] \notin {None, "prune"}
  <2>1. "insert" # None
    BY <1>2 DEF Ops
  <2> QED BY <1>1, <1>2, <2>1 DEF ThreadTypes, ThreadType
<1>3. PICK k \in Keys : k = key[t]
  BY <1>3a
<1>4. PICK n \in Nat : \E c : Tracked(n, c) /\ Aged(n, c)
  BY DEF TtlInv
<1>5. PICK c : Tracked(n, c) /\ Aged(n, c)
  BY <1>4
<1>6. c \in [1 .. n -> Keys] /\ Items(arena) \subseteq Keys /\ ItemsAre(arena, n, c)
  BY <1>2, <1>5, ListIs DEF Tracked
<1>7. /\ now + Ttl \in Nat
      /\ \A q \in Keys : expires'[q] = IF q = k THEN now + Ttl ELSE expires[q]
      /\ \A q \in Items(arena) : expires[q] \in Nat /\ expires[q] <= now + Ttl
  BY <1>1, <1>2, <1>3, <1>6, TtlAssumption DEF KeyTypes, KeysExpire, Times
<1>8. ASSUME k \in Items(arena)
      PROVE  /\ Items(arena') = Items(arena) \cup {k}
             /\ alone' \in BOOLEAN
             /\ (\E m \in Nat : \E d : Tracked(m, d) /\ Aged(m, d))'
  <2>1. /\ \E r \in 1 .. n : c[r] = k /\ Tracked(n, Raised(c, n, r))'
        /\ Items(arena') = Items(arena)
        /\ alone' \in BOOLEAN
    BY <1>1, <1>3, <1>5, <1>8, TouchTracked
  <2>2. PICK r \in 1 .. n : c[r] = k /\ Tracked(n, Raised(c, n, r))'
    BY <2>1
  <2> DEFINE d == Raised(c, n, r)
  <2> DEFINE Old(x) == IF x <= r THEN x - 1 ELSE x
  <2>3. /\ 1 \in 1 .. n /\ d[1] = c[r]
        /\ \A x \in 1 .. n : x # 1 => Old(x) \in (1 .. n) \ {r} /\ d[x] = c[Old(x)]
        /\ \A x, y \in 1 .. n : x # 1 /\ x < y => Old(x) < Old(y)
    BY DEF Raised
  <2> HIDE DEF d, Old
  <2>4. \A j \in (1 .. n) \ {r} : /\ c[j] \in Items(arena)
                                  /\ expires'[c[j]] = expires[c[j]]
    BY <1>6, <1>7, <2>2 DEF ItemsAre
  <2>5. ASSUME NEW p \in 1 .. n, NEW q \in 1 .. n, p < q
        PROVE  expires'[d[p]] >= expires'[d[q]]
    <3>1. Old(q) \in (1 .. n) \ {r} /\ d[q] = c[Old(q)]
      BY <2>3, <2>5
    <3>2. CASE p = 1
      <4>1. expires'[d[p]] = now + Ttl
        BY <1>3, <1>7, <2>2, <2>3, <3>2
      <4>2. expires'[d[q]] \in Nat /\ expires'[d[q]] <= now + Ttl
        BY <1>7, <2>4, <3>1
      <4> QED BY <1>7, <4>1, <4>2
    <3>3. CASE p # 1
      <4>1. Old(p) \in (1 .. n) \ {r} /\ d[p] = c[Old(p)] /\ Old(p) < Old(q)
        BY <2>3, <2>5, <3>3
      <4>2. expires[c[Old(p)]] >= expires[c[Old(q)]]
        BY <1>5, <3>1, <4>1 DEF Aged
      <4> QED BY <2>4, <3>1, <4>1, <4>2
    <3> QED BY <3>2, <3>3
  <2>6. Aged(n, d)'
    BY <2>5 DEF Aged
  <2>7. Tracked(n, d)'
    BY <2>2 DEF d
  <2> QED BY <1>8, <2>1, <2>6, <2>7
<1>9. ASSUME k \notin Items(arena)
      PROVE  /\ Items(arena') = Items(arena) \cup {k}
             /\ alone' \in BOOLEAN
             /\ (\E m \in Nat : \E d : Tracked(m, d) /\ Aged(m, d))'
  <2>1. /\ Tracked(n + 1, Pushed(c, n, k))'
        /\ Items(arena') = Items(arena) \cup {k}
        /\ alone' = alone
    BY <1>1, <1>3, <1>5, <1>9, EnterTracked
  <2> DEFINE d == Pushed(c, n, k)
  <2>2. /\ d[1] = k
        /\ \A p \in 1 .. n + 1 : p # 1 => p - 1 \in 1 .. n /\ d[p] = c[p - 1]
    BY DEF Pushed
  <2>3. Tracked(n + 1, d)'
    BY <2>1
  <2> HIDE DEF d
  <2>4. \A j \in 1 .. n : /\ c[j] \in Items(arena)
                          /\ expires'[c[j]] = expires[c[j]]
    BY <1>6, <1>7, <1>9 DEF ItemsAre
  <2>5. ASSUME NEW p \in 1 .. n + 1, NEW q \in 1 .. n + 1, p < q
        PROVE  expires'[d[p]] >= expires'[d[q]]
    <3>1. q # 1 /\ q - 1 \in 1 .. n /\ d[q] = c[q - 1]
      BY <2>2, <2>5
    <3>2. CASE p = 1
      <4>1. expires'[d[p]] = now + Ttl
        BY <1>3, <1>7, <2>2, <3>2
      <4>2. expires'[d[q]] \in Nat /\ expires'[d[q]] <= now + Ttl
        BY <1>7, <2>4, <3>1
      <4> QED BY <1>7, <4>1, <4>2
    <3>3. CASE p # 1
      <4>1. p - 1 \in 1 .. n /\ d[p] = c[p - 1] /\ p - 1 < q - 1
        BY <2>2, <2>5, <3>3
      <4>2. expires[c[p - 1]] >= expires[c[q - 1]]
        BY <1>5, <3>1, <4>1 DEF Aged
      <4> QED BY <2>4, <3>1, <4>1, <4>2
    <3> QED BY <3>2, <3>3
  <2>6. Aged(n + 1, d)'
    BY <2>5 DEF Aged
  <2>7. n + 1 \in Nat /\ alone' \in BOOLEAN
    BY <1>2, <2>1 DEF KeyTypes
  <2> QED BY <2>1, <2>3, <2>6, <2>7
<1>10. /\ Items(arena') = Items(arena) \cup {k}
       /\ alone' \in BOOLEAN
       /\ (\E m \in Nat : \E d : Tracked(m, d) /\ Aged(m, d))'
  BY <1>8, <1>9
<1>11. KeysExpire'
  BY <1>1, <1>2, <1>3, <1>7, <1>10 DEF KeysExpire
<1>12. KeyTypes'
  BY <1>1, <1>2, <1>3, <1>7, <1>10 DEF KeyTypes, Times, Cross
<1>13. ThreadTypes'
  <2>1. now \in Times /\ now # None /\ born \in [Threads -> Times \cup {None}]
    BY <1>2 DEF KeyTypes, ThreadTypes, Times
  <2>2. /\ born' \in [Threads -> Times \cup {None}]
        /\ born'[t] # None
        /\ \A u \in Threads \ {t} : born'[u] = born[u]
    BY <1>1, <2>1
  <2> QED BY <1>1, <1>2, <1>3a, <2>2, StageTypes
<1>14. Agrees'
  <2>1. now + Ttl = Expiry(now)
    BY <1>2, TtlAssumption DEF Expiry
  <2>2. /\ pc'[t] = "inserting" /\ born'[t] = now
        /\ \A u \in Threads \ {t} : born'[u] = born[u]
    BY <1>1, <1>2 DEF Goto, ThreadTypes
  <2>3. Ahead(t, k)'
    BY <1>7, <1>10, <2>1, <2>2 DEF Ahead, Expiry
  <2> QED BY <1>1, <1>2, <1>3, <1>7, <1>10, <2>2, <2>3, CountAgrees
<1>15. Exclusive'
  BY <1>1, <1>2, ExclusiveKept
<1> QED BY <1>10, <1>11, <1>12, <1>13, <1>14, <1>15 DEF TtlInv, Types

(* The policy forgets a key, if it knows it.                                 *)
LEMMA RemoveInv ==
  ASSUME TtlInv, NEW t \in Threads, TtlRemove(t)
  PROVE  TtlInv'
<1>1. /\ pc[t] = "pruning" /\ op[t] = "remove"
      /\ arena' = RemoveItem(arena, key[t])
      /\ expires' = [expires EXCEPT ![key[t]] = None]
      /\ Cross(t, key[t])
      /\ Goto(t, "removing")
      /\ UNCHANGED <<table, op, key, born, now, alone>>
  BY DEF TtlRemove, Pruned
<1>2. /\ KeyTypes /\ ThreadTypes /\ Agrees /\ Exclusive /\ KeysExpire
      /\ None \notin Nat /\ None \notin Ops
  BY PolicyAssumption DEF TtlInv, Types
<1>3. key[t] \in Keys /\ op[t] \notin {None, "prune"}
  <2>1. "remove" # None
    BY <1>2 DEF Ops
  <2> QED BY <1>1, <1>2, <2>1 DEF ThreadTypes, ThreadType
<1>4. PICK k \in Keys : k = key[t]
  BY <1>3
<1>5. /\ Items(arena') = Items(arena) \ {k}
      /\ KeysExpire'
      /\ (\E n \in Nat : \E c : Tracked(n, c) /\ Aged(n, c))'
  <2>1. CASE k \in Items(arena)
    <3>1. arena' = Remove(arena, arena.idx_of[k])
      BY <1>1, <1>4, <2>1 DEF RemoveItem
    <3> QED BY <1>1, <1>4, <2>1, <3>1, TtlGone
  <2>2. CASE k \notin Items(arena)
    <3>1. arena' = arena
      BY <1>1, <1>4, <2>2 DEF RemoveItem
    <3>2. expires' = expires
      <4>1. expires[k] = None
        BY <1>2, <2>2 DEF KeysExpire
      <4> QED BY <1>1, <1>2, <1>4, <4>1 DEF KeyTypes
    <3>3. KeysExpire'
      BY <1>1, <1>2, <3>1, <3>2 DEF KeysExpire
    <3>4. (\E n \in Nat : \E c : Tracked(n, c) /\ Aged(n, c))'
      <4>1. PICK n \in Nat : \E c : Tracked(n, c) /\ Aged(n, c)
        BY DEF TtlInv
      <4>2. PICK c : Tracked(n, c) /\ Aged(n, c)
        BY <4>1
      <4>3. Tracked(n, c)'
        BY <1>1, <3>1, <4>2, SameTracked
      <4>4. Aged(n, c)'
        BY <3>2, <4>2 DEF Aged
      <4> QED BY <4>3, <4>4
    <3> QED BY <2>2, <3>1, <3>3, <3>4
  <2> QED BY <2>1, <2>2
<1>6. KeyTypes'
  BY <1>1, <1>2, <1>3 DEF KeyTypes, Times, Cross
<1>7. ThreadTypes'
  <2>1. /\ born' \in [Threads -> Times \cup {None}]
        /\ \A u \in Threads \ {t} : born'[u] = born[u]
    BY <1>1, <1>2 DEF ThreadTypes
  <2> QED BY <1>1, <1>2, <1>3, <2>1, StageTypes
<1>8. Agrees'
  <2>1. /\ pc'[t] = "removing"
        /\ \A q \in Keys \ {k} : expires'[q] = expires[q]
    BY <1>1, <1>2, <1>4 DEF Goto, KeyTypes, ThreadTypes
  <2>2. Ahead(t, k)'
    BY <1>5, <2>1 DEF Ahead
  <2> QED BY <1>1, <1>2, <1>4, <1>5, <2>1, <2>2, CountAgrees
<1>9. Exclusive'
  BY <1>1, <1>2, ExclusiveKept
<1> QED BY <1>5, <1>6, <1>7, <1>8, <1>9 DEF TtlInv, Types

(* The steps that change neither the arena nor any expiry.                   *)
LEMMA SameKeys ==
  ASSUME TtlInv, UNCHANGED <<arena, expires, alone>>, now' \in Nat, now <= now'
  PROVE  KeysExpire' /\ (\E n \in Nat : \E c : Tracked(n, c) /\ Aged(n, c))'
<1>1. PICK n \in Nat : \E c : Tracked(n, c) /\ Aged(n, c)
  BY DEF TtlInv
<1>2. PICK c : Tracked(n, c) /\ Aged(n, c)
  BY <1>1
<1>3. Tracked(n, c)'
  BY <1>2, SameTracked
<1>4. Aged(n, c)'
  BY <1>2 DEF Aged
<1>5. KeysExpire'
  BY PolicyAssumption, TtlAssumption DEF TtlInv, Types, KeyTypes, Times, KeysExpire
<1> QED BY <1>3, <1>4, <1>5

(* An operation begins.                                                      *)
LEMMA BeginInv ==
  ASSUME TtlInv, NEW t \in Threads, NEW o \in Ops, NEW k \in Keys \cup {None}, Begin(t, o, k)
  PROVE  TtlInv'
<1>1. KeyTypes /\ ThreadTypes /\ Agrees /\ Exclusive
  BY DEF TtlInv, Types
<1>2. KeyTypes' /\ ThreadTypes'
  BY <1>1, BeginTypes
<1>3. Agrees' /\ Exclusive'
  <2>1. /\ pc[t] = "idle" /\ Goto(t, "pruning")
        /\ \A u \in Threads \ {t} : key'[u] = key[u] /\ born'[u] = born[u]
        /\ UNCHANGED <<table, arena, expires, crossed>>
    BY <1>1 DEF Begin, ThreadTypes
  <2> QED BY <1>1, <2>1, BeginExclusive, QuietAgrees
<1>4. UNCHANGED <<arena, expires, alone>> /\ now' \in Nat /\ now <= now'
  BY <1>1, PolicyAssumption DEF Begin, KeyTypes, Times
<1> QED BY <1>2, <1>3, <1>4, SameKeys DEF TtlInv, Types

(* get and prune are over.                                                   *)
LEMMA GetPruneInv ==
  ASSUME TtlInv, NEW t \in Threads, TtlGet(t) \/ TtlPrune(t)
  PROVE  TtlInv'
<1>1. /\ pc[t] = "pruning" /\ Return(t)
      /\ UNCHANGED <<table, arena, expires, now, crossed, alone>>
  BY DEF TtlGet, TtlPrune, Pruned
<1>2. KeyTypes /\ ThreadTypes /\ Agrees /\ Exclusive
  BY DEF TtlInv, Types
<1>3. KeyTypes' /\ ThreadTypes'
  BY <1>1, <1>2, ReturnTypes DEF KeyTypes, Times
<1>4. /\ Goto(t, "idle")
      /\ \A u \in Threads \ {t} : key'[u] = key[u] /\ born'[u] = born[u]
  BY <1>1, <1>2 DEF Return, ThreadTypes
<1>5. Agrees'
  BY <1>1, <1>2, <1>4, QuietAgrees
<1>6. Exclusive'
  BY <1>2, <1>4, ExclusiveKept
<1>7. now' \in Nat /\ now <= now'
  BY <1>1, <1>2, PolicyAssumption DEF KeyTypes, Times
<1> QED BY <1>1, <1>3, <1>5, <1>6, <1>7, SameKeys DEF TtlInv, Types

(* The map catches up.                                                       *)
LEMMA CatchUpInv ==
  ASSUME TtlInv, NEW t \in Threads, InsertNoPolicy(t) \/ RemoveNoPolicy(t)
  PROVE  TtlInv'
<1>1. /\ pc[t] \in {"inserting", "removing"} /\ Return(t)
      /\ table' = [table EXCEPT ![key[t]] = IF pc[t] = "inserting" THEN born[t] ELSE None]
      /\ UNCHANGED <<arena, expires, now, crossed, alone>>
  BY DEF InsertNoPolicy, RemoveNoPolicy
<1>2. KeyTypes /\ ThreadTypes /\ Agrees /\ Exclusive
  BY DEF TtlInv, Types
<1>3. KeyTypes' /\ ThreadTypes'
  <2>1. born[t] \in Times \cup {None}
    BY <1>2 DEF ThreadTypes
  <2>2. KeyTypes'
    BY <1>1, <1>2, <2>1 DEF KeyTypes, Times
  <2> QED BY <1>1, <1>2, <2>2, ReturnTypes
<1>4. Agrees'
  BY <1>2, CatchUpAgrees
<1>5. Exclusive'
  BY <1>1, <1>2, ExclusiveKept DEF Return
<1>6. now' \in Nat /\ now <= now'
  BY <1>1, <1>2, PolicyAssumption DEF KeyTypes, Times
<1> QED BY <1>1, <1>3, <1>4, <1>5, <1>6, SameKeys DEF TtlInv, Types

(* The clock goes on.                                                        *)
LEMMA TickInv ==
  ASSUME TtlInv, Tick
  PROVE  TtlInv'
<1>1. /\ KeyTypes /\ ThreadTypes /\ Agrees /\ Exclusive
      /\ now < MaxTime /\ now' = now + 1
      /\ UNCHANGED <<table, arena, expires, pc, op, key, born, crossed, alone>>
  BY DEF TtlInv, Types, Tick
<1>2. KeyTypes' /\ ThreadTypes'
  BY <1>1, SameThreadTypes, PolicyAssumption DEF KeyTypes, Times
<1>3. Agrees' /\ Exclusive'
  BY <1>1, TickAgrees
<1>4. now' \in Nat /\ now <= now'
  BY <1>1, PolicyAssumption DEF KeyTypes, Times
<1> QED BY <1>1, <1>2, <1>3, <1>4, SameKeys DEF TtlInv, Types

-------------------------------------------------------------------------------

(* The invariant holds whatever the threads do.                              *)
THEOREM TtlInvariant == Spec => []TtlInv
<1>1. Init => TtlInv
  <2> SUFFICES ASSUME Init PROVE TtlInv
    OBVIOUS
  <2>1. Types /\ Tracked(0, <<>>) /\ Exclusive /\ Agrees /\ Items(arena) = {}
    BY InitIs
  <2>2. KeysExpire
    BY <2>1 DEF Init, KeysExpire
  <2>3. Aged(0, <<>>)
    BY DEF Aged
  <2>4. \E n \in Nat : \E c : Tracked(n, c) /\ Aged(n, c)
    BY <2>1, <2>3
  <2> QED BY <2>1, <2>2, <2>4 DEF TtlInv
<1>2. TtlInv /\ [Next]_vars => TtlInv'
  <2> SUFFICES ASSUME TtlInv, [Next]_vars PROVE TtlInv'
    OBVIOUS
  <2>1. ASSUME NEW t \in Threads, NEW o \in Ops, NEW k \in Keys \cup {None}, Begin(t, o, k)
        PROVE  TtlInv'
    BY <2>1, BeginInv
  <2>2. ASSUME NEW t \in Threads, TtlPruneOne(t) PROVE TtlInv'
    BY <2>2, PruneOneInv
  <2>3. ASSUME NEW t \in Threads, TtlGet(t) \/ TtlPrune(t) PROVE TtlInv'
    BY <2>3, GetPruneInv
  <2>4. ASSUME NEW t \in Threads, TtlInsert(t) PROVE TtlInv'
    BY <2>4, InsertInv
  <2>5. ASSUME NEW t \in Threads, TtlRemove(t) PROVE TtlInv'
    BY <2>5, RemoveInv
  <2>6. ASSUME NEW t \in Threads, InsertNoPolicy(t) \/ RemoveNoPolicy(t) PROVE TtlInv'
    BY <2>6, CatchUpInv
  <2>7. CASE Tick
    BY <2>7, TickInv
  <2>8. CASE UNCHANGED vars
    <3>1. UNCHANGED <<arena, expires, alone>> /\ now' \in Nat /\ now <= now'
      BY <2>8, PolicyAssumption DEF vars, TtlInv, Types, KeyTypes, Times
    <3>2. KeyTypes' /\ ThreadTypes'
      BY <2>8, SameThreadTypes DEF vars, TtlInv, Types, KeyTypes, Times
    <3>3. Agrees' /\ Exclusive'
      BY <2>8, TickAgrees DEF vars, TtlInv
    <3> QED BY <3>1, <3>2, <3>3, SameKeys DEF TtlInv, Types
  <2> QED BY <2>1, <2>2, <2>3, <2>4, <2>5, <2>6, <2>7, <2>8 DEF Next
<1> QED BY <1>1, <1>2, PTL DEF Spec

(* The invariant implies what TLC checks of the variables and of the arena. *)
LEMMA TtlIsList == TtlInv => TypeOK /\ ArenaIsList
<1> SUFFICES ASSUME TtlInv PROVE TypeOK /\ ArenaIsList
  OBVIOUS
<1>1. PICK n \in Nat : \E c : Tracked(n, c) /\ Aged(n, c)
  BY DEF TtlInv
<1>2. PICK c : Tracked(n, c) /\ Aged(n, c)
  BY <1>1
<1> QED BY <1>2, TrackedIs DEF TtlInv

(* Every variable has its type, and every index that the unsafe accesses of  *)
(* linked_arena.rs use (63, 87, 158) is one of its Vec, however many keys    *)
(* there are.                                                                *)
THEOREM TtlTypes == Spec => []TypeOK
<1>1. TtlInv => TypeOK
  BY TtlIsList
<1> QED BY <1>1, TtlInvariant, PTL

(* linked_arena.rs:202.  The links of the arena make it a list, whatever     *)
(* swap_remove has moved.                                                    *)
THEOREM TtlArena == Spec => []ArenaIsList
<1>1. TtlInv => ArenaIsList
  BY TtlIsList
<1> QED BY <1>1, TtlInvariant, PTL

(* The keys of the list are ordered by age.                                  *)
THEOREM TtlOrder == Spec => []OldestLast
<1>1. TtlInv => OldestLast
  <2> SUFFICES ASSUME TtlInv PROVE OldestLast
    OBVIOUS
  <2>1. PICK n \in Nat : \E c : Tracked(n, c) /\ Aged(n, c)
    BY DEF TtlInv
  <2>2. PICK c : Tracked(n, c) /\ Aged(n, c)
    BY <2>1
  <2>3. None \notin Nat
    BY PolicyAssumption
  <2>4. Order(arena) = c /\ c \in [1 .. n -> Keys]
    BY <2>2, <2>3, OrderIs, ListIs DEF Tracked
  <2> QED BY <2>2, <2>4 DEF OldestLast, Aged
<1> QED BY <1>1, TtlInvariant, PTL

(* The policy tracks a key if and only if it is in the map, unless a change  *)
(* of it has yet to reach the map or two of its changes have crossed.        *)
THEOREM TtlTracks == Spec => []TracksMap
<1>1. TtlInv => TracksMap
  BY AgreesTracks DEF TtlInv
<1> QED BY <1>1, TtlInvariant, PTL

(* When the loop of prune ends and the tail is known no key of the arena has *)
(* expired: the tail is the oldest key of the list, and the list has all.    *)
LEMMA PrunedIsFresh ==
  ASSUME TtlInv, ~alone, ~Due, NEW k \in Keys, expires[k] # None
  PROVE  expires[k] >= now
<1>1. PICK n \in Nat : \E c : Tracked(n, c) /\ Aged(n, c)
  BY DEF TtlInv
<1>2. PICK c : Tracked(n, c) /\ Aged(n, c)
  BY <1>1
<1>3. None \notin Nat /\ KeyTypes /\ KeysExpire
  BY PolicyAssumption DEF TtlInv, Types
<1>4. now \in Nat /\ expires[k] \in Nat
  BY <1>3, PolicyAssumption DEF KeyTypes, Times
<1>5. ItemsAre(arena, n, c) /\ c \in [1 .. n -> Keys]
  BY <1>2, <1>3, ListIs DEF Tracked
<1>6. PICK p \in 1 .. n : k = c[p]
  BY <1>3, <1>5 DEF KeysExpire, ItemsAre
<1>7. arena.tail # None
  BY <1>2, <1>6 DEF Tracked, HasTail
<1>8. n \in 1 .. n /\ arena.nodes[arena.tail].item = c[n] /\ c[n] \in Items(arena)
  BY <1>2, <1>7, TailIs
<1>9. expires[c[n]] \in Nat /\ expires[c[n]] >= now
  <2>1. c[n] \in Keys
    BY <1>5, <1>8
  <2>2. expires[c[n]] # None /\ expires[c[n]] \in Nat
    BY <1>3, <1>8, <2>1 DEF KeysExpire, KeyTypes
  <2>3. ~(expires[c[n]] < now)
    BY <1>7, <1>8, <2>2 DEF Due, Expired
  <2> QED BY <1>4, <2>2, <2>3
<1>10. expires[k] >= expires[c[n]]
  <2>1. CASE p = n BY <1>4, <1>6, <2>1
  <2>2. CASE p # n
    <3>1. p < n
      BY <2>2
    <3> QED BY <1>2, <1>6, <1>8, <3>1 DEF Aged
  <2> QED BY <2>1, <2>2
<1> QED BY <1>4, <1>9, <1>10

(* As long as the tail is known, prune leaves no expired value of a key that *)
(* is settled, since its key is in the arena with the value's expiry.        *)
THEOREM TtlPrunes == Spec => []PruneRemovesExpired
<1>1. TtlInv => PruneRemovesExpired
  <2> SUFFICES ASSUME TtlInv, ~alone, ~Due, NEW k \in Keys, Settled(k), table[k] # None
               PROVE  table[k] + Ttl >= now
    BY DEF PruneRemovesExpired
  <2>1. KeyTypes /\ ThreadTypes /\ Agrees /\ KeysExpire /\ None \notin Nat
    BY PolicyAssumption DEF TtlInv, Types
  <2>2. k \in Items(arena) /\ expires[k] = table[k] + Ttl
    <3>1. Matches(k)
      BY <2>1 DEF Agrees, AgreesOn, Settled
    <3> QED BY <2>1, <3>1, TtlAssumption DEF Matches, Expiry
  <2>3. expires[k] # None
    BY <2>1, <2>2 DEF KeysExpire
  <2>4. expires[k] >= now
    BY <2>3, PrunedIsFresh
  <2> QED BY <2>2, <2>4
<1> QED BY <1>1, TtlInvariant, PTL

(* The arena keeps the keys in the order of their last use: every step uses  *)
(* a key, forgets one or leaves the order alone.                             *)
THEOREM TtlRecency == Spec => KeepsRecency
<1>1. Init => Recency!RecencyInit
  <2> SUFFICES ASSUME Init PROVE Order(arena) = <<>>
    BY DEF Recency!RecencyInit
  <2>1. ListOf(arena, Keys, 0, <<>>) /\ None \notin Nat
    BY InitIs, PolicyAssumption DEF Tracked
  <2> QED BY <2>1, OrderIs
<1>2. TtlInv /\ [Next]_vars => [Recency!RecencyNext]_(Order(arena))
  <2> SUFFICES ASSUME TtlInv, [Next]_vars, arena' # arena
               PROVE  Recency!RecencyNext
    OBVIOUS
  <2>1. PICK n \in Nat : \E c : Tracked(n, c) /\ Aged(n, c)
    BY DEF TtlInv
  <2>2. PICK c : Tracked(n, c)
    BY <2>1
  <2>3. KeyTypes /\ ThreadTypes /\ None \notin Ops
    BY PolicyAssumption DEF TtlInv, Types
  <2>4. ASSUME NEW t \in Threads, TtlPruneOne(t)
        PROVE  \E k \in Keys : Recency!Forget(k)
    <3>1. /\ arena.tail # None /\ alone' = alone
          /\ arena' = Remove(arena, arena.tail)
      BY <2>4 DEF TtlPruneOne, Evict, Due
    <3>2. c[n] \in Items(arena) /\ arena.tail = arena.idx_of[c[n]]
      BY <2>2, <3>1, TailIs
    <3> QED BY <2>2, <3>1, <3>2, RemoveForgets
  <2>5. ASSUME NEW t \in Threads, TtlInsert(t)
        PROVE  \E k \in Keys : Recency!UseNew(k) \/ Recency!UseAgain(k)
    <3>1. PICK k \in Keys : k = key[t]
      <4>1. "insert" # None
        BY <2>3 DEF Ops
      <4> QED BY <2>3, <2>5, <4>1 DEF TtlInsert, Pruned, ThreadTypes, ThreadType
    <3>2. IF k \in Items(arena) THEN Touch(k) ELSE Enter(k)
      BY <2>5, <3>1 DEF TtlInsert
    <3> QED BY <2>2, <3>2, TouchUses, EnterUses
  <2>6. ASSUME NEW t \in Threads, TtlRemove(t)
        PROVE  \E k \in Keys : Recency!Forget(k)
    <3>1. arena' = RemoveItem(arena, key[t]) /\ alone' = alone
      BY <2>6 DEF TtlRemove
    <3>2. key[t] \in Items(arena) /\ arena' = Remove(arena, arena.idx_of[key[t]])
      BY <3>1 DEF RemoveItem
    <3> QED BY <2>2, <3>1, <3>2, RemoveForgets
  <2> QED BY <2>4, <2>5, <2>6 DEF Next, vars, Recency!RecencyNext, Begin, TtlGet, TtlPrune,
             InsertNoPolicy, RemoveNoPolicy, Tick
<1> QED BY <1>1, <1>2, TtlInvariant, PTL DEF Spec, KeepsRecency, Recency!RecencySpec
================================================================================
