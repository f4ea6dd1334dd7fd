------------------------------ MODULE PolicyProofs ------------------------------
(***************************************************************************)
(* What TtlPolicy and LruPolicy have in common in the proofs of their       *)
(* invariants: the types, the list of keys in the arena, and that the      *)
(* policy and the map agree on a key unless its changes have crossed.       *)
(***************************************************************************)
EXTENDS PolicyCache, ArenaProofs

(* TypeOK but for the arena, about which ListOf says more: what is about the *)
(* keys and what is about the threads.                                       *)
KeyTypes ==
  /\ table \in [Keys -> Times \cup {None}]
  /\ expires \in [Keys -> Nat \cup {None}]
  /\ now \in Times
  /\ crossed \subseteq Keys
  /\ alone \in BOOLEAN

ThreadType(t) ==
  /\ pc[t] = "idle" <=> op[t] = None
  /\ key[t] = None <=> op[t] \in {None, "prune"}
  /\ pc[t] \in {"evicting", "inserting"} => born[t] # None
  /\ pc[t] \in {"evicting", "inserting", "removing"} => key[t] # None

ThreadTypes ==
  /\ pc \in [Threads -> {"idle", "pruning", "evicting", "inserting", "removing", "getting"}]
  /\ op \in [Threads -> Ops \cup {None}]
  /\ key \in [Threads -> Keys \cup {None}]
  /\ born \in [Threads -> Times \cup {None}]
  /\ \A t \in Threads : ThreadType(t)

Types == KeyTypes /\ ThreadTypes

(* The arena is a list of n keys whose tail is known unless a key has been   *)
(* used again while it was the only one.                                     *)
Tracked(n, c) ==
  /\ ListOf(arena, Keys, n, c)
  /\ ~alone => HasTail(arena, n)

(* One thread has the mutex.                                                 *)
Exclusive ==
  \A t, u \in Threads :
    pc[t] \in {"pruning", "evicting"} /\ pc[u] \in {"pruning", "evicting"} => t = u

Expiry(b) == IF Ttl = None THEN None ELSE b + Ttl

(* Once the last change of k has reached the map, the map and the policy     *)
(* agree on it; a thread whose change has not is ahead of the map, and is    *)
(* the only one.  All of that unless changes of the key have crossed.        *)
Matches(k) ==
  /\ table[k] # None <=> k \in Items(arena)
  /\ table[k] # None => expires[k] = Expiry(table[k])

Ahead(t, k) ==
  IF pc[t] = "removing"
  THEN k \notin Items(arena)
  ELSE k \in Items(arena) /\ expires[k] = Expiry(born[t])

AgreesOn(k) ==
  k \notin crossed
    => /\ (\A t \in Threads : ~Pending(t, k)) => Matches(k)
       /\ \A t \in Threads : Pending(t, k) => Ahead(t, k)
       /\ \A t, u \in Threads : Pending(t, k) /\ Pending(u, k) => t = u

Agrees == \A k \in Keys : AgreesOn(k)

(* The parts of TypeOK and ArenaIsList that are about the arena.             *)
LEMMA TrackedIs ==
  ASSUME NEW n \in Nat, NEW c, Tracked(n, c), Types
  PROVE  TypeOK /\ ArenaIsList
<1>1. None \notin Nat
  BY PolicyAssumption
<1>2. Items(arena) \subseteq Keys /\ InBounds(arena) /\ ArenaIsList
  BY <1>1, ListIs DEF Tracked, ArenaIsList
<1> QED BY <1>2 DEF TypeOK, Types, KeyTypes, ThreadTypes, ThreadType

(* All is as it should be at first.                                          *)
LEMMA InitIs ==
  ASSUME Init
  PROVE  Types /\ Tracked(0, <<>>) /\ Exclusive /\ Agrees /\ Items(arena) = {}
<1>1. Types
  <2>1. alone \in BOOLEAN
    BY DEF Init
  <2>2. KeyTypes
    BY <2>1, PolicyAssumption DEF Init, KeyTypes, Times
  <2>3. ThreadTypes
    BY DEF Init, ThreadTypes, ThreadType
  <2> QED BY <2>2, <2>3 DEF Types
<1>2. ListOf(arena, Keys, 0, <<>>) /\ Items(arena) = {}
  BY NewArenaIs DEF Init
<1>3. Tracked(0, <<>>)
  BY <1>2 DEF Tracked, HasTail
<1>4. Agrees
  BY <1>2 DEF Init, Agrees, AgreesOn, Matches, Pending
<1> QED BY <1>1, <1>2, <1>3, <1>4 DEF Exclusive, Init

-------------------------------------------------------------------------------
(* The arena                                                                 *)

(* The step of a thread that leaves the arena alone.                         *)
LEMMA SameTracked ==
  ASSUME NEW n \in Nat, NEW c, Tracked(n, c), arena' = arena, alone' = alone
  PROVE  Tracked(n, c)'
BY DEF Tracked

(* A key that is used again is in front.                                     *)
LEMMA TouchTracked ==
  ASSUME NEW n \in Nat, NEW c, Tracked(n, c), NEW k \in Items(arena), Touch(k)
  PROVE  /\ \E r \in 1 .. n : c[r] = k /\ Tracked(n, Raised(c, n, r))'
         /\ Items(arena') = Items(arena)
         /\ alone' \in BOOLEAN
         /\ alone => alone'
<1>1. None \notin Nat
  BY PolicyAssumption
<1>2. ListOf(arena, Keys, n, c) /\ arena' = MoveToHead(arena, arena.idx_of[k])
  BY DEF Tracked, Touch
<1>3. /\ \E r \in 1 .. n : c[r] = k /\ ListOf(arena', Keys, n, Raised(c, n, r))
      /\ Items(arena') = Items(arena)
      /\ n # 1 /\ HasTail(arena, n) => HasTail(arena', n)
  BY <1>1, <1>2, MoveToHeadList
<1>4. n = 1 => Items(arena) = {k}
  <2>1. ItemsAre(arena, n, c)
    BY <1>1, <1>2, ListIs
  <2> QED BY <2>1 DEF ItemsAre
<1>5. /\ alone' <=> alone \/ Items(arena) = {k}
      /\ alone' \in BOOLEAN
  BY DEF Touch
<1>6. ~alone' => HasTail(arena', n)
  BY <1>3, <1>4, <1>5 DEF Tracked
<1>7. PICK r \in 1 .. n : c[r] = k /\ ListOf(arena', Keys, n, Raised(c, n, r))
  BY <1>3
<1>8. Tracked(n, Raised(c, n, r))'
  BY <1>6, <1>7 DEF Tracked
<1> QED BY <1>3, <1>5, <1>7, <1>8

(* A new key is in front.                                                    *)
LEMMA EnterTracked ==
  ASSUME NEW n \in Nat, NEW c, Tracked(n, c), NEW k \in Keys, k \notin Items(arena), Enter(k)
  PROVE  /\ Tracked(n + 1, Pushed(c, n, k))'
         /\ Items(arena') = Items(arena) \cup {k}
         /\ alone' = alone
<1>1. None \notin Nat
  BY PolicyAssumption
<1>2. ListOf(arena, Keys, n, c) /\ arena' = InsertHead(arena, k) /\ alone' = alone
  BY DEF Tracked, Enter
<1>3. /\ ListOf(arena', Keys, n + 1, Pushed(c, n, k))
      /\ Items(arena') = Items(arena) \cup {k}
      /\ HasTail(arena, n) => HasTail(arena', n + 1)
  BY <1>1, <1>2, InsertHeadList
<1> QED BY <1>2, <1>3 DEF Tracked

(* A key that is tracked goes.                                               *)
LEMMA RemoveTracked ==
  ASSUME NEW n \in Nat, NEW c, Tracked(n, c), NEW k \in Items(arena),
         arena' = Remove(arena, arena.idx_of[k]), alone' = alone
  PROVE  /\ n \in Nat \ {0}
         /\ \E r \in 1 .. n : c[r] = k /\ Tracked(n - 1, Dropped(c, n, r))'
         /\ Items(arena') = Items(arena) \ {k}
<1>1. None \notin Nat
  BY PolicyAssumption
<1>2. ListOf(arena, Keys, n, c)
  BY DEF Tracked
<1>3. /\ n \in Nat \ {0}
      /\ \E r \in 1 .. n : c[r] = k /\ ListOf(arena', Keys, n - 1, Dropped(c, n, r))
      /\ Items(arena') = Items(arena) \ {k}
      /\ HasTail(arena, n) => HasTail(arena', n - 1)
  BY <1>1, <1>2, RemoveList
<1>4. PICK r \in 1 .. n : c[r] = k /\ ListOf(arena', Keys, n - 1, Dropped(c, n, r))
  BY <1>3
<1>5. Tracked(n - 1, Dropped(c, n, r))'
  BY <1>3, <1>4 DEF Tracked
<1> QED BY <1>3, <1>4, <1>5

(* The tail is a tracked key.                                                *)
LEMMA TailIs ==
  ASSUME NEW n \in Nat, NEW c, Tracked(n, c), arena.tail # None
  PROVE  /\ n \in 1 .. n
         /\ arena.nodes[arena.tail].item = c[n]
         /\ c[n] \in Items(arena)
         /\ arena.tail = arena.idx_of[c[n]]
<1>1. None \notin Nat
  BY PolicyAssumption
<1>2. TailAt(arena, n, c) /\ ItemsAre(arena, n, c)
  BY <1>1, ListIs DEF Tracked
<1>3. n # 0 /\ n \in 1 .. n
  BY <1>2 DEF TailAt
<1> QED BY <1>2, <1>3 DEF TailAt, ItemsAre

-------------------------------------------------------------------------------
(* The actions of both policies                                              *)

(* Begin keeps the types.                                                     *)
LEMMA BeginTypes ==
  ASSUME KeyTypes, ThreadTypes,
         NEW t \in Threads, NEW o \in Ops, NEW k \in Keys \cup {None}, Begin(t, o, k)
  PROVE  KeyTypes' /\ ThreadTypes'
<1>1. /\ None \notin Ops
      /\ None \notin Keys
  BY PolicyAssumption
<1>2. KeyTypes'
  BY DEF KeyTypes, Begin, Times
<1>3. /\ pc' = [pc EXCEPT ![t] = "pruning"]
      /\ op' = [op EXCEPT ![t] = o]
      /\ key' = [key EXCEPT ![t] = k]
      /\ born' = born
      /\ o = "prune" <=> k = None
  BY DEF Begin, Goto
<1>4. ThreadType(t)'
  BY <1>1, <1>3 DEF ThreadTypes, ThreadType
<1>5. \A u \in Threads \ {t} : ThreadType(u)'
  BY <1>3 DEF ThreadTypes, ThreadType
<1>6. \A u \in Threads : ThreadType(u)'
  BY <1>4, <1>5
<1> QED BY <1>2, <1>3, <1>6 DEF ThreadTypes, Times

(* The end of an operation.                                                  *)
LEMMA ReturnTypes ==
  ASSUME ThreadTypes, NEW t \in Threads, Return(t)
  PROVE  ThreadTypes'
<1>1. /\ pc' = [pc EXCEPT ![t] = "idle"]
      /\ op' = [op EXCEPT ![t] = None]
      /\ key' = [key EXCEPT ![t] = None]
      /\ born' = [born EXCEPT ![t] = None]
  BY DEF Return, Goto
<1>2. ThreadType(t)'
  BY <1>1 DEF ThreadTypes, ThreadType
<1>3. \A u \in Threads \ {t} : ThreadType(u)'
  BY <1>1 DEF ThreadTypes, ThreadType
<1>4. \A u \in Threads : ThreadType(u)'
  BY <1>2, <1>3
<1> QED BY <1>1, <1>4 DEF ThreadTypes, Times

(* Another stage of the same operation.                                      *)
LEMMA StageTypes ==
  ASSUME ThreadTypes, NEW t \in Threads, op[t] \notin {None, "prune"},
         NEW stage \in {"evicting", "inserting", "removing", "getting"},
         Goto(t, stage), op' = op, key' = key,
         born' \in [Threads -> Times \cup {None}],
         \A u \in Threads \ {t} : born'[u] = born[u],
         stage \in {"evicting", "inserting"} => born'[t] # None
  PROVE  ThreadTypes'
<1>1. pc' = [pc EXCEPT ![t] = stage]
  BY DEF Goto
<1>2. ThreadType(t)'
  BY <1>1 DEF ThreadTypes, ThreadType
<1>3. \A u \in Threads \ {t} : ThreadType(u)'
  BY <1>1 DEF ThreadTypes, ThreadType
<1>4. \A u \in Threads : ThreadType(u)'
  BY <1>2, <1>3
<1> QED BY <1>1, <1>4 DEF ThreadTypes, Times

(* So does a step that leaves the threads alone.                              *)
LEMMA SameThreadTypes ==
  ASSUME ThreadTypes, UNCHANGED <<pc, op, key, born>>
  PROVE  ThreadTypes'
BY DEF ThreadTypes, ThreadType, Times

-------------------------------------------------------------------------------
(* What the mutex gives, and what the policy and the map agree on            *)

(* One thread has the mutex after a call has got it.                         *)
LEMMA BeginExclusive ==
  ASSUME ThreadTypes, Exclusive,
         NEW t \in Threads, NEW o \in Ops, NEW k \in Keys \cup {None}, Begin(t, o, k)
  PROVE  Exclusive'
<1>1. \A u \in Threads : pc'[u] = IF u = t THEN "pruning" ELSE pc[u]
  BY DEF Begin, Goto, ThreadTypes
<1> QED BY <1>1 DEF Exclusive, Begin, Unlocked

(* A step in which t goes to another stage and perhaps is done.              *)
LEMMA ExclusiveKept ==
  ASSUME ThreadTypes, Exclusive, NEW t \in Threads, NEW stage, Goto(t, stage),
         pc[t] \in {"pruning", "evicting"} \/ stage \notin {"pruning", "evicting"}
  PROVE  Exclusive'
<1>1. \A u \in Threads : pc'[u] = IF u = t THEN stage ELSE pc[u]
  BY DEF Goto, ThreadTypes
<1> QED BY <1>1 DEF Exclusive

(* A step that changes nothing of a key: in the policy, the map and the      *)
(* threads that have yet to tell the map.                                    *)
SameOn(k) ==
  /\ k \notin crossed' => k \notin crossed
  /\ table'[k] = table[k] /\ expires'[k] = expires[k]
  /\ k \in Items(arena') <=> k \in Items(arena)
  /\ \A t \in Threads :
       /\ Pending(t, k)' <=> Pending(t, k)
       /\ Pending(t, k) => /\ born'[t] = born[t]
                           /\ pc'[t] = "removing" <=> pc[t] = "removing"

(* Such a step keeps the agreement on the key.                               *)
LEMMA SameAgrees ==
  ASSUME NEW k \in Keys, AgreesOn(k), SameOn(k)
  PROVE  AgreesOn(k)'
<1> SUFFICES ASSUME k \notin crossed'
             PROVE  /\ (\A t \in Threads : ~Pending(t, k)') => Matches(k)'
                    /\ \A t \in Threads : Pending(t, k)' => Ahead(t, k)'
                    /\ \A t, u \in Threads : Pending(t, k)' /\ Pending(u, k)' => t = u
  BY DEF AgreesOn
<1>1. k \notin crossed /\ \A t \in Threads : Pending(t, k)' <=> Pending(t, k)
  BY DEF SameOn
<1>2. (\A t \in Threads : ~Pending(t, k)') => Matches(k)'
  <2>1. Matches(k) => Matches(k)'
    BY DEF SameOn, Matches, Expiry
  <2> QED BY <1>1, <2>1 DEF AgreesOn
<1>3. ASSUME NEW t \in Threads, Pending(t, k)'
      PROVE  Ahead(t, k)'
  <2>1. Pending(t, k) /\ Ahead(t, k)
    BY <1>1, <1>3 DEF AgreesOn
  <2> QED BY <2>1 DEF SameOn, Ahead, Expiry
<1> QED BY <1>1, <1>2, <1>3 DEF AgreesOn

(* A step between stages in none of which the thread has to tell the map     *)
(* anything: the begin, the step of get to the map, the end of get and prune. *)
LEMMA QuietAgrees ==
  ASSUME ThreadTypes, Agrees, NEW t \in Threads, pc[t] \in {"idle", "pruning", "getting"},
         NEW stage \in {"idle", "pruning", "getting"}, Goto(t, stage),
         \A u \in Threads \ {t} : key'[u] = key[u] /\ born'[u] = born[u],
         Items(arena') = Items(arena), table' = table, expires' = expires, crossed' = crossed
  PROVE  Agrees'
<1>1. \A u \in Threads : pc'[u] = IF u = t THEN stage ELSE pc[u]
  BY DEF Goto, ThreadTypes
<1>2. ASSUME NEW k \in Keys
      PROVE  SameOn(k)
  BY <1>1 DEF SameOn, Pending
<1> QED BY <1>2, SameAgrees DEF Agrees

(* A key leaves the policy and the map at once, while its thread has the     *)
(* mutex; the thread is not about to insert that key.                        *)
LEMMA EvictAgrees ==
  ASSUME KeyTypes, ThreadTypes, Agrees, NEW t \in Threads, NEW k \in Keys,
         pc[t] \in {"pruning", "evicting"}, pc[t] = "evicting" => key[t] # k,
         NEW stage, Goto(t, stage),
         stage = pc[t] \/ (pc[t] = "evicting" /\ stage = "inserting"),
         UNCHANGED <<key, born>>, Cross(t, k),
         Items(arena') = Items(arena) \ {k},
         table' = [table EXCEPT ![k] = None], expires' = [expires EXCEPT ![k] = None]
  PROVE  Agrees'
<1>1. \A u \in Threads : pc'[u] = IF u = t THEN stage ELSE pc[u]
  BY DEF Goto, ThreadTypes
<1>2. \A u \in Threads, q \in Keys : Pending(u, q)' <=> Pending(u, q)
  BY <1>1 DEF Pending
<1>3. /\ table'[k] = None
      /\ \A q \in Keys \ {k} : /\ table'[q] = table[q] /\ expires'[q] = expires[q]
                                /\ q \in crossed' <=> q \in crossed
  BY DEF KeyTypes, Cross
<1>4. ASSUME NEW q \in Keys \ {k}
      PROVE  AgreesOn(q)'
  <2>1. SameOn(q)
    BY <1>1, <1>2, <1>3 DEF SameOn
  <2> QED BY <2>1, SameAgrees DEF Agrees
<1>5. AgreesOn(k)'
  <2>1. ASSUME k \notin crossed'
        PROVE  \A u \in Threads : ~Pending(u, k)
    <3>1. \A u \in Threads \ {t} : ~Pending(u, k)
      BY <2>1 DEF Cross
    <3>2. ~Pending(t, k)
      BY DEF Pending
    <3> QED BY <3>1, <3>2
  <2>2. Matches(k)'
    BY <1>3 DEF Matches
  <2> QED BY <1>2, <2>1, <2>2 DEF AgreesOn
<1> QED BY <1>4, <1>5 DEF Agrees

(* evict finds nothing to do.                                                *)
LEMMA StayAgrees ==
  ASSUME ThreadTypes, Agrees, NEW t \in Threads, pc[t] = "evicting", Goto(t, "inserting"),
         UNCHANGED <<arena, table, expires, key, born, crossed>>
  PROVE  Agrees'
<1>1. \A u \in Threads : pc'[u] = IF u = t THEN "inserting" ELSE pc[u]
  BY DEF Goto, ThreadTypes
<1>2. ASSUME NEW k \in Keys
      PROVE  SameOn(k)
  BY <1>1 DEF SameOn, Pending
<1> QED BY <1>2, SameAgrees DEF Agrees

(* The policy counts an insert or forgets a key that is about to be removed: *)
(* the thread is ahead of the map.                                           *)
LEMMA CountAgrees ==
  ASSUME ThreadTypes, Agrees, NEW t \in Threads, pc[t] = "pruning", NEW k \in Keys, key[t] = k,
         NEW stage \in {"evicting", "inserting", "removing"}, Goto(t, stage),
         UNCHANGED <<table, key>>, Cross(t, k),
         \A u \in Threads \ {t} : born'[u] = born[u],
         \A q \in Keys \ {k} : /\ expires'[q] = expires[q]
                               /\ q \in Items(arena') <=> q \in Items(arena),
         Ahead(t, k)'
  PROVE  Agrees'
<1>1. \A u \in Threads : pc'[u] = IF u = t THEN stage ELSE pc[u]
  BY DEF Goto, ThreadTypes
<1>2. \A q \in Keys \ {k} : q \in crossed' <=> q \in crossed
  BY DEF Cross
<1>3. ASSUME NEW q \in Keys \ {k}
      PROVE  AgreesOn(q)'
  <2>1. SameOn(q)
    BY <1>1, <1>2 DEF SameOn, Pending
  <2> QED BY <2>1, SameAgrees DEF Agrees
<1>4. AgreesOn(k)'
  <2>1. k \notin crossed' => \A u \in Threads \ {t} : ~Pending(u, k)'
    BY <1>1 DEF Cross, Pending
  <2>2. Pending(t, k)'
    BY <1>1 DEF Pending
  <2> QED BY <2>1, <2>2 DEF AgreesOn
<1> QED BY <1>3, <1>4 DEF Agrees

(* The map catches up with the policy: insert_no_policy, remove_no_policy.   *)
LEMMA CatchUpAgrees ==
  ASSUME KeyTypes, ThreadTypes, Agrees, NEW t \in Threads,
         InsertNoPolicy(t) \/ RemoveNoPolicy(t)
  PROVE  Agrees'
<1>1. /\ pc[t] \in {"inserting", "removing"}
      /\ table' = [table EXCEPT ![key[t]] = IF pc[t] = "inserting" THEN born[t] ELSE None]
      /\ Goto(t, "idle")
      /\ key' = [key EXCEPT ![t] = None]
      /\ born' = [born EXCEPT ![t] = None]
      /\ UNCHANGED <<arena, expires, crossed>>
  BY DEF InsertNoPolicy, RemoveNoPolicy, Return
<1>2. /\ \A u \in Threads : pc'[u] = IF u = t THEN "idle" ELSE pc[u]
      /\ \A u \in Threads \ {t} : key'[u] = key[u] /\ born'[u] = born[u]
  BY <1>1 DEF Goto, ThreadTypes
<1>3. /\ key[t] # None /\ key[t] \in Keys
      /\ pc[t] = "inserting" => born[t] # None
  BY <1>1 DEF ThreadTypes, ThreadType
<1>4. PICK k \in Keys : k = key[t]
  BY <1>3
<1>5. /\ table'[k] = IF pc[t] = "inserting" THEN born[t] ELSE None
      /\ \A q \in Keys \ {k} : table'[q] = table[q]
  BY <1>1, <1>4 DEF KeyTypes
<1>6. ASSUME NEW q \in Keys \ {k}
      PROVE  AgreesOn(q)'
  <2>1. SameOn(q)
    BY <1>1, <1>2, <1>4, <1>5 DEF SameOn, Pending
  <2> QED BY <2>1, SameAgrees DEF Agrees
<1>7. AgreesOn(k)'
  <2>1. ASSUME k \notin crossed
        PROVE  Matches(k)' /\ \A u \in Threads : ~Pending(u, k)'
    <3>1. Pending(t, k) /\ AgreesOn(k)
      BY <1>1, <1>4 DEF Pending, Agrees
    <3>2. Ahead(t, k) /\ \A u \in Threads \ {t} : ~Pending(u, k)
      BY <2>1, <3>1 DEF AgreesOn
    <3>3. \A u \in Threads : ~Pending(u, k)'
      BY <1>2, <3>2 DEF Pending
    <3>4. Matches(k)'
      BY <1>1, <1>3, <1>5, <3>2 DEF Matches, Ahead, Expiry
    <3> QED BY <3>3, <3>4
  <2> QED BY <1>1, <2>1 DEF AgreesOn
<1> QED BY <1>6, <1>7 DEF Agrees

(* Time does not matter to the agreement, and a stuttering step keeps it.    *)
LEMMA TickAgrees ==
  ASSUME Agrees, Exclusive,
         UNCHANGED <<table, arena, expires, pc, key, born, crossed>>
  PROVE  Agrees' /\ Exclusive'
<1>1. ASSUME NEW k \in Keys
      PROVE  SameOn(k)
  BY DEF SameOn, Pending
<1>2. Agrees'
  BY <1>1, SameAgrees DEF Agrees
<1> QED BY <1>2 DEF Exclusive

(* TracksMap is a part of the agreement.                                     *)
LEMMA AgreesTracks ==
  ASSUME Agrees
  PROVE  TracksMap
BY DEF Agrees, AgreesOn, Matches, TracksMap, Settled

-------------------------------------------------------------------------------
(* The arena implements RecencyList                                          *)

(* The order of the keys of a list, before and after a step.                 *)
LEMMA ListOrder ==
  ASSUME NEW n \in Nat, NEW c, ListOf(arena, Keys, n, c),
         NEW m \in Nat, NEW d, ListOf(arena', Keys, m, d)
  PROVE  /\ Order(arena) = c /\ c \in [1 .. n -> Keys]
         /\ Order(arena)' = d /\ d \in [1 .. m -> Keys]
<1>1. None \notin Nat
  BY PolicyAssumption
<1>2. Order(arena) = c /\ c \in [1 .. n -> Keys]
  BY <1>1, OrderIs, ListIs
<1>3. Order(arena') = d /\ d \in [1 .. m -> Keys]
  BY <1>1, OrderIs, ListIs
<1> QED BY <1>2, <1>3

(* remove of the arena forgets a key.                                        *)
LEMMA RemoveForgets ==
  ASSUME NEW n \in Nat, NEW c, Tracked(n, c), NEW k \in Items(arena),
         arena' = Remove(arena, arena.idx_of[k]), alone' = alone
  PROVE  k \in Keys /\ Recency!Forget(k)
<1>1. /\ n \in Nat \ {0}
      /\ \E r \in 1 .. n : c[r] = k /\ Tracked(n - 1, Dropped(c, n, r))'
  BY RemoveTracked
<1>2. PICK r \in 1 .. n : c[r] = k /\ Tracked(n - 1, Dropped(c, n, r))'
  BY <1>1
<1> DEFINE d == Dropped(c, n, r)
           m == n - 1
<1>3. m \in Nat /\ ListOf(arena, Keys, n, c) /\ ListOf(arena', Keys, m, d)
  BY <1>1, <1>2 DEF Tracked
<1> HIDE DEF d, m
<1>4. /\ Order(arena) = c /\ c \in [1 .. n -> Keys]
      /\ Order(arena)' = d /\ d \in [1 .. m -> Keys]
  BY <1>3, ListOrder
<1>5. Len(c) = n /\ DOMAIN c = 1 .. n
  BY <1>4, VecLen
<1>6. d = [p \in 1 .. Len(c) - 1 |-> c[IF p < r THEN p ELSE p + 1]]
  BY <1>5 DEF d, Dropped
<1> QED BY <1>2, <1>4, <1>5, <1>6 DEF Recency!Forget, Recency!Without

(* insert_head puts a new key first.                                         *)
LEMMA EnterUses ==
  ASSUME NEW n \in Nat, NEW c, Tracked(n, c), NEW k \in Keys, k \notin Items(arena), Enter(k)
  PROVE  Recency!UseNew(k)
<1> DEFINE d == Pushed(c, n, k)
           m == n + 1
<1>1. m \in Nat /\ ListOf(arena, Keys, n, c) /\ ListOf(arena', Keys, m, d)
  <2>1. Tracked(n + 1, Pushed(c, n, k))'
    BY EnterTracked
  <2> QED BY <2>1 DEF Tracked
<1> HIDE DEF d, m
<1>2. /\ Order(arena) = c /\ c \in [1 .. n -> Keys]
      /\ Order(arena)' = d /\ d \in [1 .. m -> Keys]
  BY <1>1, ListOrder
<1>3. \A p \in 1 .. n : c[p] # k
  <2>1. None \notin Nat
    BY PolicyAssumption
  <2>2. ItemsAre(arena, n, c)
    BY <1>1, <2>1, ListIs
  <2> QED BY <2>2 DEF ItemsAre
<1>4. d = <<k>> \o c
  <2>1. c \in Seq(Keys) /\ Len(c) = n
    BY <1>2, VecLen
  <2>2. DOMAIN (<<k>> \o c) = 1 .. n + 1
    BY <2>1
  <2>3. \A p \in 1 .. n + 1 : (<<k>> \o c)[p] = IF p = 1 THEN k ELSE c[p - 1]
    BY <2>1
  <2>4. <<k>> \o c = [p \in 1 .. n + 1 |-> (<<k>> \o c)[p]]
    BY <2>1, <2>2
  <2> QED BY <2>3, <2>4 DEF d, Pushed
<1> QED BY <1>2, <1>3, <1>4 DEF Recency!UseNew

(* move_to_head puts a known key first.                                      *)
LEMMA TouchUses ==
  ASSUME NEW n \in Nat, NEW c, Tracked(n, c), NEW k \in Items(arena), Touch(k)
  PROVE  k \in Keys /\ Recency!UseAgain(k)
<1>1. PICK r \in 1 .. n : c[r] = k /\ Tracked(n, Raised(c, n, r))'
  BY TouchTracked
<1> DEFINE d == Raised(c, n, r)
           e == [p \in 1 .. n - 1 |-> c[IF p < r THEN p ELSE p + 1]]
<1>2. ListOf(arena, Keys, n, c) /\ ListOf(arena', Keys, n, d)
  BY <1>1 DEF Tracked
<1> HIDE DEF d
<1>3. /\ Order(arena) = c /\ c \in [1 .. n -> Keys]
      /\ Order(arena)' = d /\ d \in [1 .. n -> Keys]
  BY <1>2, ListOrder
<1>4. Len(c) = n /\ DOMAIN c = 1 .. n /\ k \in Keys
  BY <1>1, <1>3, VecLen
<1>5. d = <<k>> \o e
  <2>1. n - 1 \in Nat /\ e \in [1 .. n - 1 -> Keys]
    BY <1>3
  <2>2. \A p \in 1 .. n : p # 1 => p - 1 \in 1 .. n - 1
                                   /\ e[p - 1] = IF p <= r THEN c[p - 1] ELSE c[p]
    OBVIOUS
  <2> HIDE DEF e
  <2>3. e \in Seq(Keys) /\ Len(e) = n - 1
    BY <2>1, VecLen
  <2>4. DOMAIN (<<k>> \o e) = 1 .. n
    BY <2>3
  <2>5. \A p \in 1 .. n : (<<k>> \o e)[p] = IF p = 1 THEN k ELSE e[p - 1]
    BY <2>3
  <2>6. <<k>> \o e = [p \in 1 .. n |-> (<<k>> \o e)[p]]
    BY <2>3, <2>4
  <2>7. d = [p \in 1 .. n |-> d[p]]
    BY <1>3
  <2>8. \A p \in 1 .. n : d[p] = IF p = 1 THEN k ELSE e[p - 1]
    BY <1>1, <2>2 DEF d, Raised
  <2>9. \A p \in 1 .. n : d[p] = (<<k>> \o e)[p]
    BY <2>5, <2>8
  <2> QED BY <2>6, <2>7, <2>9
<1>6. e = [p \in 1 .. Len(c) - 1 |-> c[IF p < r THEN p ELSE p + 1]]
  BY <1>4
<1> HIDE DEF e
<1> QED BY <1>1, <1>3, <1>4, <1>5, <1>6 DEF Recency!UseAgain, Recency!Without
================================================================================
