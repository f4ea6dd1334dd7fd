---------------------------- MODULE LightMapProofs ----------------------------
(***************************************************************************)
(* Theorems about LightMap for any number of keys, values, threads, cores   *)
(* and shards, that MapBuilder rounds to a power of two included.           *)
(***************************************************************************)
EXTENDS LightMap, FiniteSetTheorems, NaturalsInduction, WellFoundedInduction, TLAPS

-------------------------------------------------------------------------------
(* The number of shards                                                      *)

(* A set of numbers has a smallest one.                                      *)
LEMMA SmallestIs ==
  ASSUME NEW S, S \subseteq Nat, S # {}
  PROVE  \E p \in S : \A q \in S : p <= q
<1> DEFINE R == OpToRel(<, Nat)
<1>1. IsWellFoundedOn(R, Nat)
  BY NatLessThanWellFounded
<1>2. \A p, q \in Nat : q < p => <<q, p>> \in R
  BY DEF OpToRel
<1> HIDE DEF R
<1>3. \E p \in S : \A q \in S : ~(<<q, p>> \in R)
  BY <1>1, WFMin
<1>4. \E p \in S : \A q \in S : ~(q < p)
  BY <1>2, <1>3
<1> QED BY <1>4

(* The powers of two up to the exponent n.                                   *)
PowersTo(n, g) ==
  /\ g \in [0 .. n -> Nat]
  /\ g[0] = 1
  /\ \A i \in 1 .. n : g[i] = 2 * g[i - 1]

(* There are such functions, and they grow.                                  *)
LEMMA SomePowers ==
  ASSUME NEW n \in Nat
  PROVE  \E g : PowersTo(n, g) /\ g[n] > n
<1> DEFINE Bad == {m \in Nat : ~\E g : PowersTo(m, g) /\ g[m] > m}
<1> SUFFICES ASSUME Bad # {} PROVE FALSE
  OBVIOUS
<1>1. PICK m \in Bad : \A q \in Bad : m <= q
  <2>1. Bad \subseteq Nat
    OBVIOUS
  <2> HIDE DEF Bad
  <2> QED BY <2>1, SmallestIs
<1>2. CASE m = 0
  <2> DEFINE g == [i \in 0 .. 0 |-> 1]
  <2>1. PowersTo(0, g) /\ g[0] > 0
    BY DEF PowersTo
  <2> QED BY <1>2, <2>1
<1>3. CASE m # 0
  <2>1. m - 1 \in Nat /\ m - 1 \notin Bad
    BY <1>1, <1>3
  <2>2. PICK h : PowersTo(m - 1, h) /\ h[m - 1] > m - 1
    BY <2>1
  <2> DEFINE g == [i \in 0 .. m |-> IF i = m THEN 2 * h[m - 1] ELSE h[i]]
  <2>3. h \in [0 .. m - 1 -> Nat] /\ h[0] = 1 /\ \A i \in 1 .. m - 1 : h[i] = 2 * h[i - 1]
    BY <2>2 DEF PowersTo
  <2>4. g \in [0 .. m -> Nat]
    BY <2>1, <2>3
  <2>5. g[0] = 1 /\ \A i \in 1 .. m : g[i] = 2 * g[i - 1]
    BY <1>3, <2>1, <2>3
  <2>6. g[m] > m
    BY <2>1, <2>2, <2>3
  <2> HIDE DEF g
  <2>7. PowersTo(m, g) /\ g[m] > m
    BY <2>4, <2>5, <2>6 DEF PowersTo
  <2> QED BY <2>7
<1> QED BY <1>2, <1>3

(* They agree.                                                               *)
LEMMA SamePowers ==
  ASSUME NEW n \in Nat, NEW g, PowersTo(n, g), NEW m \in Nat, NEW h, PowersTo(m, h),
         NEW i \in 0 .. n, i <= m
  PROVE  g[i] = h[i]
<1> DEFINE Bad == {j \in 0 .. n : j <= m /\ g[j] # h[j]}
<1> SUFFICES ASSUME Bad # {} PROVE FALSE
  OBVIOUS
<1>1. PICK j \in Bad : \A q \in Bad : j <= q
  <2>1. Bad \subseteq Nat
    OBVIOUS
  <2> HIDE DEF Bad
  <2> QED BY <2>1, SmallestIs
<1>2. j # 0
  BY <1>1 DEF PowersTo
<1>3. j - 1 \in 0 .. n /\ j - 1 <= m /\ j - 1 \notin Bad
  BY <1>1, <1>2
<1>4. g[j] = 2 * g[j - 1] /\ h[j] = 2 * h[j - 1]
  BY <1>1, <1>2 DEF PowersTo
<1> QED BY <1>1, <1>3, <1>4

(* So Power is what its definition says, and it grows.                       *)
LEMMA PowerGrows ==
  ASSUME NEW n \in Nat
  PROVE  Power[n] \in Nat /\ Power[n] > n
<1> DEFINE To(m) == CHOOSE g : PowersTo(m, g) /\ g[m] > m
           f == [i \in Nat |-> To(i)[i]]
           Step(p) == [i \in Nat |-> IF i = 0 THEN 1 ELSE 2 * p[i - 1]]
<1>1. \A m \in Nat : PowersTo(m, To(m)) /\ To(m)[m] > m
  BY SomePowers
<1> HIDE DEF To
<1>2. f = Step(f)
  <2> SUFFICES ASSUME NEW i \in Nat
               PROVE  f[i] = IF i = 0 THEN 1 ELSE 2 * f[i - 1]
    OBVIOUS
  <2>1. CASE i = 0
    BY <1>1, <2>1 DEF PowersTo
  <2>2. CASE i # 0
    <3>1. i - 1 \in Nat /\ i - 1 \in 0 .. i /\ i \in 1 .. i
      BY <2>2
    <3>2. To(i)[i - 1] = To(i - 1)[i - 1]
      BY <1>1, <3>1, SamePowers
    <3>3. To(i)[i] = 2 * To(i)[i - 1]
      BY <1>1, <3>1 DEF PowersTo
    <3> QED BY <2>2, <3>1, <3>2, <3>3
  <2> QED BY <2>1, <2>2
<1> DEFINE P == Power
<1>3. P = Step(P)
  <2>1. P = CHOOSE p : p = Step(p)
    BY DEF Power
  <2> HIDE DEF P, f, Step
  <2> QED BY <1>2, <2>1
<1> HIDE DEF P
<1>4. P[n] = f[n]
  <2> DEFINE Bad == {i \in Nat : P[i] # f[i]}
  <2>1. SUFFICES ASSUME Bad # {} PROVE FALSE
    OBVIOUS
  <2>2. PICK i \in Bad : \A q \in Bad : i <= q
    <3>1. Bad \subseteq Nat
      OBVIOUS
    <3> HIDE DEF Bad
    <3> QED BY <2>1, <3>1, SmallestIs
  <2> HIDE DEF f
  <2>3. \A j \in Nat : /\ P[j] = IF j = 0 THEN 1 ELSE 2 * P[j - 1]
                       /\ f[j] = IF j = 0 THEN 1 ELSE 2 * f[j - 1]
    BY <1>2, <1>3
  <2>4. i # 0 => i - 1 \in Nat /\ i - 1 \notin Bad
    BY <2>2
  <2> QED BY <2>2, <2>3, <2>4
<1>5. f[n] \in Nat /\ f[n] > n
  BY <1>1 DEF PowersTo
<1> QED BY <1>4, <1>5 DEF P

(* builder.rs:43.  There is a power of two, so the number of shards is one.  *)
LEMMA PowerOfTwoIs ==
  ASSUME NEW n \in Nat
  PROVE  NextPowerOfTwo(n) \in Nat \ {0} /\ NextPowerOfTwo(n) >= n
<1> DEFINE powers == {Power[i] : i \in 0 .. n}
           large == {p \in powers : p >= n}
<1>1. powers \subseteq Nat \ {0}
  <2>1. \A i \in 0 .. n : Power[i] \in Nat /\ Power[i] > i
    BY PowerGrows
  <2> QED BY <2>1
<1>2. Power[n] \in large
  BY PowerGrows
<1>3. \E p \in large : \A q \in large : p <= q
  <2>1. large \subseteq Nat /\ large # {}
    BY <1>1, <1>2
  <2> HIDE DEF large
  <2> QED BY <2>1, SmallestIs
<1>4. \E p \in powers : p >= n /\ \A q \in powers : q >= n => p <= q
  BY <1>3
<1> HIDE DEF powers
<1>5. NextPowerOfTwo(n) \in powers /\ NextPowerOfTwo(n) >= n
  BY <1>4 DEF NextPowerOfTwo, powers
<1> QED BY <1>1, <1>5

(* builder.rs:37.  Whatever the builder asks for and the machine has, there  *)
(* is a shard.                                                              *)
LEMMA SomeShards == \A b \in Builders : NumShards(b) \in Nat \ {0}
<1> SUFFICES ASSUME NEW b \in Builders
             PROVE  NumShards(b) \in Nat \ {0}
  OBVIOUS
<1> DEFINE asked == IF b.shards = None THEN MaxParallelism * 4 ELSE b.shards
<1>1. asked \in Nat
  BY BuilderAssumption DEF Builders, MaxParallelism
<1> HIDE DEF asked
<1>2. NextPowerOfTwo(asked) \in Nat \ {0}
  BY <1>1, PowerOfTwoIs
<1> QED BY <1>2 DEF NumShards, asked

-------------------------------------------------------------------------------
(* One entry for each key, one guard for each shard                          *)

USE MapAssumption, RequestAssumption

(* Two threads have no GetMut of the same shard. *)
GuardsExclude ==
  \A t, u \in Threads :
    mut[t] # None /\ mut[u] # None /\ ShardOf(mut[t]) = ShardOf(mut[u]) => t = u

MapInv == TypeOK /\ OneEntryPerKey /\ GuardsExclude

(* Every key has a shard.                                                    *)
LEMMA ShardIsOne ==
  ASSUME NEW k \in Keys, N \in Nat \ {0}
  PROVE  ShardOf(k) \in Shards
  BY DEF ShardOf, Shards

(* A request of an operation on a key has a key, and one of insert a value.  *)
LEMMA RequestFields ==
  ASSUME NEW r \in Requests
  PROVE  /\ r.op \in {"get", "remove", "get_mut", "insert"} => r.key \in Keys
         /\ r.op = "insert" => r.value \in Values
         /\ r.op \in {"get", "remove", "get_mut", "insert"} => r # [op |-> "len"]
  BY DEF Requests

(* A write: the entries of k become `new`, all others stay.                 *)
Writes(k, new) ==
  /\ tables' = [tables EXCEPT ![ShardOf(k)] = (@ \ Find(k)) \cup new]
  /\ UNCHANGED built

(* The entry, if there is one, of a key.                                    *)
EntriesOf(k) == {{}} \cup {{e} : e \in {f \in Entry : f.key = k}}

(* What a write of a key's entries does to the tables and to what they hold. *)
LEMMA WriteEffect ==
  ASSUME TypeOK, OneEntryPerKey, NEW k \in Keys, NEW new \in EntriesOf(k), Writes(k, new)
  PROVE  /\ tables' \in [Shards -> SUBSET Entry]
         /\ OneEntryPerKey'
         /\ Find(k)' = new
         /\ \A j \in Keys \ {k} : Find(j)' = Find(j)
<1> DEFINE s == ShardOf(k)
<1>1. s \in Shards
  BY ShardIsOne DEF TypeOK, N
<1>2. \A e \in new : e \in Entry /\ e.key = k /\ new = {e}
  BY DEF EntriesOf
<1>3. /\ tables'[s] = (tables[s] \ Find(k)) \cup new
      /\ \A r \in Shards \ {s} : tables'[r] = tables[r]
      /\ tables' \in [Shards -> SUBSET Entry]
  BY <1>1, <1>2 DEF Writes, TypeOK
<1>4. \A j : ShardOf(j)' = ShardOf(j) /\ Shards' = Shards
  BY DEF Writes, ShardOf, Shards, N
<1>5. OneEntryPerKey'
  BY <1>1, <1>2, <1>3, <1>4 DEF OneEntryPerKey, Find
<1>6. Find(k)' = new
  BY <1>1, <1>2, <1>3, <1>4 DEF Find
<1>7. ASSUME NEW j \in Keys \ {k}
      PROVE  Find(j)' = Find(j)
  <2>1. ShardOf(j) \in Shards
    BY ShardIsOne DEF TypeOK, N
  <2>2. CASE ShardOf(j) = s
    BY <1>1, <1>2, <1>3, <1>4, <2>1, <2>2 DEF Find
  <2>3. CASE ShardOf(j) # s
    BY <1>3, <1>4, <2>1, <2>3 DEF Find
  <2> QED BY <2>2, <2>3
<1> QED BY <1>3, <1>5, <1>6, <1>7

-------------------------------------------------------------------------------
(* The invariant                                                             *)

IsLen(t) == call[t] = [op |-> "len"]

(* Only keys are present.                                                    *)
LEMMA PresentKeys == ASSUME TypeOK PROVE Present \subseteq Keys
  BY DEF TypeOK, Present, Entry

(* What is left to show of a step's types when those of the variables that  *)
(* the operations change are known.                                         *)
LEMMA TypeStep ==
  ASSUME TypeOK, Always,
         tables' \in [Shards -> SUBSET Entry],
         call' \in [Threads -> Requests \cup {None}],
         ret' \in [Threads -> Values \cup {None} \cup Nat],
         mut' \in [Threads -> Keys \cup {None}],
         scan' \in [Threads -> [next : Shards, sum : Nat]],
         \A t \in Threads : /\ IsLen(t)' => IsLen(t) \/ call[t] = None
                            /\ ~IsLen(t)' => scan'[t] = NoScan
  PROVE  TypeOK'
<1>1. UNCHANGED built /\ Shards' = Shards
  BY DEF Always, Shards, N
<1>2. Present \subseteq Keys /\ Present' \subseteq Keys
  <2>1. Present' \subseteq Keys
    BY <1>1 DEF Present, Entry
  <2> QED BY <2>1, PresentKeys
<1>3. ASSUME NEW t \in Threads
      PROVE  IF IsLen(t)' THEN span'[t] \in [always : SUBSET Keys, ever : SUBSET Keys]
                          ELSE span'[t] = None
  <2>1. span'[t] = Observe(t)
    BY DEF Always
  <2>2. CASE ~IsLen(t)'
    BY <2>1, <2>2 DEF Observe, IsLen
  <2>3. CASE IsLen(t)' /\ call[t] = None
    BY <1>2, <2>1, <2>3 DEF Observe, IsLen
  <2>4. CASE IsLen(t)' /\ call[t] # None
    <3>1. span[t] \in [always : SUBSET Keys, ever : SUBSET Keys]
      BY <2>4 DEF TypeOK, IsLen
    <3> QED BY <1>2, <2>1, <2>4, <3>1 DEF Observe, IsLen
  <2> QED BY <2>2, <2>3, <2>4
<1> QED BY <1>1, <1>3 DEF TypeOK, IsLen

(* The entry of a key and its value.                                        *)
LEMMA FoundEntry ==
  ASSUME TypeOK, OneEntryPerKey, NEW k \in Keys
  PROVE  /\ Find(k) \in EntriesOf(k)
         /\ ValueOf(k) \in Values \cup {None}
         /\ Find(k) = {} <=> ValueOf(k) = None
<1>1. ShardOf(k) \in Shards
  BY ShardIsOne DEF TypeOK, N
<1>2. \A e \in Find(k) : e \in Entry /\ e.key = k /\ e.value \in Values /\ Find(k) = {e}
  BY <1>1 DEF Find, TypeOK, OneEntryPerKey, Entry
<1> QED BY <1>2 DEF EntriesOf, ValueOf

(* What the operations of a thread do to the tables.                        *)
LEMMA OperationWrites ==
  ASSUME TypeOK, OneEntryPerKey, NEW t \in Threads, Always
  PROVE  /\ Insert(t) => /\ call[t].key \in Keys /\ call[t].value \in Values
                         /\ Writes(call[t].key, {[key |-> call[t].key, value |-> call[t].value]})
         /\ Remove(t) => call[t].key \in Keys /\ Writes(call[t].key, {})
         /\ Apply(t) => \/ UNCHANGED tables
                        \/ \E v \in Values : Writes(mut[t], {[key |-> mut[t], value |-> v]})
<1>1. call[t] # None => call[t] \in Requests
  BY DEF TypeOK
<1>2. UNCHANGED built
  BY DEF Always
<1>3. ASSUME Insert(t)
      PROVE  /\ call[t].key \in Keys /\ call[t].value \in Values
             /\ Writes(call[t].key, {[key |-> call[t].key, value |-> call[t].value]})
  <2>1. call[t] \in Requests /\ call[t].op = "insert"
    BY <1>1, <1>3 DEF Insert, Locks
  <2>2. call[t].key \in Keys /\ call[t].value \in Values
    BY <2>1, RequestFields
  <2>3. ShardOf(call[t].key) \in Shards
    BY <2>2, ShardIsOne DEF TypeOK, N
  <2> QED BY <1>2, <1>3, <2>2, <2>3 DEF Insert, Store, Writes, TypeOK
<1>4. ASSUME Remove(t)
      PROVE  call[t].key \in Keys /\ Writes(call[t].key, {})
  <2>1. call[t] \in Requests /\ call[t].op = "remove"
    BY <1>1, <1>4 DEF Remove, Locks
  <2>2. call[t].key \in Keys
    BY <2>1, RequestFields
  <2> QED BY <1>2, <1>4, <2>2 DEF Remove, Store, Writes
<1>5. ASSUME Apply(t)
      PROVE  \/ UNCHANGED tables
             \/ \E v \in Values : Writes(mut[t], {[key |-> mut[t], value |-> v]})
  BY <1>2, <1>5 DEF Apply, Store, Writes
<1> QED BY <1>3, <1>4, <1>5

(* A step keeps the tables' types and the one entry of each key.            *)
LEMMA TablesStep ==
  ASSUME TypeOK, OneEntryPerKey, [Next]_vars
  PROVE  tables' \in [Shards -> SUBSET Entry] /\ OneEntryPerKey'
<1>1. CASE UNCHANGED <<built, tables>>
  BY <1>1 DEF TypeOK, OneEntryPerKey, Shards, ShardOf, N
<1>2. ASSUME NEW k \in Keys, NEW new \in EntriesOf(k), Writes(k, new)
      PROVE  tables' \in [Shards -> SUBSET Entry] /\ OneEntryPerKey'
  BY <1>2, WriteEffect
<1>3. \A k \in Keys : {} \in EntriesOf(k) /\ \A v \in Values : {[key |-> k, value |-> v]} \in EntriesOf(k)
  BY DEF EntriesOf, Entry
<1>4. ASSUME NEW t \in Threads, Always, Insert(t) \/ Remove(t) \/ Apply(t)
      PROVE  tables' \in [Shards -> SUBSET Entry] /\ OneEntryPerKey'
  <2>1. Apply(t) => mut[t] \in Keys /\ UNCHANGED built
    BY <1>4 DEF Apply, TypeOK, Always
  <2> QED BY <1>1, <1>2, <1>3, <1>4, <2>1, OperationWrites
<1>5. ASSUME NEW t \in Threads, Always,
             \/ \E r \in Requests : Request(t, r)
             \/ Get(t) \/ GetMut(t) \/ Len(t) \/ Abandon(t)
      PROVE  UNCHANGED <<built, tables>>
  BY <1>5 DEF Always, Request, Get, GetMut, Len, Abandon
<1> QED BY <1>1, <1>4, <1>5 DEF Next, Operate, vars

KeysIn(s) == {k \in Present : ShardOf(k) = s}

(* A table is as long as the number of keys in it.                          *)
LEMMA TableSize ==
  ASSUME IsFiniteSet(Keys), TypeOK, OneEntryPerKey, NEW s \in Shards
  PROVE  /\ IsFiniteSet(KeysIn(s))
         /\ Cardinality(tables[s]) = Cardinality(KeysIn(s))
         /\ Cardinality(tables[s]) \in Nat
<1>1. IsFiniteSet(KeysIn(s))
  <2>1. KeysIn(s) \subseteq Keys
    BY PresentKeys DEF KeysIn
  <2> QED BY <2>1, FS_Subset
<1> DEFINE f == [e \in tables[s] |-> e.key]
<1>2. \A e \in tables[s] : e \in Entry /\ e.key \in KeysIn(s)
  BY DEF TypeOK, KeysIn, Present, OneEntryPerKey
<1>3. f \in Injection(tables[s], KeysIn(s))
  BY <1>2 DEF OneEntryPerKey, Injection, IsInjective
<1>4. f \in Surjection(tables[s], KeysIn(s))
  <2>1. ASSUME NEW k \in KeysIn(s)
        PROVE  \E e \in tables[s] : e.key = k
    <3>1. PICK r \in Shards : \E e \in tables[r] : e.key = k
      BY <2>1 DEF KeysIn, Present
    <3>2. r = s
      BY <2>1, <3>1 DEF KeysIn, OneEntryPerKey
    <3> QED BY <3>1, <3>2
  <2> QED BY <1>2, <2>1 DEF Surjection
<1>5. Cardinality(tables[s]) = Cardinality(KeysIn(s))
  <2> HIDE DEF f
  <2> QED BY <1>1, <1>3, <1>4, FS_Injection
<1> QED BY <1>1, <1>5, FS_CardinalityType

(* The answer of a call, and the return of a GetMut, are of the right types. *)
LEMMA AnswerType ==
  ASSUME TypeOK, OneEntryPerKey, NEW t \in Threads
  PROVE  /\ Insert(t) \/ Get(t) \/ Remove(t)
                => \E v \in Values \cup {None} : Return(t, v) /\ UNCHANGED <<mut, scan>>
         /\ GetMut(t) => call[t].key \in Keys
<1>1. call[t] # None => call[t] \in Requests
  BY DEF TypeOK
<1>2. ASSUME Insert(t) \/ Get(t) \/ Remove(t)
      PROVE  \E v \in Values \cup {None} : Return(t, v) /\ UNCHANGED <<mut, scan>>
  <2>1. call[t] \in Requests /\ call[t].op \in {"insert", "get", "remove"}
    BY <1>1, <1>2 DEF Insert, Get, Remove, Locks
  <2>2. call[t].key \in Keys
    BY <2>1, RequestFields
  <2>3. Return(t, ValueOf(call[t].key)) /\ UNCHANGED <<mut, scan>>
    BY <1>2 DEF Insert, Get, Remove
  <2> QED BY <2>2, <2>3, FoundEntry
<1>3. ASSUME GetMut(t)
      PROVE  call[t].key \in Keys
  <2>1. call[t] \in Requests /\ call[t].op = "get_mut"
    BY <1>1, <1>3 DEF GetMut, Locks
  <2> QED BY <2>1, RequestFields
<1> QED BY <1>2, <1>3

(* A step of len keeps the types.                                            *)
LEMMA LenTypes ==
  ASSUME IsFiniteSet(Keys), TypeOK, OneEntryPerKey, NEW t \in Threads, Len(t)
  PROVE  /\ call' \in [Threads -> Requests \cup {None}]
         /\ ret' \in [Threads -> Values \cup {None} \cup Nat]
         /\ mut' \in [Threads -> Keys \cup {None}]
         /\ scan' \in [Threads -> [next : Shards, sum : Nat]]
         /\ \A u \in Threads : /\ IsLen(u)' => IsLen(u) \/ call[u] = None
                               /\ ~IsLen(u)' => scan'[u] = NoScan
<1>0. None # [op |-> "len"]
  <2>1. [op |-> "len"] \in Requests
    BY DEF Requests
  <2> QED BY <2>1
<1> DEFINE total == scan[t].sum + Cardinality(tables[scan[t].next])
<1>1. total \in Nat /\ 0 \in Shards
  <2>1. scan[t].next \in Shards /\ scan[t].sum \in Nat /\ N \in Nat \ {0}
    BY DEF TypeOK, N
  <2>2. Cardinality(tables[scan[t].next]) \in Nat
    BY <2>1, TableSize
  <2> QED BY <2>1, <2>2 DEF Shards
<1>2. IsLen(t) /\ mut' \in [Threads -> Keys \cup {None}]
  BY DEF Len, IsLen, TypeOK
<1>3. \/ /\ scan[t].next + 1 \in Shards
         /\ scan' = [scan EXCEPT ![t] = [next |-> @.next + 1, sum |-> total]]
         /\ UNCHANGED <<call, ret>>
      \/ scan' = [scan EXCEPT ![t] = NoScan] /\ Return(t, total)
  BY DEF Len
<1> HIDE DEF total
<1>4. scan' \in [Threads -> [next : Shards, sum : Nat]]
  <2>1. scan[t].next + 1 \in Shards => [next |-> scan[t].next + 1, sum |-> total] \in [next : Shards, sum : Nat]
    BY <1>1
  <2>2. NoScan \in [next : Shards, sum : Nat]
    BY <1>1 DEF NoScan
  <2> QED BY <1>3, <2>1, <2>2 DEF TypeOK
<1>5. call' \in [Threads -> Requests \cup {None}]
  BY <1>3 DEF TypeOK, Return
<1>6. ret' \in [Threads -> Values \cup {None} \cup Nat]
  BY <1>1, <1>3 DEF TypeOK, Return
<1>7. \A u \in Threads : /\ IsLen(u)' => IsLen(u) \/ call[u] = None
                         /\ ~IsLen(u)' => scan'[u] = NoScan
  BY <1>0, <1>2, <1>3 DEF TypeOK, IsLen, Return
<1> QED BY <1>2, <1>4, <1>5, <1>6, <1>7

(* So does every step.                                                       *)
LEMMA TypesKept ==
  ASSUME IsFiniteSet(Keys), TypeOK, OneEntryPerKey, [Next]_vars
  PROVE  TypeOK'
<1>0. tables' \in [Shards -> SUBSET Entry] /\ None # [op |-> "len"]
  <2>1. [op |-> "len"] \in Requests
    BY DEF Requests
  <2> QED BY <2>1, TablesStep
<1>1. ASSUME NEW t \in Threads, NEW r \in Requests, Request(t, r), Always
      PROVE  TypeOK'
  <2>1. /\ call' \in [Threads -> Requests \cup {None}]
        /\ ret' \in [Threads -> Values \cup {None} \cup Nat]
    BY <1>1 DEF Request, TypeOK
  <2>2. /\ mut' \in [Threads -> Keys \cup {None}]
        /\ scan' \in [Threads -> [next : Shards, sum : Nat]]
        /\ \A u \in Threads : /\ IsLen(u)' => IsLen(u) \/ call[u] = None
                              /\ ~IsLen(u)' => scan'[u] = NoScan
    BY <1>0, <1>1 DEF Request, TypeOK, IsLen
  <2> QED BY <1>0, <1>1, <2>1, <2>2, TypeStep
<1>2. ASSUME NEW t \in Threads, Insert(t) \/ Get(t) \/ Remove(t), Always
      PROVE  TypeOK'
  <2>1. PICK v \in Values \cup {None} : Return(t, v) /\ UNCHANGED <<mut, scan>>
    BY <1>2, AnswerType
  <2>2. call[t] # [op |-> "len"]
    BY <1>2 DEF Insert, Get, Remove, Locks
  <2>3. /\ call' \in [Threads -> Requests \cup {None}]
        /\ ret' \in [Threads -> Values \cup {None} \cup Nat]
    BY <2>1 DEF Return, TypeOK
  <2>4. /\ mut' \in [Threads -> Keys \cup {None}]
        /\ scan' \in [Threads -> [next : Shards, sum : Nat]]
        /\ \A u \in Threads : /\ IsLen(u)' => IsLen(u) \/ call[u] = None
                              /\ ~IsLen(u)' => scan'[u] = NoScan
    BY <1>0, <2>1, <2>2 DEF Return, TypeOK, IsLen
  <2> QED BY <1>0, <1>2, <2>3, <2>4, TypeStep
<1>3. ASSUME NEW t \in Threads, GetMut(t), Always
      PROVE  TypeOK'
  <2>0. call[t].key \in Keys
    BY <1>3, AnswerType
  <2>1. call[t] # [op |-> "len"]
    BY <1>3 DEF GetMut, Locks
  <2>2. /\ call' \in [Threads -> Requests \cup {None}]
        /\ ret' \in [Threads -> Values \cup {None} \cup Nat]
        /\ mut' \in [Threads -> Keys \cup {None}]
    BY <1>3, <2>0 DEF GetMut, Return, TypeOK
  <2>3. /\ scan' \in [Threads -> [next : Shards, sum : Nat]]
        /\ \A u \in Threads : /\ IsLen(u)' => IsLen(u) \/ call[u] = None
                              /\ ~IsLen(u)' => scan'[u] = NoScan
    BY <1>0, <1>3, <2>1 DEF GetMut, Return, TypeOK, IsLen
  <2> QED BY <1>0, <1>3, <2>2, <2>3, TypeStep
<1>4. ASSUME NEW t \in Threads, Len(t), Always
      PROVE  TypeOK'
  BY <1>0, <1>4, LenTypes, TypeStep
<1>5. ASSUME NEW t \in Threads, Apply(t) \/ Abandon(t), Always
      PROVE  TypeOK'
  <2>0. ret' \in [Threads -> Values \cup {None} \cup Nat]
    <3>1. ret' = ret \/ \E n \in {0, 1} : ret' = [ret EXCEPT ![t] = n]
      BY <1>5 DEF Apply, Abandon
    <3> QED BY <3>1 DEF TypeOK
  <2>1. /\ call' \in [Threads -> Requests \cup {None}]
        /\ mut' \in [Threads -> Keys \cup {None}]
    BY <1>5 DEF Apply, Abandon, DropGuard, TypeOK
  <2>2. /\ scan' \in [Threads -> [next : Shards, sum : Nat]]
        /\ \A u \in Threads : /\ IsLen(u)' => IsLen(u) \/ call[u] = None
                              /\ ~IsLen(u)' => scan'[u] = NoScan
    BY <1>5 DEF Apply, Abandon, TypeOK, IsLen
  <2> QED BY <1>0, <1>5, <2>0, <2>1, <2>2, TypeStep
<1>6. CASE UNCHANGED vars
  BY <1>6 DEF vars, TypeOK, Shards, N
<1> QED BY <1>1, <1>2, <1>3, <1>4, <1>5, <1>6 DEF Next, Operate

(* Two threads never have write locks of the same shard.                    *)
LEMMA GuardsKept ==
  ASSUME TypeOK, OneEntryPerKey, GuardsExclude, [Next]_vars
  PROVE  GuardsExclude'
<1>1. ASSUME NEW t \in Threads, GetMut(t), Always
      PROVE  GuardsExclude'
  <2>1. \A j : ShardOf(j)' = ShardOf(j)
    BY <1>1 DEF Always, ShardOf, N
  <2>2. /\ mut' = [mut EXCEPT ![t] = call[t].key]
        /\ \A u \in Threads : mut[u] # None => ShardOf(mut[u]) # ShardOf(call[t].key)
    BY <1>1 DEF GetMut, Locks, Unlocked
  <2>3. \A u \in Threads : mut'[u] = IF u = t THEN call[t].key ELSE mut[u]
    BY <2>2 DEF TypeOK
  <2> QED BY <2>1, <2>2, <2>3 DEF GuardsExclude
<1>2. ASSUME NEW t \in Threads, Apply(t) \/ Abandon(t), Always
      PROVE  GuardsExclude'
  BY <1>2 DEF Apply, Abandon, DropGuard, Always, ShardOf, N, TypeOK, GuardsExclude
<1>3. ASSUME NEW t \in Threads, Always,
             \/ \E r \in Requests : Request(t, r)
             \/ Insert(t) \/ Get(t) \/ Remove(t) \/ Len(t)
      PROVE  GuardsExclude'
  <2>1. UNCHANGED <<built, mut>>
    BY <1>3 DEF Always, Request, Insert, Get, Remove, Len
  <2> QED BY <2>1 DEF GuardsExclude, ShardOf, N
<1>4. CASE UNCHANGED vars
  BY <1>4 DEF vars, GuardsExclude, ShardOf, N
<1> QED BY <1>1, <1>2, <1>3, <1>4 DEF Next, Operate

(* A map that has just been built.                                           *)
LEMMA MapInit == Init => MapInv
<1> SUFFICES ASSUME Init
             PROVE  MapInv
  OBVIOUS
<1>1. /\ built \in [by : MapBuilders, shards : Nat \ {0}]
      /\ 0 \in Shards
  BY SomeShards DEF Init, Shards, N
<1>2. [op |-> "len"] # None
  BY DEF Requests
<1>3. TypeOK
  BY <1>1, <1>2 DEF Init, TypeOK, NoScan
<1>4. OneEntryPerKey /\ GuardsExclude
  BY DEF Init, OneEntryPerKey, GuardsExclude
<1> QED BY <1>3, <1>4 DEF MapInv

(* The invariant holds whatever the threads do.                              *)
LEMMA MapInvariant ==
  ASSUME IsFiniteSet(Keys)
  PROVE  Spec => []MapInv
<1>1. MapInv /\ [Next]_vars => MapInv'
  BY TypesKept, TablesStep, GuardsKept DEF MapInv
<1> QED BY <1>1, MapInit, PTL DEF Spec

(* The variables have their types, and with them no index of a shard is     *)
(* outside the array that MapBuilder::build made.                           *)
THEOREM MapTypeCorrect ==
  ASSUME IsFiniteSet(Keys)
  PROVE  Spec => []TypeOK
<1>1. MapInv => TypeOK
  BY DEF MapInv
<1> QED BY <1>1, MapInvariant, PTL

(* map.rs:148, for any number of shards: a key has one entry, in the shard  *)
(* of its hash.                                                             *)
THEOREM EntriesAreUnique ==
  ASSUME IsFiniteSet(Keys)
  PROVE  Spec => []OneEntryPerKey
<1>1. MapInv => OneEntryPerKey
  BY DEF MapInv
<1> QED BY <1>1, MapInvariant, PTL

-------------------------------------------------------------------------------
(* The shards are one map                                                    *)

Contents == [k \in Keys |-> ValueOf(k)]

(* What the map has depends on its tables alone.                             *)
LEMMA SameContents == UNCHANGED <<built, tables>> => Contents' = Contents
  BY DEF Contents, ValueOf, Find, ShardOf, N

(* A write changes what the map has of one key.                             *)
LEMMA WriteContents ==
  ASSUME TypeOK, OneEntryPerKey, NEW k \in Keys
  PROVE  /\ Writes(k, {}) => Contents' = [Contents EXCEPT ![k] = None]
         /\ \A v \in Values : Writes(k, {[key |-> k, value |-> v]})
                              => Contents' = [Contents EXCEPT ![k] = v]
<1>1. ASSUME NEW new \in EntriesOf(k), Writes(k, new)
      PROVE  Contents' = [Contents EXCEPT ![k] =
                            IF new = {} THEN None ELSE (CHOOSE e \in new : TRUE).value]
  <2>1. Find(k)' = new /\ \A j \in Keys \ {k} : Find(j)' = Find(j)
    BY <1>1, WriteEffect
  <2>2. ValueOf(k)' = IF new = {} THEN None ELSE (CHOOSE e \in new : TRUE).value
    BY <2>1 DEF ValueOf
  <2>3. ASSUME NEW j \in Keys \ {k}
        PROVE  ValueOf(j)' = ValueOf(j)
    <3>1. Find(j)' = Find(j)
      BY <2>1
    <3> QED BY <3>1 DEF ValueOf
  <2> QED BY <2>2, <2>3 DEF Contents
<1>2. {} \in EntriesOf(k)
  BY DEF EntriesOf
<1>3. ASSUME NEW v \in Values
      PROVE  /\ {[key |-> k, value |-> v]} \in EntriesOf(k)
             /\ (CHOOSE e \in {[key |-> k, value |-> v]} : TRUE).value = v
  <2>1. {[key |-> k, value |-> v]} \in EntriesOf(k)
    BY DEF EntriesOf, Entry
  <2> DEFINE e == CHOOSE x \in {[key |-> k, value |-> v]} : TRUE
  <2>2. e = [key |-> k, value |-> v]
    OBVIOUS
  <2> QED BY <2>1, <2>2
<1> QED BY <1>1, <1>2, <1>3

(* Every step is one of the atomic map, or none of its.                      *)
LEMMA MapStep ==
  ASSUME MapInv, [Next]_vars
  PROVE  [Atomic!MapNext]_<<Contents, call, ret, mut>>
<1> USE DEF MapInv
<1>0. \A t \in Threads : call[t] # None => call[t] \in Requests
  BY DEF TypeOK
<1>1. ASSUME NEW t \in Threads, NEW r \in Requests, Request(t, r), Always
      PROVE  Atomic!Request(t)
  <2>1. Contents' = Contents
    BY <1>1, SameContents DEF Request, Always
  <2>2. call'[t] = r /\ r # None
    BY <1>1 DEF Request, TypeOK
  <2> QED BY <1>1, <2>1, <2>2 DEF Request, Atomic!Request, Contents
<1>2. ASSUME NEW t \in Threads, Get(t), Always
      PROVE  Atomic!Lookup(t)
  <2>1. call[t] \in Requests /\ call[t].op = "get"
    BY <1>0, <1>2 DEF Get, Locks
  <2>2. call[t].key \in Keys
    BY <2>1, RequestFields
  <2>3. Contents' = Contents
    BY <1>2, SameContents DEF Get, Always
  <2> QED
    BY <1>2, <2>2, <2>3 DEF Get, Locks, Return, Atomic!Lookup, Atomic!Answer, Contents
<1>3. ASSUME NEW t \in Threads, Locks(t, "insert") \/ Locks(t, "remove"), call[t].key \in Keys
      PROVE  \A u \in Threads \ {t} : mut[u] # call[t].key
  BY <1>3 DEF Locks, Unlocked
<1>4. ASSUME NEW t \in Threads, Insert(t), Always
      PROVE  Atomic!Put(t)
  <2>1. /\ call[t].key \in Keys /\ call[t].value \in Values
        /\ Writes(call[t].key, {[key |-> call[t].key, value |-> call[t].value]})
    BY <1>4, OperationWrites
  <2>2. Contents' = [Contents EXCEPT ![call[t].key] = call[t].value]
    BY <2>1, WriteContents
  <2>3. Locks(t, "insert") /\ Return(t, ValueOf(call[t].key)) /\ UNCHANGED mut
    BY <1>4 DEF Insert
  <2>4. Atomic!Write(t, call[t].key, call[t].value)
    BY <1>3, <2>1, <2>2, <2>3 DEF Atomic!Write, Contents
  <2>5. Atomic!Answer(t, "insert", Contents[call[t].key])
    BY <2>1, <2>3 DEF Locks, Return, Atomic!Answer, Contents
  <2> QED BY <2>3, <2>4, <2>5 DEF Atomic!Put, Contents
<1>5. ASSUME NEW t \in Threads, Remove(t), Always
      PROVE  Atomic!Take(t)
  <2>1. call[t].key \in Keys /\ Writes(call[t].key, {})
    BY <1>5, OperationWrites
  <2>2. Contents' = [Contents EXCEPT ![call[t].key] = None]
    BY <2>1, WriteContents
  <2>3. Locks(t, "remove") /\ Return(t, ValueOf(call[t].key)) /\ UNCHANGED mut
    BY <1>5 DEF Remove
  <2>4. Atomic!Write(t, call[t].key, None)
    BY <1>3, <2>1, <2>2, <2>3 DEF Atomic!Write, Contents
  <2>5. Atomic!Answer(t, "remove", Contents[call[t].key])
    BY <2>1, <2>3 DEF Locks, Return, Atomic!Answer, Contents
  <2> QED BY <2>3, <2>4, <2>5 DEF Atomic!Take, Contents
<1>6. ASSUME NEW t \in Threads, GetMut(t), Always
      PROVE  Atomic!Borrow(t)
  <2>1. call[t].key \in Keys
    BY <1>6, AnswerType
  <2>2. \A u \in Threads : mut[u] # call[t].key
    BY <1>6, <2>1 DEF GetMut, Locks, Unlocked
  <2>3. Contents' = Contents
    BY <1>6, SameContents DEF GetMut, Always
  <2> QED
    BY <1>6, <2>2, <2>3 DEF GetMut, Locks, Return, Atomic!Borrow, Atomic!Answer, Contents
<1>7. ASSUME NEW t \in Threads, Len(t), Always
      PROVE  Atomic!Count(t) \/ UNCHANGED <<Contents, call, ret, mut>>
  <2>1. Contents' = Contents /\ UNCHANGED mut
    BY <1>7, SameContents DEF Len, Always
  <2>2. CASE UNCHANGED <<call, ret>>
    BY <2>1, <2>2
  <2>3. ASSUME NEW sum, Return(t, sum)
        PROVE  Atomic!Count(t)
    <3>1. ret'[t] = sum
      BY <2>3 DEF Return, TypeOK
    <3>2. call[t] # None /\ call[t].op = "len"
      <4>1. [op |-> "len"] \in Requests
        BY DEF Requests
      <4> QED BY <1>7, <4>1 DEF Len
    <3> QED BY <2>1, <2>3, <3>1, <3>2 DEF Return, Atomic!Count, Atomic!Answer, Contents
  <2> QED BY <1>7, <2>2, <2>3 DEF Len
<1>8. ASSUME NEW t \in Threads, Apply(t), Always
      PROVE  Atomic!Release(t)
  <2>1. mut[t] \in Keys /\ mut' = [mut EXCEPT ![t] = None] /\ UNCHANGED <<call, built>>
    BY <1>8 DEF Apply, DropGuard, Always, TypeOK
  <2>2. Find(mut[t]) = {} <=> Contents[mut[t]] = None
    BY <2>1, FoundEntry DEF Contents
  <2>3. CASE Find(mut[t]) # {}
    <3>1. PICK v \in Values : Writes(mut[t], {[key |-> mut[t], value |-> v]})
      BY <1>8, <2>1, <2>3 DEF Apply, Store, Writes
    <3>2. Contents' = [Contents EXCEPT ![mut[t]] = v]
      BY <2>1, <3>1, WriteContents
    <3>3. \A u \in Threads \ {t} : mut[u] # mut[t]
      BY <2>1 DEF GuardsExclude
    <3>4. ret' = [ret EXCEPT ![t] = 1]
      BY <1>8, <2>3 DEF Apply
    <3> QED
      BY <2>1, <2>2, <2>3, <3>2, <3>3, <3>4 DEF Atomic!Release, Atomic!Write, Contents
  <2>4. CASE Find(mut[t]) = {}
    <3>1. ret' = [ret EXCEPT ![t] = 0] /\ Contents' = Contents
      BY <1>8, <2>1, <2>4, SameContents DEF Apply
    <3> QED BY <2>1, <2>2, <2>4, <3>1 DEF Atomic!Release, Contents
  <2> QED BY <2>3, <2>4
<1>9. ASSUME NEW t \in Threads, Abandon(t), Always
      PROVE  Atomic!Release(t)
  <2>1. Contents' = Contents
    BY <1>9, SameContents DEF Abandon, Always
  <2> QED BY <1>9, <2>1 DEF Abandon, DropGuard, Atomic!Release, Contents
<1>10. CASE UNCHANGED vars
  BY <1>10, SameContents DEF vars
<1> QED
  BY <1>1, <1>2, <1>4, <1>5, <1>6, <1>7, <1>8, <1>9, <1>10
  DEF Next, Operate, Atomic!MapNext, Contents

(* map.rs:12.  However the keys are spread over shards, the map is a single *)
(* one: every insert, get and remove takes effect at one instant, and       *)
(* nobody writes a key while another thread has its GetMut.                 *)
THEOREM MapIsAtomic ==
  ASSUME IsFiniteSet(Keys)
  PROVE  Spec => ImplementsAtomicMap
<1>1. Init => Atomic!MapInit
  <2> SUFFICES ASSUME Init
               PROVE  Atomic!MapInit
    OBVIOUS
  <2>1. ASSUME NEW k \in Keys
        PROVE  ValueOf(k) = None
    <3>1. ShardOf(k) \in Shards
      BY MapInit, ShardIsOne DEF MapInv, TypeOK, N
    <3> QED BY <3>1 DEF Init, ValueOf, Find
  <2> QED BY <2>1 DEF Init, Atomic!MapInit
<1>2. MapInv /\ [Next]_vars
        => [Atomic!MapNext]_<<[k \in Keys |-> ValueOf(k)], call, ret, mut>>
  BY MapStep DEF Contents
<1> QED
  BY <1>1, <1>2, MapInvariant, PTL DEF Spec, ImplementsAtomicMap, Atomic!MapSpec

-------------------------------------------------------------------------------
(* len                                                                       *)

(* The keys of S in the shards before the nth, and in the nth.              *)
Below(S, n) == {k \in S : ShardOf(k) < n}

At(S, n) == {k \in S : ShardOf(k) = n}

(* What a len has counted in the shards it has seen.                        *)
ScanInv ==
  \A t \in Threads : IsLen(t) =>
    /\ span[t].always \subseteq Present
    /\ Present \subseteq span[t].ever
    /\ Cardinality(Below(span[t].always, scan[t].next)) <= scan[t].sum
    /\ scan[t].sum <= Cardinality(Below(span[t].ever, scan[t].next))

(* The keys of the shards below the next one, and those of that shard.       *)
LEMMA BelowNext ==
  ASSUME IsFiniteSet(Keys), TypeOK, NEW S \in SUBSET Keys, NEW n \in Nat
  PROVE  /\ IsFiniteSet(S)
         /\ Cardinality(At(S, n)) \in Nat
         /\ Cardinality(Below(S, n)) \in Nat
         /\ Cardinality(Below(S, n + 1)) = Cardinality(Below(S, n)) + Cardinality(At(S, n))
<1>1. \A k \in S : ShardOf(k) \in Nat
  BY ShardIsOne DEF TypeOK, Shards, N
<1>2. IsFiniteSet(S)
  BY FS_Subset
<1>3. IsFiniteSet(Below(S, n)) /\ IsFiniteSet(At(S, n))
  <2>1. Below(S, n) \subseteq S /\ At(S, n) \subseteq S
    BY DEF Below, At
  <2> QED BY <1>2, <2>1, FS_Subset
<1>4. Below(S, n + 1) = Below(S, n) \cup At(S, n) /\ Below(S, n) \cap At(S, n) = {}
  BY <1>1 DEF Below, At
<1>5. /\ Cardinality(Below(S, n)) \in Nat /\ Cardinality(At(S, n)) \in Nat
      /\ Cardinality({}) = 0
  BY <1>3, FS_CardinalityType, FS_EmptySet
<1>6. Cardinality(Below(S, n) \cup At(S, n))
        = Cardinality(Below(S, n)) + Cardinality(At(S, n)) - Cardinality(Below(S, n) \cap At(S, n))
  BY <1>3, FS_Union
<1>7. Cardinality(Below(S, n) \cup At(S, n)) = Cardinality(Below(S, n)) + Cardinality(At(S, n))
  <2> DEFINE both == Cardinality(Below(S, n) \cap At(S, n))
  <2>1. both = 0
    BY <1>4, <1>5
  <2> HIDE DEF both
  <2> QED BY <1>5, <1>6, <2>1 DEF both
<1> QED BY <1>2, <1>4, <1>5, <1>7

(* The next shard's length, read at one instant, is at least what it has of *)
(* the keys that were always there and at most what it has of the others.   *)
LEMMA LenAdds ==
  ASSUME IsFiniteSet(Keys), MapInv, ScanInv, NEW t \in Threads, IsLen(t)
  PROVE  LET n == scan[t].next
             total == scan[t].sum + Cardinality(tables[n])
         IN  /\ Cardinality(Below(span[t].always, n + 1)) <= total
             /\ total <= Cardinality(Below(span[t].ever, n + 1))
<1> DEFINE n == scan[t].next
           low == span[t].always
           high == span[t].ever
<1>1. /\ n \in Nat /\ n \in Shards /\ scan[t].sum \in Nat
      /\ low \in SUBSET Keys /\ high \in SUBSET Keys
  BY DEF MapInv, TypeOK, IsLen, Shards, N
<1>2. /\ low \subseteq Present /\ Present \subseteq high
      /\ Cardinality(Below(low, n)) <= scan[t].sum
      /\ scan[t].sum <= Cardinality(Below(high, n))
  BY DEF ScanInv
<1> HIDE DEF n, low, high
<1>3. /\ IsFiniteSet(KeysIn(n))
      /\ Cardinality(tables[n]) = Cardinality(KeysIn(n))
      /\ Cardinality(tables[n]) \in Nat
  BY <1>1, TableSize DEF MapInv
<1>4. At(low, n) \subseteq KeysIn(n) /\ KeysIn(n) \subseteq At(high, n)
  BY <1>2 DEF At, KeysIn
<1>5. IsFiniteSet(At(high, n))
  <2>1. At(high, n) \subseteq Keys
    BY <1>1 DEF At
  <2> QED BY <2>1, FS_Subset
<1>6. /\ Cardinality(At(low, n)) <= Cardinality(KeysIn(n))
      /\ Cardinality(KeysIn(n)) <= Cardinality(At(high, n))
  BY <1>3, <1>4, <1>5, FS_Subset
<1>7. /\ Cardinality(At(low, n)) \in Nat /\ Cardinality(Below(low, n)) \in Nat
      /\ Cardinality(Below(low, n + 1)) = Cardinality(Below(low, n)) + Cardinality(At(low, n))
  BY <1>1, BelowNext DEF MapInv
<1>8. /\ Cardinality(At(high, n)) \in Nat /\ Cardinality(Below(high, n)) \in Nat
      /\ Cardinality(Below(high, n + 1)) = Cardinality(Below(high, n)) + Cardinality(At(high, n))
  BY <1>1, BelowNext DEF MapInv
<1>9. /\ Cardinality(Below(low, n + 1)) <= scan[t].sum + Cardinality(tables[n])
      /\ scan[t].sum + Cardinality(tables[n]) <= Cardinality(Below(high, n + 1))
  BY <1>1, <1>2, <1>3, <1>6, <1>7, <1>8
<1> QED BY <1>9 DEF n, low, high

(* When t is the one that goes on with its len, or no len of t goes on.     *)
LEMMA LenGoesOn ==
  ASSUME TypeOK, [Next]_vars, NEW t \in Threads
  PROVE  \/ UNCHANGED scan[t] /\ (IsLen(t)' => IsLen(t) \/ call[t] = None)
               /\ (IsLen(t) => IsLen(t)')
         \/ Len(t) /\ Always
<1>0. None # [op |-> "len"]
  <2>1. [op |-> "len"] \in Requests
    BY DEF Requests
  <2> QED BY <2>1
<1>1. ASSUME NEW u \in Threads, NEW r \in Requests, Request(u, r)
      PROVE  /\ UNCHANGED scan[t]
             /\ IsLen(t)' => IsLen(t) \/ call[t] = None
             /\ IsLen(t) => IsLen(t)'
  BY <1>0, <1>1 DEF Request, TypeOK, IsLen
<1>2. ASSUME NEW u \in Threads,
             Insert(u) \/ Get(u) \/ Remove(u) \/ GetMut(u) \/ Apply(u) \/ Abandon(u)
      PROVE  /\ UNCHANGED scan[t]
             /\ IsLen(t)' => IsLen(t) \/ call[t] = None
             /\ IsLen(t) => IsLen(t)'
  <2>1. CASE Apply(u) \/ Abandon(u)
    BY <2>1 DEF Apply, Abandon, IsLen
  <2>2. CASE Insert(u) \/ Get(u) \/ Remove(u) \/ GetMut(u)
    <3>1. /\ UNCHANGED scan
          /\ call' = [call EXCEPT ![u] = None]
      BY <2>2 DEF Insert, Get, Remove, GetMut, Return
    <3>2. ~IsLen(u)
      BY <2>2 DEF Insert, Get, Remove, GetMut, Locks, IsLen
    <3> QED BY <1>0, <3>1, <3>2 DEF TypeOK, IsLen
  <2> QED BY <1>2, <2>1, <2>2
<1>3. ASSUME NEW u \in Threads \ {t}, Len(u)
      PROVE  /\ UNCHANGED scan[t]
             /\ IsLen(t)' => IsLen(t) \/ call[t] = None
             /\ IsLen(t) => IsLen(t)'
  BY <1>3 DEF Len, Return, TypeOK, IsLen
<1>4. CASE UNCHANGED vars
  BY <1>4 DEF vars, IsLen
<1> QED BY <1>1, <1>2, <1>3, <1>4 DEF Next, Operate

(* A len begins with the map as it is.                                      *)
LEMMA LenBegins ==
  ASSUME TypeOK, Next, NEW t \in Threads, IsLen(t)', call[t] = None
  PROVE  UNCHANGED <<built, tables>> /\ scan'[t] = NoScan
<1>0. None # [op |-> "len"]
  <2>1. [op |-> "len"] \in Requests
    BY DEF Requests
  <2> QED BY <2>1
<1>1. scan'[t] = NoScan
  <2>1. ~Len(t)
    BY <1>0 DEF Len
  <2>2. UNCHANGED scan[t]
    BY <2>1, LenGoesOn
  <2>3. scan[t] = NoScan
    BY <1>0 DEF TypeOK
  <2> QED BY <2>2, <2>3
<1>2. ASSUME NEW u \in Threads, Insert(u) \/ Remove(u) \/ Apply(u)
      PROVE  FALSE
  <2>1. UNCHANGED call \/ call' = [call EXCEPT ![u] = None]
    BY <1>2 DEF Insert, Remove, Apply, Return
  <2> QED BY <1>0, <2>1 DEF TypeOK, IsLen
<1>3. ASSUME NEW u \in Threads, \/ \E r \in Requests : Request(u, r)
                                \/ Get(u) \/ GetMut(u) \/ Len(u) \/ Abandon(u)
      PROVE  UNCHANGED tables
  BY <1>3 DEF Request, Get, GetMut, Len, Abandon
<1> QED BY <1>1, <1>2, <1>3 DEF Next, Operate, Always

(* More keys are no fewer in the shards below.                               *)
LEMMA BelowGrows ==
  ASSUME IsFiniteSet(Keys), NEW S \in SUBSET Keys, NEW T \in SUBSET Keys, S \subseteq T, NEW n
  PROVE  /\ Cardinality(Below(S, n)) <= Cardinality(Below(T, n))
         /\ Cardinality(Below(S, n)) \in Nat
<1>1. Below(T, n) \subseteq Keys /\ Below(S, n) \subseteq Below(T, n) /\ Below(S, n) \subseteq Keys
  BY DEF Below
<1>2. IsFiniteSet(Below(T, n)) /\ IsFiniteSet(Below(S, n))
  BY <1>1, FS_Subset
<1> QED BY <1>1, <1>2, FS_Subset, FS_CardinalityType

(* A step keeps the bounds of the sums, the writes of other threads included. *)
LEMMA ScanStep ==
  ASSUME IsFiniteSet(Keys), MapInv, ScanInv, [Next]_vars
  PROVE  ScanInv'
<1>0. UNCHANGED built
  BY DEF Next, Always, vars
<1> SUFFICES ASSUME NEW t \in Threads, IsLen(t)'
             PROVE  /\ span'[t].always \subseteq Present'
                    /\ Present' \subseteq span'[t].ever
                    /\ Cardinality(Below(span'[t].always, scan'[t].next)) <= scan'[t].sum
                    /\ scan'[t].sum <= Cardinality(Below(span'[t].ever, scan'[t].next))
  BY <1>0 DEF ScanInv, Below, ShardOf, N
<1> USE DEF MapInv
<1>1. CASE UNCHANGED vars
  <2>1. IsLen(t) /\ UNCHANGED <<span, scan>> /\ Present' = Present
    BY <1>1 DEF vars, IsLen, Present, Shards, N
  <2> QED BY <2>1 DEF ScanInv
<1>2. CASE Next /\ call[t] = None
  <2>1. UNCHANGED <<built, tables>> /\ scan'[t] = NoScan
    BY <1>2, LenBegins
  <2>2. Present' = Present
    BY <2>1 DEF Present, Shards, N
  <2>3. span'[t] = [always |-> Present, ever |-> Present]
    BY <1>2 DEF Next, Always, Observe, IsLen
  <2>4. Below(Present, 0) = {}
    <3>1. \A k \in Present : ShardOf(k) >= 0
      BY PresentKeys, ShardIsOne DEF TypeOK, Shards, N
    <3> QED BY <3>1, PresentKeys, ShardIsOne DEF TypeOK, Shards, N, Below
  <2>5. Cardinality(Below(Present, 0)) = 0
    BY <2>4, FS_EmptySet
  <2> QED BY <2>1, <2>2, <2>3, <2>5 DEF NoScan
<1>3. CASE Next /\ call[t] # None
  <2> DEFINE low == span[t].always
             high == span[t].ever
  <2>1. span'[t] = [always |-> low \cap Present', ever |-> high \cup Present']
    BY <1>3 DEF Next, Always, Observe, IsLen
  <2>2. IsLen(t)
    BY <1>3, LenGoesOn DEF Len, IsLen
  <2>3. /\ low \in SUBSET Keys /\ high \in SUBSET Keys
        /\ scan[t].sum \in Nat /\ scan[t].next \in Shards
    BY <2>2 DEF TypeOK, IsLen
  <2>4. /\ low \subseteq Present /\ Present \subseteq high
        /\ Cardinality(Below(low, scan[t].next)) <= scan[t].sum
        /\ scan[t].sum <= Cardinality(Below(high, scan[t].next))
    BY <2>2 DEF ScanInv
  <2>5. Present' \subseteq Keys
    <3>1. tables' \in [Shards -> SUBSET Entry]
      BY <1>3, TablesStep
    <3> QED BY <1>0, <3>1 DEF Present, Entry, Shards, N
  <2>6. CASE UNCHANGED scan[t]
    <3> DEFINE n == scan[t].next
               low2 == low \cap Present'
               high2 == high \cup Present'
    <3>1. low2 \in SUBSET Keys /\ high2 \in SUBSET Keys /\ low2 \subseteq low /\ high \subseteq high2
      BY <2>3, <2>5
    <3> HIDE DEF n, low, high, low2, high2
    <3>2. /\ Cardinality(Below(low2, n)) <= Cardinality(Below(low, n))
          /\ Cardinality(Below(low2, n)) \in Nat /\ Cardinality(Below(low, n)) \in Nat
      BY <2>3, <3>1, BelowGrows
    <3>3. /\ Cardinality(Below(high, n)) <= Cardinality(Below(high2, n))
          /\ Cardinality(Below(high, n)) \in Nat /\ Cardinality(Below(high2, n)) \in Nat
      BY <2>3, <3>1, BelowGrows
    <3>4. /\ Cardinality(Below(low, n)) <= scan[t].sum
          /\ scan[t].sum <= Cardinality(Below(high, n))
      BY <2>4 DEF n
    <3>5. /\ Cardinality(Below(low2, n)) <= scan[t].sum
          /\ scan[t].sum <= Cardinality(Below(high2, n))
      BY <2>3, <3>2, <3>3, <3>4
    <3>6. span'[t].always = low2 /\ span'[t].ever = high2
      BY <2>1 DEF low2, high2
    <3>7. scan'[t].next = n /\ scan'[t].sum = scan[t].sum
      BY <2>6 DEF n
    <3> QED BY <3>5, <3>6, <3>7 DEF low2, high2
  <2>7. CASE Len(t)
    <3>1. UNCHANGED tables
      BY <2>7 DEF Len
    <3>2. Present' = Present
      BY <1>0, <3>1 DEF Present, Shards, N
    <3>3. span'[t].always = low /\ span'[t].ever = high
      BY <2>1, <2>4, <3>2
    <3>4. /\ scan'[t].next = scan[t].next + 1
          /\ scan'[t].sum = scan[t].sum + Cardinality(tables[scan[t].next])
      <4>1. None # [op |-> "len"]
        <5>1. [op |-> "len"] \in Requests
          BY DEF Requests
        <5> QED BY <5>1
      <4>2. ASSUME NEW sum
            PROVE  ~Return(t, sum)
        BY <4>1 DEF Return, TypeOK, IsLen
      <4> QED BY <2>7, <4>2 DEF Len, TypeOK
    <3> QED BY <2>2, <2>4, <3>2, <3>3, <3>4, LenAdds
  <2> QED BY <1>3, <2>6, <2>7, LenGoesOn
<1> QED BY <1>1, <1>2, <1>3

(* When len returns it has seen all shards.                                 *)
LEMMA LenReturns ==
  ASSUME IsFiniteSet(Keys), MapInv, ScanInv, [Next]_vars,
         NEW t \in Threads, IsLen(t), call'[t] = None
  PROVE  /\ Cardinality(span[t].always) <= ret'[t]
         /\ ret'[t] <= Cardinality(span[t].ever)
<1> USE DEF MapInv
<1>0. None # [op |-> "len"]
  <2>1. [op |-> "len"] \in Requests
    BY DEF Requests
  <2> QED BY <2>1
<1>1. Len(t)
  BY <1>0, LenGoesOn DEF IsLen
<1>2. scan[t].next + 1 \notin Shards /\ ret'[t] = scan[t].sum + Cardinality(tables[scan[t].next])
  BY <1>0, <1>1 DEF Len, Return, TypeOK, IsLen
<1>3. scan[t].next + 1 = N
  BY <1>2 DEF TypeOK, Shards, N
<1>4. \A S \in SUBSET Keys : Below(S, N) = S
  BY ShardIsOne DEF Below, TypeOK, Shards, N
<1>5. span[t].always \in SUBSET Keys /\ span[t].ever \in SUBSET Keys
  BY DEF TypeOK, IsLen
<1> QED BY <1>2, <1>3, <1>4, <1>5, LenAdds

(* map.rs:79.  len returns at least the number of keys that were in the map  *)
(* all the time and at most the number of those that were in it at some     *)
(* time, for any number of shards and whatever other threads do meanwhile.  *)
THEOREM LenIsBounded ==
  ASSUME IsFiniteSet(Keys)
  PROVE  Spec => LenBounds
<1>1. Init => ScanInv
  <2>1. [op |-> "len"] \in Requests
    BY DEF Requests
  <2> QED BY <2>1 DEF Init, ScanInv, IsLen
<1>2. MapInv /\ ScanInv /\ [Next]_vars => ScanInv'
  BY ScanStep
<1>3. MapInv /\ ScanInv /\ [Next]_vars
        => [\A t \in Threads :
             call[t] = [op |-> "len"] /\ call'[t] = None
               => /\ Cardinality(span[t].always) <= ret'[t]
                  /\ ret'[t] <= Cardinality(span[t].ever)]_vars
  BY LenReturns DEF IsLen
<1> QED BY <1>1, <1>2, <1>3, MapInvariant, PTL DEF Spec, LenBounds

-------------------------------------------------------------------------------
(* Preallocation                                                             *)

(* Twice the truncated quotient makes up for the remainder.                  *)
LEMMA Division ==
  ASSUME NEW n \in Nat \ {0}, NEW size \in Nat, size > n
  PROVE  LET room == n * ((size \div n) * 2)
         IN  size <= room /\ room <= 2 * size
<1> DEFINE q == size \div n
           p == n * q
           r == size % n
<1>1. q \in Nat /\ p \in Int /\ r \in 0 .. n - 1 /\ size = p + r
  OBVIOUS
<1>2. p >= n
  <2>1. q # 0
    BY <1>1
  <2> QED BY <1>1, <2>1
<1>3. n * (q * 2) = p + p
  BY <1>1
<1> HIDE DEF p, q, r
<1> QED BY <1>1, <1>2, <1>3 DEF q

(* builder.rs:48.  Twice the truncated quotient is enough.                  *)
THEOREM RoomForEstimate ==
  ASSUME IsFiniteSet(Keys)
  PROVE  Spec => []Preallocated
<1>1. MapInv => Preallocated
  <2> SUFFICES ASSUME MapInv, NEW size \in {built.by.estimated_size} \ {None}, size > N
               PROVE  LET room == N * PerShard(N, size)
                      IN  size <= room /\ room <= 2 * size
    BY DEF Preallocated
  <2>1. size \in Nat /\ N \in Nat \ {0}
    BY DEF MapInv, TypeOK, Builders, N
  <2>2. PerShard(N, size) = (size \div N) * 2
    BY <2>1 DEF PerShard
  <2> QED BY <2>1, <2>2, Division
<1> QED BY <1>1, MapInvariant, PTL
================================================================================
