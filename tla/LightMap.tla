------------------------------- MODULE LightMap -------------------------------
(***************************************************************************)
(* src/map.rs: a map cut into shards, each with a table behind a            *)
(* read-write lock.  An operation hashes its key, takes the lock of one     *)
(* shard, does its work and releases the lock, which is one action here;    *)
(* what takes longer is len, which reads the tables one after another, and  *)
(* GetMut, which keeps the write lock until its owner uses or drops it.     *)
(* A LightCache with NoopPolicy (src/policy/noop.rs) passes insert, get,    *)
(* remove and len on to these and adds nothing.                             *)
(***************************************************************************)
EXTENDS MapBuilder, FiniteSets

CONSTANTS
  Keys,
  Hash,         \* the u64 that the BuildHasher makes of each key
  Values,
  Threads,
  MapBuilders   \* the builders that maps are made with

ASSUME MapAssumption ==
  /\ Hash \in [Keys -> Nat]
  /\ MapBuilders \subseteq Builders
  /\ None \notin Keys \cup Values

VARIABLES
  built,    \* the builder of the map and the number of shards it made
  tables,   \* Shard::table of each shard, a set of entries
  call,     \* what each thread is doing: a request, or None
  ret,      \* what its last call returned
  mut,      \* the key of each thread's GetMut, or None
  scan,     \* how far each thread's len has come
  span      \* for the properties only, what each thread's len could have seen

vars == <<built, tables, call, ret, mut, scan, span>>

-------------------------------------------------------------------------------

N == built.shards

Shards == 0 .. N - 1

ShardOf(k) == Hash[k] % N

Entry == [key : Keys, value : Values]

(* The entry of the key, if it has one, where the lookup by hash looks. *)
Find(k) == {e \in tables[ShardOf(k)] : e.key = k}

ValueOf(k) == IF Find(k) = {} THEN None ELSE (CHOOSE e \in Find(k) : TRUE).value

Present == {e.key : e \in UNION {tables[s] : s \in Shards}}

Requests ==
  [op : {"get", "remove", "get_mut"}, key : Keys]
    \cup [op : {"insert"}, key : Keys, value : Values]
    \cup [op : {"len"}]

ASSUME RequestAssumption == None \notin Requests

NoScan == [next |-> 0, sum |-> 0]

TypeOK ==
  /\ built \in [by : MapBuilders, shards : Nat \ {0}]
  /\ tables \in [Shards -> SUBSET Entry]
  /\ call \in [Threads -> Requests \cup {None}]
  /\ ret \in [Threads -> Values \cup {None} \cup Nat]
  /\ mut \in [Threads -> Keys \cup {None}]
  /\ scan \in [Threads -> [next : Shards, sum : Nat]]
  /\ \A t \in Threads :
       IF call[t] = [op |-> "len"]
       THEN span[t] \in [always : SUBSET Keys, ever : SUBSET Keys]
       ELSE span[t] = None /\ scan[t] = NoScan

(* MapBuilder::build. *)
Init ==
  /\ built \in {[by |-> b, shards |-> NumShards(b)] : b \in MapBuilders}
  /\ tables = [s \in Shards |-> {}]
  /\ call = [t \in Threads |-> None]
  /\ ret = [t \in Threads |-> None]
  /\ mut = [t \in Threads |-> None]
  /\ scan = [t \in Threads |-> NoScan]
  /\ span = [t \in Threads |-> None]

-------------------------------------------------------------------------------

(* A GetMut has the write lock of its key's shard. *)
Unlocked(s) == \A t \in Threads : mut[t] # None => ShardOf(mut[t]) # s

Request(t, r) ==
  /\ call[t] = None
  /\ r.op = "get_mut" => mut[t] = None
  /\ call' = [call EXCEPT ![t] = r]
  /\ ret' = [ret EXCEPT ![t] = None]
  /\ UNCHANGED <<tables, mut, scan>>

(* Thread t can go on with a call of o: it gets the lock of its key's shard. *)
Locks(t, o) ==
  /\ call[t] # None
  /\ call[t].op = o
  /\ Unlocked(ShardOf(call[t].key))

Return(t, result) ==
  /\ call' = [call EXCEPT ![t] = None]
  /\ ret' = [ret EXCEPT ![t] = result]

Store(k, entries) == tables' = [tables EXCEPT ![ShardOf(k)] = entries]

(* Mutant: an entry is made without looking for one that is there. *)
InsertBlindly(t) ==
  /\ Locks(t, "insert")
  /\ LET k == call[t].key
     IN  /\ Store(k, tables[ShardOf(k)] \cup {[key |-> k, value |-> call[t].value]})
         /\ Return(t, ValueOf(k))
  /\ UNCHANGED <<mut, scan>>

(* Mutant: the write lock is not taken. *)
InsertUnlocked(t) ==
  /\ call[t] # None
  /\ call[t].op = "insert"
  /\ LET k == call[t].key
     IN  /\ Store(k, (tables[ShardOf(k)] \ Find(k)) \cup {[key |-> k, value |-> call[t].value]})
         /\ Return(t, ValueOf(k))
  /\ UNCHANGED <<mut, scan>>

(* The value of the entry is replaced, or an entry is made. *)
Insert(t) ==
  /\ Locks(t, "insert")
  /\ LET k == call[t].key
     IN  /\ Store(k, (tables[ShardOf(k)] \ Find(k)) \cup {[key |-> k, value |-> call[t].value]})
         /\ Return(t, ValueOf(k))
  /\ UNCHANGED <<mut, scan>>

Get(t) ==
  /\ Locks(t, "get")
  /\ Return(t, ValueOf(call[t].key))
  /\ UNCHANGED <<tables, mut, scan>>

Remove(t) ==
  /\ Locks(t, "remove")
  /\ Store(call[t].key, tables[ShardOf(call[t].key)] \ Find(call[t].key))
  /\ Return(t, ValueOf(call[t].key))
  /\ UNCHANGED <<mut, scan>>

(* The write lock is taken and returned with the GetMut. *)
GetMut(t) ==
  /\ Locks(t, "get_mut")
  /\ mut' = [mut EXCEPT ![t] = call[t].key]
  /\ Return(t, None)
  /\ UNCHANGED <<tables, scan>>

(* Mutant: the sum is taken of one shard's length. *)
LenOfFirst(t) ==
  /\ call[t] = [op |-> "len"]
  /\ Unlocked(scan[t].next)
  /\ LET sum == scan[t].sum + Cardinality(tables[0])
     IN  IF scan[t].next + 1 \in Shards
         THEN /\ scan' = [scan EXCEPT ![t] = [next |-> @.next + 1, sum |-> sum]]
              /\ UNCHANGED <<call, ret>>
         ELSE /\ scan' = [scan EXCEPT ![t] = NoScan]
              /\ Return(t, sum)
  /\ UNCHANGED <<tables, mut>>

(* One shard's lock is taken, its length added, and the lock released. *)
Len(t) ==
  /\ call[t] = [op |-> "len"]
  /\ Unlocked(scan[t].next)
  /\ LET sum == scan[t].sum + Cardinality(tables[scan[t].next])
     IN  IF scan[t].next + 1 \in Shards
         THEN /\ scan' = [scan EXCEPT ![t] = [next |-> @.next + 1, sum |-> sum]]
              /\ UNCHANGED <<call, ret>>
         ELSE /\ scan' = [scan EXCEPT ![t] = NoScan]
              /\ Return(t, sum)
  /\ UNCHANGED <<tables, mut>>

(* Mutant: the guard is forgotten, not dropped. *)
ForgetGuard(t) == UNCHANGED mut

DropGuard(t) == mut' = [mut EXCEPT ![t] = None]

(* GetMut::apply: the closure runs on the value, if there is one; the bool   *)
(* it returns is 1 or 0.                                                    *)
Apply(t) ==
  /\ mut[t] # None
  /\ call[t] = None
  /\ \/ /\ Find(mut[t]) # {}
        /\ \E v \in Values :
             Store(mut[t], (tables[ShardOf(mut[t])] \ Find(mut[t]))
                             \cup {[key |-> mut[t], value |-> v]})
        /\ ret' = [ret EXCEPT ![t] = 1]
     \/ /\ Find(mut[t]) = {}
        /\ ret' = [ret EXCEPT ![t] = 0]
        /\ UNCHANGED tables
  /\ DropGuard(t)
  /\ UNCHANGED <<call, scan>>

(* The GetMut is dropped without having been used. *)
Abandon(t) ==
  /\ mut[t] # None
  /\ call[t] = None
  /\ DropGuard(t)
  /\ UNCHANGED <<tables, call, ret, scan>>

Operate(t) == Insert(t) \/ Get(t) \/ Remove(t) \/ GetMut(t) \/ Len(t)

(* What a len that is under way could have counted: keys that have been in  *)
(* the map all the time, and keys that have been in it at some time.        *)
Observe(t) ==
  IF call'[t] # [op |-> "len"] THEN None
  ELSE IF call[t] = None THEN [always |-> Present, ever |-> Present]
  ELSE [always |-> span[t].always \cap Present', ever |-> span[t].ever \cup Present']

(* In every step: the shards stay as they were built. *)
Always ==
  /\ UNCHANGED built
  /\ span' = [t \in Threads |-> Observe(t)]

Next ==
  /\ \E t \in Threads : \/ \E r \in Requests : Request(t, r)
                        \/ Operate(t) \/ Apply(t) \/ Abandon(t)
  /\ Always

(***************************************************************************)
(* A thread that waits for a lock gets it in the end, also when others keep *)
(* taking it: parking_lot hands locks over from time to time.  The owner of *)
(* a GetMut uses or drops it, which is the program's part (map.rs:101).     *)
(***************************************************************************)
Fairness ==
  \A t \in Threads : /\ SF_vars(Operate(t) /\ Always)
                     /\ WF_vars((Apply(t) \/ Abandon(t)) /\ Always)

Spec == Init /\ [][Next]_vars

FairSpec == Spec /\ Fairness

-------------------------------------------------------------------------------

(* A table has one entry of a key at most, and only in the shard that its   *)
(* hash leads to, so that every operation finds it and no len counts it     *)
(* twice (map.rs:148).                                                      *)
OneEntryPerKey ==
  \A s \in Shards : \A e \in tables[s] :
    ShardOf(e.key) = s /\ \A f \in tables[s] : f.key = e.key => f = e

(* What len returns need not be a size the map ever had, as other threads   *)
(* insert and remove while it goes from shard to shard (map.rs:79).  It is  *)
(* at least the number of keys that were there all the time, and at most    *)
(* the number of keys that were there at some time.                         *)
LenBounds ==
  [][\A t \in Threads :
       call[t] = [op |-> "len"] /\ call'[t] = None
         => /\ Cardinality(span[t].always) <= ret'[t]
            /\ ret'[t] <= Cardinality(span[t].ever)]_vars

(* The shards together are one map, with insert, get, remove and a GetMut   *)
(* that nobody else interferes with (map.rs:12).                            *)
Atomic ==
  INSTANCE AtomicMap WITH contents <- [k \in Keys |-> ValueOf(k)]

ImplementsAtomicMap == Atomic!MapSpec

(* A thread that calls the map while it has a GetMut. *)
Nested == \E t \in Threads : mut[t] # None /\ call[t] # None

(* Holding a GetMut can block every operation on its shard (map.rs:101);    *)
(* but as long as no thread calls the map while it holds one, every call of *)
(* every thread returns.                                                    *)
ReturnsUnlessNested ==
  []~Nested => \A t \in Threads : call[t] # None ~> call[t] = None

(* A map built for an estimated number of entries, more than it has shards, *)
(* has room for all of them and for at most twice as many (builder.rs:48).  *)
Preallocated ==
  \A size \in {built.by.estimated_size} \ {None} :
    size > N => LET room == N * PerShard(N, size)
                IN  size <= room /\ room <= 2 * size
================================================================================
