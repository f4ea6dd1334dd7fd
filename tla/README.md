# light-cache in TLA+

This directory holds a formal model of light-cache 0.2.6 (`src/`), TLC
configurations that check it on small instances, and proofs that TLAPS checks
for every instance. File and line references are to the repository, with
`src/` as its root; `PROJECT.json` maps every definition to its lines.

## 1. The system

light-cache is an in-memory concurrent map whose entries are computed by
asynchronous functions. Its parts:

| Part | Code | State | Operations |
|---|---|---|---|
| `LightCache` | `src/cache.rs` | a policy and a `LightMap` | `get_or_insert`, `get_or_try_insert`, the two `_race` variants, `insert`, `get`, `remove`, `prune`, `len` |
| Cooperative futures | `src/cache/get_or_insert.rs` | per future: `Waiting` (with `joined`) or `Working` | `poll`, `drop` |
| Racing futures | `src/cache/get_or_insert_race.rs` | per future: `joined`, the user's future | `poll`, `drop` |
| `Wakers` | `src/map/waker_node.rs` | `workers`, `wakers` | `start`, `join_waiter`, `join_worker`, `remove_worker`, `alert_all`, `finish` |
| `Shard` | `src/map.rs` | `waiters: Mutex<HashMap<K, Wakers>>`, `table: RwLock<RawTable>` | `insert`, `get`, `remove` |
| `LightMap` | `src/map.rs` | shards | routing by hash, `len`, `get_mut` |
| `MapBuilder` | `src/map/builder.rs` | number and capacity of shards | `build` |
| `LinkedArena` | `src/policy/linked_arena.rs` | `idx_of`, `nodes`, `head`, `tail` | `insert_head`, `move_to_head`, `remove`, `remove_item` |
| `TtlPolicy` | `src/policy/ttl.rs` | mutex over arena and ttl | `get`, `insert`, `remove`, `prune` |
| `LruPolicy` | `src/policy/lru.rs` | mutex over arena, capacity, priority queue | `get`, `insert`, `remove`, `prune`, `evict` |
| `NoopPolicy`, traits | `src/policy.rs`, `src/policy/noop.rs`, `src/cache/no_policy.rs` | none | forwarding |
| `RefreshCache` | `src/refresh.rs` | a `LightCache` with a `TtlPolicy` | `get` |

How they interact. A call of `get_or_insert` asks the policy first (`self.get`)
and, if there is no value, makes a future bound to the key's shard. The futures
of a key see each other only through the shard: its `table`, and the `Wakers`
node that `waiters` keeps for the key while it is being computed. Polls take the
`waiters` mutex for their decisions and release it before user code (`init`, the
user's future) runs. The one exception is the insertion: `poll` returns
`InnerComplete::Insert` with the guard in it, and the value is inserted and the
node removed under the same guard. The drop of a future takes the mutex once
more. `LightCache::insert` and `remove` never look at `waiters`. Policies have a
mutex of their own, held while they prune and change their arena, and released
before the map is changed. The lock order is waiters, policy, table, and no code
path takes them the other way round.

What is hard here:

* a waiter must not miss the wake of the worker it waits for, whatever the worker
  does (finish, fail, panic, be dropped) and whenever it does it;
* two futures, or a future and a direct `insert` or `remove`, may act on a key
  between any two of the other's critical sections; the drop of a finished future
  in particular comes after the mutex was released;
* racing and cooperative futures share nodes but count themselves differently;
* the arena's links must survive `swap_remove`, and its tail must be right since
  expiry and eviction look nowhere else;
* policy and map are changed in two steps, and under `RefreshCache` the insertion
  makes them inside the critical section of the futures;
* `len` reads the shards one after another, and a `GetMut` keeps a shard locked for
  as long as its owner likes.

`PROJECT.json` lists these as hazards, each at its line.

What makes the parts correct: one value per key and no overwritten computation,
one cooperative worker per key, no lost wake, every call returns, no
`unreachable!()` reached; the arena is a list in the order of use; policy and map
agree; expired keys go, and the capacity holds; the shards are one atomic map; a
refreshed value stays for its time to live, is stored once in it, and is not
returned after it.

## 2. Modules

| Module | What it is |
|---|---|
| `WakerNode` | the `Wakers` record and its operations |
| `AsyncShard` | the shards; the environment (direct inserts, removals, I/O, drops); what both kinds of future do once they have computed; the properties |
| `GetOrInsert` | cooperative futures: the state `Waiting`, `init`, `Working` |
| `GetOrInsertRace` | racing futures |
| `AsyncInsert` | both together: `Next`, fairness, `Spec`, `FairSpec`, liveness, the refinement mapping |
| `SingleFlight` | abstract specification: a key is computed in one flight at a time |
| `AsyncInsertProofs`, `GetOrInsertProofs` | theorems and proofs |
| `LinkedArena` | the arena as operators on records, and what it means that it is a list |
| `PolicyCache` | map, policy mutex, threads and clock that both policies share |
| `TtlPolicy`, `LruPolicy` | the policies |
| `RecencyList` | abstract specification of the arena: a sequence of keys by last use |
| `ArenaProofs` | what each operation of the arena does to the list it holds |
| `PolicyProofs`, `TtlProofs`, `LruProofs` | the invariants of the policies and their theorems |
| `MapBuilder` | number and capacity of the shards |
| `LightMap` | the map with its shards and their locks, by several threads |
| `AtomicMap` | abstract specification of the map: no shards, no locks |
| `LightMapProofs` | theorems and proofs |
| `RefreshCache` | the futures and the ttl policy together, as `RefreshCache::get` joins them |
| `ExpiringStore` | abstract specification of the values a `RefreshCache` keeps |
| `RefreshProofs` | theorems and proofs |
| `MCAsyncInsert`, `MCTtlPolicy`, `MCLruPolicy`, `MCLightMap`, `MCRefreshCache` | symmetry sets, hashes and builders for TLC |

`AsyncInsert` composes `GetOrInsert` and `GetOrInsertRace` on one `AsyncShard`, which
stands for all shards of a map;
`RefreshCache` composes `GetOrInsert` with an instance of `TtlPolicy`.

Operators named `...Unchecked`, `...Silently` and the like, with a comment that
begins with "Mutant", are wrong variants of the operator that follows them. No
specification uses them; `PROJECT.json` pairs each with the property that
catches it.

### The asynchronous side

A call is one call of an async method and is a task of its own, so that a call
can stand for its waker and for the value it computes. `pc[c]` is the place where
the call is between two points at which other threads can see what it did;
`AsyncShard` lists the stages.

* **Shards.** Every shard has a `waiters` mutex of its own. `ShardOf`, a constant, gives
  the shard of each key; the mutex of k's shard is free (`Unlocked(k)`) when no call is
  `inserting` or `inserted` a key of it. So keys of one shard wait for each other and
  keys of different shards do not. The theorems are about any `ShardOf`; the runs have
  all keys in one shard, where they have the more to do with each other.
* **Atomicity.** A poll that takes and releases the `waiters` mutex is one action
  for the whole critical section (`WaitPending`, `RaceJoin`, ...): table reads
  inside are by the shard's `RwLock`, and a direct `insert` or `remove` between
  the table read and the rest of the section changes nothing the section looks at
  again. The user's future is polled without the mutex, so `PollWorking` and
  `RacePoll` are separate from what follows. The insertion keeps the guard over
  `cache.insert` and `lock.remove`: stages `inserting` and `inserted` hold the
  mutex, and direct inserts, removals, wakes and completions interleave with them.
  The drop at the end is a section of its own (`dropping`).
* **`Got`, `TakeInsert`, `Fail`.** Whether a try-future returned `Ok` or `Err` is
  chosen when the output is looked at.
* **Drop.** `DropStage` says who takes the mutex when dropped: a `Working` future
  always, also after it returned its value, a race only if `joined`. An async fn
  that is dropped or panics drops the future in the state it is in (`Cancel`,
  `InitPanics`, `Unreachable`).
* **Wakers.** The `Vec` is a set: waking twice is no different. What is lost is the
  length of the `Vec`, which grows with every caller of a key that keeps failing.
* **Executor.** `notified` are the calls that will be polled. A wake of a finished
  call is lost. `SpuriousWake` polls for no reason; `Migrate` moves a future to
  another task, whose waker differs from the one it left in the shard.
* **Policy.** A policy appears as `Remove`, at any time, and `cache.insert` as the
  table's insertion. The wider effect of a policy is in the other half.

`Usage` names what the surrounding program does beyond making calls: `insert`,
`remove`, `cancel`, `err`, `init_panic`, `migrate`. Each property is checked or
proved with the largest `Usage` it holds for, and where a part of the
documentation promises more, a run shows the counterexample.

### The policies

Indices count from 1 (from 0 in the code), `None` is `Option::None`. A thread's
operation takes the policy's mutex (`Begin`), prunes one key per step, does its
work on the arena, releases the mutex and then changes or reads the map
(`InsertNoPolicy`, ...), so that other threads come in between. `TtlPolicy::get`
reads the map under the mutex, `LruPolicy::get` after it. A value in the map is
the instant at which the policy counted its insert. `expires[k]` is the creation
time of k's node plus the ttl (`TtlPolicy`), or the key's place in the priority
queue (`LruPolicy`; which of two equal ones is popped first is left open). The
clock ticks at any time, except between the last look of prune's loop and the
first thing the operation does after it, where a tick could only add its own
length to a lifetime.

### The map

An entry is a key and a value, a table a set of entries; nothing in the model
keeps an operation from making a second entry of a key or one in a wrong shard but
what the code does. A thread makes a call (`Request`), and the call takes effect in
one action, when the lock of the key's shard is free, as `Shard::insert`, `get` and
`remove` do all their work under it. `Len` takes one step for each shard. `GetMut`
ends its call with the write lock kept: `mut[t]` is the key, and a shard is
`Unlocked` when no thread has a `GetMut` of one of its keys. The owner may call the
map meanwhile, as the type allows, but has one `GetMut` at a time. Waiting readers
and writers are not told apart, which matters to fairness only. The hash of a key
is a constant, and so is the set of builders, of which `Init` chooses one; `N` is
what `MapBuilder::build` makes of it. A `LightCache` with `NoopPolicy` passes its
synchronous operations on to these.

### RefreshCache

The calls of `GetOrInsert` are the threads of `TtlPolicy`. A value is the call that
computed it, as in `AsyncShard`; the policy sees its time stamp (`Stamps`). A call is
first a `get` of the policy with pc `"new"`: it takes the policy's mutex, prunes, and
reads the table under it (`StartGet`, `PruneOne`, `Read`). Then its future runs, and
looks at the table in each poll without the policy. The call that is told to insert
has the waiters' mutex (`pc = "inserting"`) and goes through the policy's operation
once more: `BeginInsert`, `PruneOne`, `CountInsert` and, after the release of the
policy's mutex, `WriteValue`. What a prune drops is a `Remove` of `AsyncShard`. There
are no direct inserts and removals by the program, since `RefreshCache` has neither
(`"remove"` in `Usage` is the policy's); `Usage` adds cancellation, errors, panics and
futures that change their task. `RefreshCache::new` builds a map of several shards: each
has its own waiters' mutex, so that insertions of keys of different shards overlap,
each holding the mutex of its shard while it takes its turns at the one mutex of the
policy, and one that holds the policy's mutex may drop a key whose insertion in another
shard has been counted and not yet written. The model has these steps, and the theorems
hold for any keys in any shards; the run has one key.

## 3. What TLC checks

Passing runs, none of which takes more than a few minutes:

| Run | Instance | Shows |
|---|---|---|
| `mixed_any` | 1 cooperative + 2 racing calls of 1 key, every usage but migration | `TypeOK`, `ComputedValueClearsWaiters`, `NoComputedOverwrite`; `RaceCallsReturn` |
| `mixed_kept` | 2 + 2 calls, every usage but removals | `SingleWorker`, `CountedFindNode`, `NoneUncounted`, `OneComputedValue` |
| `coop_kept` | 3 cooperative calls, 2 keys; direct inserts, drops, errors | `NoUnreachable`, `NoPhantomWorker`, `ParkedIsRegistered`, `ImplementsSingleFlight`; `CoopCallsReturn` |
| `ttl` | 2 threads, 3 keys, 4 instants | `TypeOK` (with the arena's bounds), `ArenaIsList`, `OldestLast`, `KeepsRecency`, `TracksMap`, `PruneRemovesExpired` |
| `lru` | 2 threads, 3 keys, capacity 2, a ttl, 3 instants | `TypeOK`, `ArenaIsList`, `QueueAgrees`, `KeepsRecency`, `TracksMap`, `PruneRemovesExpired`, `WithinCapacity` |
| `map` | 2 threads, 2 keys, 2 values; builders that give 1, 2 and 4 shards | `TypeOK`, `OneEntryPerKey`, `Preallocated`, `LenBounds`, `ImplementsAtomicMap`; `ReturnsUnlessNested` |
| `refresh` | 3 calls, 1 key, time to live 1, 3 instants; drops and errors | `RefreshTypeOK`, `FreshUnlessOvertaken`, `ReturnsFresh`, `InsertsOnlyNewKeys`, `OneRefreshAtATime`, `WaitersAreServed`, `KeepsValuesForTtl`; `GetReturns` |

What they say, in words: a computed value is never replaced by another call's
(`NoComputedOverwrite`), all calls of a key that return a computed value return the
same one unless the key is removed (`OneComputedValue`), a cooperative worker is
alone (`SingleWorker`), also among racing calls, since a node never counts fewer calls
than will leave it (`NoneUncounted`); each of these finds the node when it has inserted
(`CountedFindNode`), and what `race_ready_at_once` shows happens only to a race that
never joined; a parked waiter is registered with a node that somebody will
finish (`ParkedIsRegistered`, `NoPhantomWorker`) and so all calls return, while a racing
call comes to an end whatever is done with the cache, be it by the panic of
`race_ready_at_once` (`RaceCallsReturn`). The arena
is a list in the order of use whatever `swap_remove` moves, with the oldest key
where prune looks for it; it holds the keys of the expiry queue, and no more than the
capacity once evict is done. Arena and map hold the same keys (`TracksMap`) and prune leaves
no expired value (`PruneRemovesExpired`, under the ttl policy as long as the list has its
tail), key by key and whatever happens to other keys:
an exception is a key of which an operation has changed the policy and not yet the map,
and one of which an operation was overtaken in between by another. That one is out of
step until its next change that is not overtaken. The sharded map behaves as one (`ImplementsAtomicMap`);
`len` returns no less than the number of keys that were there from its first read to
its last and no more than the number that were there at some time in between
(`LenBounds`), which is all it can say; and calls return although a `GetMut` blocks
them, unless some thread calls the map while it has one, which may block it on its own
lock (`map.rs:101` warns of it, against `map.rs:14`, "they will never block another
thread"). A value of `RefreshCache` is stored, kept for its time to live and only then
removed or replaced (`KeepsValuesForTtl`); no get returns a value that had expired when
it first looked, unless the policy overtook that value's insert (`ReturnsFresh`). A key
that the policy has not dropped is refreshed by one get at a time (`OneRefreshAtATime`),
whoever waits for it is on its node's wakers and somebody is there to wake it
(`WaitersAreServed`), and every get of it returns (`GetReturns`). When the policy drops
a key while a waiter has yet to look at it, that waiter may be stuck as in
`waiter_stuck_after_remove`; `lost` remembers such keys.

Runs that end in a counterexample, because the code does something its
documentation, a comment or an assertion excludes:

| Run | What happens |
|---|---|
| `waiter_stuck_after_remove` | c1 computes k and c2 waits; c1 inserts and wakes c2, k is removed, c3 starts a new node; c2 sees a worker and believes it is registered, as `joined` is true; c3 wakes only itself (`cache.rs:107`) |
| `waiter_stuck_after_init_panic` | `init` panics after the worker was counted; nobody takes the count back (`cache.rs:104`) |
| `race_ready_at_once` | a racing future that is ready when first polled has no node and panics (`get_or_insert_race.rs:72`) |
| `race_starter_fails` | the racing call that starts a node has `joined` false, its error alerts nobody (`cache.rs:142`) |
| `ttl_reinsert_alone` | the only key is inserted again, `move_to_head` loses the tail, `prune` removes nothing (`linked_arena.rs:133`, `cache.rs:197`) |

These are why the properties come with conditions. Further ones, each found by
TLC with the settings given and not kept as a run:

* `SingleWorker` with three cooperative calls and `Usage = {"remove"}`: c1 has
  returned, k is removed, c2 starts a node, c1's future is dropped and takes c2's
  count, c3 computes next to c2 (against `cache.rs:25`).
* `CoopCallsReturn` with one cooperative and one racing call and
  `Usage = {"insert"}`: the race that started the node finds a directly inserted
  value and leaves without waking the waiter, for whom the value is there
  (`cache.rs:170-175` speaks of a leak only).
* `CoopCallsReturn` with two cooperative calls and `Usage = {"migrate"}`: a waiting
  future polled from another task keeps its old waker (against `cache.rs:26`).
* `PruneLeavesFresh` of `TtlPolicy`, or `TracksMap` without the exemption of `crossed`, with
  two threads, also when no key is used again while alone: a prune between the policy's and the map's half of an insert
  leaves a value nobody tracks, which never expires (against `cache.rs:197`).
* `WithinCapacity` without its condition: after a get of the only key the tail is
  lost and inserts do not evict (against the comment at `lru.rs:133`).
* `FreshUnlessOvertaken` and `ReturnsFresh` without the exemption of `lost`: a call has
  counted its insert, the clock passes the time to live, another call prunes the
  node, and the first writes its value, for which there is no node any more. It
  never expires and every later get returns it (`ttl.rs:72`).

**Bounds.** Three calls of one key are the least that show the interplay of a
worker, a waiter and a newcomer with a new node, which the cooperative
counterexamples need; the fourth call of `mixed_kept` gives each kind its pair.
Keys share nothing in the asynchronous model but the mutex of their shard, which the
second key of `coop_kept` exercises; keys of different shards share nothing. Three keys in the arena are the least in which a node
moved by `swap_remove` has a neighbour on each side or is neighbour of the removed
one; with capacity 2 they make evictions happen with a re-used key in the list.
`Ttl = 1` and `MaxTime = 3` in `ttl` let a key expire after it was inserted anew; the queue
of `lru` is not in the order of use, and the first expiry, at instant 2, is all it needs. `MaxTime` is
the only bound on a counter: when the clock has reached it operations go on
without it. In `map` the two keys share a shard or not, depending on the builder; a
thread that counts and one that inserts and removes are the least that let `len` miss
or double a change, and two values tell a lost update. In `refresh` three calls are one
whose insert is under way, one that prunes and one that reads; `MaxTime = 2` is the
first instant at which a value that was stamped 0 has expired. Also checked, and not
kept for its length: its invariants and `KeepsValuesForTtl` with two keys in two shards,
1.7 million states, no error. Symmetry is used in runs of invariants and step properties only.

**History.** Two variables of `PolicyCache` are no state of the program. `crossed` are the
keys that the policy has changed for one operation while another, which had changed the
same key in the policy before, had yet to tell the map; a change of the key that finds no
such operation takes it out again. `alone` tells whether a key was used again while it was
the only one tracked, so that one run covers the properties that hold always and those
that need the tail of the list. In `LightMap`, `span[t]` is what the `len` of `t` could have
counted so far. In `RefreshCache`, `begun` is when a call first read the table, and
`lost` the keys that the policy has dropped and the calls whose insert it overtook.
`stamp` is the time stamp of a call's value, which the code does not store with the
value but in the policy's node.

**Fairness** (`AsyncInsert!Fairness`). Weak fairness of the polls of every call (an
executor polls what was woken), of the steps a thread takes in the middle of a poll
or a drop (the mutex is held for a bounded number of steps and each call takes it a
bounded number of times, so a waiting thread gets it), and of `Complete` (the users'
futures finish). A spurious wake, a new call, an error or a drop is never assumed.
`RefreshCache!FairRefreshSpec` asks the same of the composition; its clock may stand
still. `LightMap!Fairness` is strong for a thread that waits for a lock, since the lock
is free again and again and parking_lot hands it over to who waits, and weak for the
use or drop of a `GetMut`, which is up to the program; that a call waits for a lock its
own thread has is excluded by the premise of `ReturnsUnlessNested`.

Deadlock is checked in the passing runs but `map`, where threads that call the map with
a `GetMut` really may wait for each other, and `refresh`, which stops when all calls
have been made and the clock has reached its bound.

## 4. What is proved

For every value of the constants, by TLAPS. The futures:

| Theorem | Assumes of `Usage` and calls | States |
|---|---|---|
| `TypeCorrect` | nothing | `Spec => []TypeOK` |
| `WaitersCleared` | nothing | `Spec => []ComputedValueClearsWaiters` |
| `ComputedValueKept` | nothing | `Spec => NoComputedOverwrite` |
| `ComputedOnce` | no `remove` | `Spec => []OneComputedValue` |
| `OneWorkerAtATime` | no `remove` | `Spec => []SingleWorker` |
| `CountIsEnough` | no `remove` | `Spec => []NoneUncounted` |
| `CountedNodeIsFound` | no `remove` | `Spec => []CountedFindNode` |
| `NoLostWake` | no `remove`, no `migrate` | `Spec => []ParkedIsRegistered` |
| `NodeIsFound` | no `remove`, no racing calls | `Spec => []NoUnreachable` |
| `Refinement` | no `remove`, no racing calls | `Spec => ImplementsSingleFlight` |
| `WorkersAreReal` | no `init_panic`, no racing calls | `Spec => []NoPhantomWorker` |

None of these premises, nor those of `NoRefreshWakeLost` below, can be dropped: without
any one of them TLC finds the invariant violated with two or three calls. They are the
cases of section 3: a late drop that takes another's count after a removal, a waiter
that keeps its old waker, a race that starts a node and is counted by it although its
drop will not take the count back.

The other parts:

| Theorem | States | Premises |
|---|---|---|
| `TtlTypes`, `LruTypes` | `Spec => []TypeOK` | |
| `TtlArena`, `LruArena` | `Spec => []ArenaIsList` | |
| `TtlOrder` | `Spec => []OldestLast` | |
| `LruQueue`, `LruCapacity` | `Spec => []QueueAgrees`, `Spec => []WithinCapacity` | |
| `TtlTracks`, `LruTracks` | `Spec => []TracksMap` | |
| `TtlPrunes`, `LruPrunes` | `Spec => []PruneRemovesExpired` | |
| `TtlRecency`, `LruRecency` | `Spec => KeepsRecency` | |
| `MapTypeCorrect`, `EntriesAreUnique` | `Spec => []TypeOK`, `Spec => []OneEntryPerKey` | `Keys` finite |
| `MapIsAtomic` | `Spec => ImplementsAtomicMap` | as above |
| `LenIsBounded`, `RoomForEstimate` | `Spec => LenBounds`, `Spec => []Preallocated` | as above |
| `ValuesKept` | `RefreshSpec => KeepsValuesForTtl` | |
| `FuturesUnchanged`, `PolicyUnchanged` | `RefreshSpec => ImplementsAsyncInsert`, `RefreshSpec => ImplementsTtlPolicy` | |
| `PrunesAllButOvertaken`, `NothingStaleReturned` | `RefreshSpec => []FreshUnlessOvertaken`, `RefreshSpec => []ReturnsFresh` | |
| `KeysAreNew`, `RefreshTypes` | `RefreshSpec => []InsertsOnlyNewKeys`, `RefreshSpec => []RefreshTypeOK` | |
| `RefreshedOnceAtATime` | `RefreshSpec => []OneRefreshAtATime` | |
| `NoRefreshWakeLost` | `RefreshSpec => []WaitersAreServed` | no `init_panic`, no `migrate` |

They rest on the named assumptions of the modules: `ShardAssumption` (the calls are
the cooperative and the racing ones), `PolicyAssumption`, `TtlAssumption`,
`LruAssumption` (a capacity greater than one, as `LruPolicy::new` asserts),
`MapAssumption`, `RequestAssumption`, `BuilderAssumption`, `RefreshAssumption`. `Keys` are
finite in the theorems about the map because `len` counts them.

The arguments:

* `MutexInv` is the base of the futures: at most one call of a shard is `inserting` or
  `inserted`, while a call is `inserting` the table has no computed value of its key,
  and once a value is computed the node is gone when the inserter lets go of the
  mutex. `WaitersCleared` and `ComputedValueKept` follow.
* `OneValueInv` adds what calls have returned: a computed value that was ever
  returned, or is about to be, is the one in the table unless a direct insert
  replaced it, and after that no call inserts again. It needs that nothing is
  removed.
* `CountInv(k)` is about one key. Its node counts every call that will take one off the
  count (`Counted`: a cooperative call that computes, inserts or is being dropped, and a
  race that joined), perhaps more; there are such calls only while there is a node or a
  value; each finds the node when it inserts; one of them at most is cooperative. A call
  starts a node or takes it over only while the count is zero, so nobody is counted,
  which is why a cooperative worker stays alone; a race may join at any time, but adds
  one to the count. The count may be too high: the race that starts a node adds one and
  does not take it off. With `CountStep` a step keeps `CountInv(k)` whenever it takes no
  value of k from the table; what happens to other keys does not matter, and that is
  what `RefreshProofs` builds on.
* `ParkedInv(k)` says that a call with `joined` set that waits is among the wakers of
  the node, or there is no node and the value is there; and that a waiter which nobody
  is going to poll is on a node with a worker (`ParkedStep`). It fails when futures
  migrate.
* `RealInv(k)` says that without races a node counts one worker at most, and one that is
  there (`RealStep`). A removal keeps it, since it changes neither node nor count.
* **One flight at a time.** Without races `CountInv` makes `Flight` a function of the
  state, and every step one of `SingleFlight` or none (`FlightRefines`): what starts a
  node or takes it over departs (`Departs`), the insertion publishes and lands at once,
  so that nothing is published twice in a flight, and what else ends it lands (`Lands`). It is
  false as soon as keys are removed (a late drop takes another's count) or calls race
  (`race_ready_at_once`).
* **The arena.** `IsArena(a, X, n, at, rank)` gives the list by two inverse
  functions: `at[p]` is the index of the node at place `p`, `rank[i]` the place of node
  `i`; links, head and index are functions of them, and the tail is the last node or
  None. `UnlinkIs`, `InsertHeadIs`, `MoveToHeadIs`, `RelinkIs` and `RemoveIs` say which
  functions an operation makes of them, `swap_remove` being the replacement of the last
  index by the one that was freed at the same place. Above that the indices are gone:
  `ListOf(a, X, n, c)` says that `a` is a list with contents `c`, and `Pushed`,
  `Raised` and `Dropped` are what the operations make of `c`.
* **The policies.** `TtlInv` and `LruInv` are inductive: the types, the mutex
  (`Exclusive`), that the arena holds some contents `c` and knows its tail unless a key
  was used again while alone (`Tracked`), and, of every key that is not `crossed`, that one thread at
  most has yet to tell the map, that map and policy agree on the key if there is none, and
  that the policy is ahead by that thread's operation if there is one (`Agrees`). A step is
  about one key; `SameAgrees`, `EvictAgrees`, `CountAgrees` and `CatchUpAgrees` say what it
  does to that key and that it leaves the others alone. `TtlInv` adds that the contents are in
  the order of expiry, which `Raised` keeps since no key expires later than one that is
  inserted now; `LruInv` adds that queue and arena have the same keys, that `n` is the
  capacity plus one at most, and that a thread that is about to evict has its key in
  front, which with a capacity above one is not the one evicted.
* **Recency.** The refinement mapping `Order(arena)` follows the links by a recursive
  function from places to keys. That it is `c` is shown by the least place at which the
  two would differ (`SmallestIs`, `OrderIs`), as an induction theorem cannot be
  instantiated; the power of two that `MapBuilder::build` rounds to is found the same way
  (`SomePowers`, `SamePowers`, `PowerGrows`): the least exponent for which there is no
  function of powers, or at which two differ, has a predecessor. Each operation then is a `UseNew`, `UseAgain` or `Forget` of
  `RecencyList`.
* **The map.** `MapInv`: types, and each entry is alone of its key and in the shard of
  its hash. It makes `Find` of a key depend on its own shard only, so that a step under
  that shard's lock is one of `AtomicMap`. `ScanInv` bounds the sum so far: it is at
  least the number of the keys of `always` in the shards already read, and at most that
  of `ever`.
* **The refresh cache.** `RInv` couples the two halves (`Coupled`: a call in the
  policy's `insert` has the waiters' mutex, its table has no value), says that a node
  which was counted has the counted time stamp or has been dropped (`Counts`,
  `ValueCounts`), and that a key without a value has had none, or only ones whose
  time to live is over (`Gone`). So what is stored next is stamped later than the end
  of the last one, which is the step of `ExpiringStore`. `FuturesUnchanged` lets every
  theorem about the futures with no condition on `Usage` hold under the policy.
* **Keys that the policy keeps.** The policy removes keys, so that the other theorems
  about the futures do not carry over as they stand. But a step takes the value of a key
  from the table only if the key is `lost` from then on (`OnlyLostKeys`), and `CountStep`
  and `ParkedStep` ask no more: `CountInv` and `ParkedInv` hold of the keys that are not
  `lost` (`KeptKeys`). With `NoPhantomWorker` by `WorkersAreReal`, which removals do not
  touch, they give `WaitersAreServed`.
* **Fresh values.** `PolicyUnchanged` brings the theorems about `TtlPolicy` into the
  composition: `TtlInv`, with the calls for its threads and the stamps for its table,
  holds in it, and with it that a prune that is over leaves no expired key in the arena
  (`PrunedIsFresh`). That needs the tail to be known (`TailKept`), and so that no insert
  finds its key in the list (`InsertsOnlyNewKeys`), which in turn needs that a key the
  policy knows has a value or an insert under way (`KeysHaveValues`): the call that inserts
  has the waiters' mutex of the key's shard, so no other insert of the key is under way and
  its table has no value, and the policy does not know the key (`UnknownKey`). From the
  other side a value that the policy does not know has been overtaken
  (`UnknownIsLost`). `InTime` says of every value that a call may still find that it
  had not expired when the call began, and `FreshInv` is all of them together,
  inductive with `RInv` and `TtlInv`.

Only model-checked, not proved: the liveness properties `CoopCallsReturn`,
`RaceCallsReturn`, `ReturnsUnlessNested` and `GetReturns`, which rest on fairness and so on
ENABLED, out of TLAPS's reach. Of what their arguments need, the safety half is proved:
who waits is registered with somebody that is there (`NoLostWake`, `WorkersAreReal`,
`NoRefreshWakeLost`).

## 5. What is not modelled

* Hash functions, the growth of `RawTable`, memory safety of the `unsafe` blocks beyond
  their indices, the benchmarks and the crate root.
* Overflow in `MapBuilder`: of `next_power_of_two` (a panic or zero, by build) and of
  the doubled capacity per shard.
* Poisoning and fairness of parking_lot's locks beyond what the fairness says.
* `LinkedArena::remove_end`, which no code calls.
* The growth of a node's `Vec` of wakers, and how long a cooperative call may wait
  behind newcomers that take over before it.
* The asynchronous methods under `LruPolicy`, except as far as it removes keys
  (`AsyncShard!Remove`), and racing calls under any policy.
* Whether a `RefreshCache::get` of a key that the policy has dropped returns: it need
  not, and `GetReturns` leaves it open.

## 6. Plan

Done: the futures, the arena, both policies, the map and the refresh cache, each with
an abstract specification that it implements, and all safety properties of the
passing runs proved. What could follow:

1. How much too high a count can be: a race that starts a node leaves one, a panic of
   `init` another, so without panics `workers` should exceed the number of `Counted`
   calls by one at most, with races and removals.
2. The composition of the futures with `LruPolicy`.
