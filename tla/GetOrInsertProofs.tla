--------------------------- MODULE GetOrInsertProofs ---------------------------
(***************************************************************************)
(* Theorems about the futures when nothing removes keys, for every number   *)
(* of calls and keys.  The arguments are made for one key at a time, and    *)
(* need of it only that this key is not removed.  First those that hold     *)
(* with racing calls, then those about cooperative futures alone.           *)
(***************************************************************************)
EXTENDS AsyncInsertProofs, FiniteSetTheorems

-------------------------------------------------------------------------------
(* What the operations do to a node                                          *)

(* The counts and the wakers that the operations of waker_node.rs leave.    *)
LEMMA NodeOps ==
  ASSUME NEW node \in Wakers, NEW c \in Calls
  PROVE  /\ Joined(c, node).workers = node.workers
         /\ JoinWaiter(node, c).workers = node.workers
         /\ LeaveWaiter(node, c).workers = node.workers
         /\ JoinWorker(node).workers = node.workers + 1
         /\ RemoveWorker(node).workers = IF node.workers > 0 THEN node.workers - 1 ELSE 0
         /\ Joined(c, node).wakers = node.wakers \cup ({c} \ joined)
         /\ JoinWaiter(node, c).wakers = node.wakers \cup {c}
         /\ JoinWorker(node).wakers = node.wakers
         /\ RemoveWorker(node).wakers = node.wakers
  BY DEF Wakers, JoinWaiter, LeaveWaiter, JoinWorker, RemoveWorker, Joined

(* A new node has one worker, which is its only waker.                      *)
LEMMA StartOps == \A c \in Calls : Start(c).workers = 1 /\ Start(c).wakers = {c}
  BY DEF Start

(* A key keeps its node, with the same count of workers.                    *)
SameCount(k) ==
  /\ waiters[k] = None <=> waiters'[k] = None
  /\ waiters[k] # None => waiters'[k].workers = waiters[k].workers

(* A waiter that parks is on its node's wakers and changes no count;        *)
LEMMA PendingNode ==
  ASSUME TypeOK, NEW c \in Calls, WaitPending(c), NEW k \in Keys, key[c] = k
  PROVE  /\ waiters[k] # None /\ waiters'[k] # None
         /\ waiters[k].workers > 0 /\ waiters'[k].workers = waiters[k].workers
         /\ waiters'[k].wakers = waiters[k].wakers \cup ({c} \ joined)
         /\ \A q \in Keys \ {k} : waiters'[q] = waiters[q]
<1>1. waiters[k] \in Wakers /\ waiters[k].workers > 0
  BY DEF WaitPending, TypeOK
<1>2. waiters' = [waiters EXCEPT ![k] = Joined(c, waiters[k])]
  BY DEF WaitPending
<1>3. Joined(c, waiters[k]) \in Wakers
  BY <1>1, NodeTypes
<1>4. Joined(c, waiters[k]).workers = waiters[k].workers
  BY <1>1, NodeOps
<1>5. Joined(c, waiters[k]).wakers = waiters[k].wakers \cup ({c} \ joined)
  BY <1>1, NodeOps
<1> QED
  BY <1>1, <1>2, <1>3, <1>4, <1>5, ShardAssumption DEF TypeOK

(* nor does one that moves to another task.                                 *)
LEMMA MigrateCounts ==
  ASSUME TypeOK, NEW c \in Calls, Migrate(c), NEW k \in Keys
  PROVE  SameCount(k)
<1> USE DEF SameCount
<1>1. CASE waiters[k] = None
  BY <1>1 DEF Migrate
<1>2. CASE waiters[k] # None
  <2>1. waiters[k] \in Wakers
    BY <1>2 DEF TypeOK
  <2>2. waiters'[k] = LeaveWaiter(waiters[k], c)
    BY <1>2 DEF Migrate
  <2>3. waiters'[k] \in Wakers
    BY <2>1, <2>2, NodeTypes
  <2>4. waiters'[k].workers = waiters[k].workers
    BY <2>1, <2>2, NodeOps
  <2>5. waiters'[k] # None
    BY <2>3, ShardAssumption
  <2> QED
    BY <1>2, <2>4, <2>5
<1> QED
  BY <1>1, <1>2

(* A waiter that takes over adds one to the count,                          *)
LEMMA TakeOverCounts ==
  ASSUME TypeOK, NEW c \in Calls, WaitTakeOver(c), NEW k \in Keys, key[c] = k
  PROVE  /\ waiters[k] # None /\ waiters[k].workers = 0
         /\ waiters'[k] # None /\ waiters'[k].workers = 1
         /\ waiters'[k].wakers = waiters[k].wakers \cup ({c} \ joined)
         /\ \A q \in Keys \ {k} : waiters'[q] = waiters[q]
<1>1. waiters[k] \in Wakers /\ waiters[k] # None /\ waiters[k].workers = 0
  BY DEF WaitTakeOver, TypeOK
<1>2. waiters' = [waiters EXCEPT ![k] = JoinWorker(Joined(c, waiters[k]))]
  BY DEF WaitTakeOver
<1>3. PICK node \in Wakers :
        /\ node = Joined(c, waiters[k])
        /\ node.workers = 0
        /\ node.wakers = waiters[k].wakers \cup ({c} \ joined)
  <2>1. Joined(c, waiters[k]) \in Wakers
    BY <1>1, NodeTypes
  <2>2. Joined(c, waiters[k]).workers = waiters[k].workers
    BY <1>1, NodeOps
  <2>3. Joined(c, waiters[k]).wakers = waiters[k].wakers \cup ({c} \ joined)
    BY <1>1, NodeOps
  <2> QED
    BY <1>1, <2>1, <2>2, <2>3
<1>4. JoinWorker(node) \in Wakers
  BY NodeTypes
<1>5. JoinWorker(node).workers = 1 /\ JoinWorker(node).wakers = node.wakers
  BY <1>3, NodeOps
<1>6. waiters' = [waiters EXCEPT ![k] = JoinWorker(node)]
  BY <1>2, <1>3
<1> QED
  BY <1>1, <1>3, <1>4, <1>5, <1>6, ShardAssumption DEF TypeOK

(* as does a race that joins a node,                                        *)
LEMMA RaceJoinCounts ==
  ASSUME TypeOK, NEW c \in Calls, RaceJoin(c), c \notin joined,
         NEW k \in Keys, key[c] = k
  PROVE  /\ waiters[k] # None /\ waiters'[k] # None
         /\ waiters'[k].workers = waiters[k].workers + 1
         /\ waiters'[k].wakers = waiters[k].wakers \cup {c}
         /\ \A q \in Keys \ {k} : waiters'[q] = waiters[q]
<1>1. waiters[k] \in Wakers /\ waiters[k] # None
  BY DEF RaceJoin, TypeOK
<1>2. waiters' = [waiters EXCEPT ![k] = JoinWorker(JoinWaiter(waiters[k], c))]
  BY DEF RaceJoin
<1>3. PICK node \in Wakers :
        /\ node = JoinWaiter(waiters[k], c)
        /\ node.workers = waiters[k].workers
        /\ node.wakers = waiters[k].wakers \cup {c}
  <2>1. JoinWaiter(waiters[k], c) \in Wakers
    BY <1>1, NodeTypes
  <2>2. JoinWaiter(waiters[k], c).workers = waiters[k].workers
    BY <1>1, NodeOps
  <2>3. JoinWaiter(waiters[k], c).wakers = waiters[k].wakers \cup {c}
    BY <1>1, NodeOps
  <2> QED
    BY <2>1, <2>2, <2>3
<1>4. JoinWorker(node) \in Wakers
  BY NodeTypes
<1>5. /\ JoinWorker(node).workers = node.workers + 1
      /\ JoinWorker(node).wakers = node.wakers
  BY <1>3, NodeOps
<1>6. waiters' = [waiters EXCEPT ![k] = JoinWorker(node)]
  BY <1>2, <1>3
<1> QED
  BY <1>1, <1>3, <1>4, <1>5, <1>6, ShardAssumption DEF TypeOK

(* and a call that is dropped takes one off it, unless it is zero.          *)
LEMMA DropCounts ==
  ASSUME TypeOK, NEW c \in Calls, DropWorker(c), NEW k \in Keys, key[c] = k
  PROVE  /\ waiters[k] = None <=> waiters'[k] = None
         /\ waiters[k] # None =>
              /\ waiters'[k].workers = IF waiters[k].workers > 0
                                       THEN waiters[k].workers - 1 ELSE 0
              /\ waiters'[k].wakers = waiters[k].wakers
         /\ \A q \in Keys \ {k} : waiters'[q] = waiters[q]
<1>1. CASE waiters[k] = None
  BY <1>1 DEF DropWorker
<1>2. CASE waiters[k] # None
  <2>1. waiters[k] \in Wakers
    BY <1>2 DEF TypeOK
  <2>2. waiters' = [waiters EXCEPT ![k] = RemoveWorker(waiters[k])]
    BY <1>2 DEF DropWorker
  <2>3. RemoveWorker(waiters[k]) \in Wakers
    BY <2>1, NodeTypes
  <2>4. /\ RemoveWorker(waiters[k]).workers = IF waiters[k].workers > 0
                                              THEN waiters[k].workers - 1 ELSE 0
        /\ RemoveWorker(waiters[k]).wakers = waiters[k].wakers
    BY <1>2, <2>1, NodeOps
  <2> QED
    BY <1>2, <2>2, <2>3, <2>4, ShardAssumption DEF TypeOK
<1> QED
  BY <1>1, <1>2

-------------------------------------------------------------------------------
(* What a step does to a key's node and to the calls it counts               *)

(* Whatever is done with the cache: only a call that made it past its first  *)
(* look at the table has joined, and only calls that a node counts are       *)
(* dropped under the mutex.                                                  *)
DropsAreCounted ==
  \A c \in Calls : /\ pc[c] = "new" => c \notin joined
                   /\ pc[c] = "dropping" => c \in CoopCalls \cup joined

(* Nothing changes but, maybe, the wakers.                                  *)
Stays(k) == Counted(k)' = Counted(k) /\ SameCount(k)

(* A call starts a node, joins one or takes one over, while there is no     *)
(* value; a race that starts one is not counted by it afterwards.           *)
Gains(k) ==
  \E c \in Calls :
    /\ table[k] = None
    /\ Counted(k)' \in {Counted(k), Counted(k) \cup {c}}
    /\ c \in CoopCalls => /\ Counted(k)' = Counted(k) \cup {c}
                          /\ waiters[k] = None \/ waiters[k].workers = 0
    /\ waiters'[k] # None
    /\ waiters'[k].workers = IF waiters[k] = None THEN 1 ELSE waiters[k].workers + 1

(* The drop of a call takes it off the node.                                *)
Loses(k) ==
  \E c \in Counted(k) :
    /\ Counted(k)' = Counted(k) \ {c}
    /\ waiters[k] = None <=> waiters'[k] = None
    /\ waiters[k] # None => waiters'[k].workers = IF waiters[k].workers > 0
                                                  THEN waiters[k].workers - 1 ELSE 0

(* init() panics, and the node keeps the count.                             *)
Forgets(k) ==
  /\ "init_panic" \in Usage
  /\ \E c \in Counted(k) : Counted(k)' = Counted(k) \ {c}
  /\ SameCount(k)

(* The call that inserted the value removes the node.                       *)
Ends(k) ==
  /\ \E c \in Calls : key[c] = k /\ pc[c] = "inserted" /\ pc'[c] \in {"dropping", "done"}
  /\ Counted(k)' = Counted(k)
  /\ waiters[k] # None /\ waiters'[k] = None

(* There is no other kind of step.                                          *)
LEMMA StepOfKey ==
  ASSUME TypeOK, DropsAreCounted, [Next]_vars, NEW k \in Keys
  PROVE  Stays(k) \/ Gains(k) \/ Loses(k) \/ Forgets(k) \/ Ends(k)
<1> DEFINE Goal == Stays(k) \/ Gains(k) \/ Loses(k) \/ Forgets(k) \/ Ends(k)
<1> SUFFICES Goal
  OBVIOUS
<1> DEFINE SameCounted == Counted(k)' = Counted(k)
<1>a. SameCounted /\ waiters'[k] = waiters[k] => Stays(k)
  BY DEF Stays, SameCount
<1> USE ShardAssumption DEF TypeOK, DropsAreCounted, Counted, Goto
<1>1. ASSUME NEW c \in CoopCalls, NEW q \in Keys, GetOrInsertCall(c, q)
      PROVE  Goal
  <2>1. SameCounted
    BY <1>1 DEF GetOrInsertCall
  <2> QED
    BY <1>1, <1>a, <2>1 DEF GetOrInsertCall
<1>2. ASSUME NEW c \in CoopCalls, PollCoop(c)
      PROVE  Goal
  <2>1. CASE WaitGot(c) \/ InitReturns(c) \/ PollWorking(c)
    <3>1. SameCounted
      BY <2>1 DEF WaitGot, InitReturns, PollWorking, BeginPoll
    <3> QED
      BY <1>a, <2>1, <3>1 DEF WaitGot, InitReturns, PollWorking, BeginPoll
  <2>2. CASE WaitPending(c)
    <3>1. SameCounted
      BY <2>2 DEF WaitPending, BeginPoll
    <3>2. key[c] \in Keys
      BY <2>2 DEF WaitPending, BeginPoll
    <3>3. SameCount(k)
      BY <2>2, <3>2, PendingNode DEF SameCount
    <3> QED
      BY <3>1, <3>3 DEF Stays
  <2>3. CASE WaitTakeOver(c)
    <3>1. /\ key[c] \in Keys /\ table[key[c]] = None
          /\ key[c] # k => SameCounted
          /\ key[c] = k => Counted(k)' = Counted(k) \cup {c}
      BY <2>3 DEF WaitTakeOver, BeginPoll
    <3> HIDE DEF Counted
    <3>2. CASE key[c] = k
      BY <2>3, <3>1, <3>2, TakeOverCounts DEF Gains
    <3>3. CASE key[c] # k
      <4>1. waiters'[k] = waiters[k]
        BY <2>3, <3>1, <3>3, TakeOverCounts
      <4> QED
        BY <1>a, <3>1, <3>3, <4>1
    <3> QED
      BY <3>2, <3>3
  <2>4. CASE WaitStart(c)
    <3>1. /\ key[c] \in Keys /\ table[key[c]] = None
          /\ key[c] # k => SameCounted
          /\ key[c] = k => Counted(k)' = Counted(k) \cup {c}
      BY <2>4 DEF WaitStart, BeginPoll
    <3>2. /\ waiters[key[c]] = None
          /\ waiters' = [waiters EXCEPT ![key[c]] = Start(c)]
      BY <2>4 DEF WaitStart
    <3> HIDE DEF Counted
    <3>3. CASE key[c] = k
      <4>1. waiters'[k] = Start(c) /\ Start(c) # None
        BY <3>2, <3>3, StartType
      <4> QED
        BY <3>1, <3>2, <3>3, <4>1, StartOps DEF Gains
    <3>4. CASE key[c] # k
      BY <1>a, <3>1, <3>2, <3>4
    <3> QED
      BY <3>3, <3>4
  <2> QED
    BY <1>2, <2>1, <2>2, <2>3, <2>4 DEF PollCoop
<1>3. ASSUME NEW c \in CoopCalls, InitPanics(c)
      PROVE  Goal
  <2>1. /\ "init_panic" \in Usage /\ waiters' = waiters
        /\ key[c] # k => SameCounted
        /\ key[c] = k => c \in Counted(k) /\ Counted(k)' = Counted(k) \ {c}
    BY <1>3 DEF InitPanics
  <2> HIDE DEF Counted
  <2> QED
    BY <1>a, <2>1 DEF Forgets, SameCount
<1>4. ASSUME NEW c \in RaceCalls, NEW q \in Keys, RaceCall(c, q)
      PROVE  Goal
  <2>1. SameCounted
    BY <1>4 DEF RaceCall
  <2> QED
    BY <1>4, <1>a, <2>1 DEF RaceCall
<1>5. ASSUME NEW c \in RaceCalls, PollRace(c)
      PROVE  Goal
  <2>1. CASE RacePoll(c) \/ RaceGot(c)
    <3>1. SameCounted
      BY <2>1 DEF RacePoll, RaceGot, DropStage
    <3> QED
      BY <1>a, <2>1, <3>1 DEF RacePoll, RaceGot
  <2>2. CASE RaceJoin(c) /\ c \in joined
    <3>1. SameCounted
      BY <2>2 DEF RaceJoin
    <3> QED
      BY <1>a, <2>2, <3>1 DEF RaceJoin
  <2>3. CASE RaceJoin(c) /\ c \notin joined
    <3>1. /\ key[c] \in Keys /\ table[key[c]] = None
          /\ c \notin CoopCalls
          /\ key[c] # k => SameCounted
          /\ key[c] = k => Counted(k)' = Counted(k) \cup {c}
      BY <2>3 DEF RaceJoin
    <3> HIDE DEF Counted
    <3>2. CASE key[c] = k
      BY <2>3, <3>1, <3>2, RaceJoinCounts DEF Gains
    <3>3. CASE key[c] # k
      <4>1. waiters'[k] = waiters[k]
        BY <2>3, <3>1, <3>3, RaceJoinCounts
      <4> QED
        BY <1>a, <3>1, <3>3, <4>1
    <3> QED
      BY <3>2, <3>3
  <2>4. CASE RaceStart(c)
    <3>1. SameCounted
      BY <2>4 DEF RaceStart
    <3>2. /\ key[c] \in Keys /\ table[key[c]] = None /\ waiters[key[c]] = None
          /\ waiters' = [waiters EXCEPT ![key[c]] = Start(c)]
          /\ c \notin CoopCalls
      BY <2>4 DEF RaceStart
    <3> HIDE DEF Counted
    <3>3. CASE key[c] = k
      <4>1. waiters'[k] = Start(c) /\ Start(c) # None
        BY <3>2, <3>3, StartType
      <4> QED
        BY <3>1, <3>2, <3>3, <4>1, StartOps DEF Gains
    <3>4. CASE key[c] # k
      BY <1>a, <3>1, <3>2, <3>4
    <3> QED
      BY <3>3, <3>4
  <2> QED
    BY <1>5, <2>1, <2>2, <2>3, <2>4 DEF PollRace
<1>6. ASSUME NEW c \in Calls, Progress(c)
      PROVE  Goal
  <2>1. CASE Got(c) \/ TakeInsert(c) \/ Fail(c) \/ CacheInsert(c) \/ Unreachable(c)
    <3>1. SameCounted
      BY <2>1 DEF Got, TakeInsert, Fail, CacheInsert, Unreachable, DropStage
    <3> QED
      BY <1>a, <2>1, <3>1 DEF Got, TakeInsert, Fail, CacheInsert, Unreachable
  <2>2. CASE Finish(c)
    <3>1. SameCounted
      BY <2>2 DEF Finish, DropStage
    <3>2. CASE key[c] = k
      BY <2>2, <3>1, <3>2 DEF Finish, DropStage, Ends
    <3>3. CASE key[c] # k
      BY <1>a, <2>2, <3>1, <3>3 DEF Finish
    <3> QED
      BY <3>2, <3>3
  <2>3. CASE DropWorker(c)
    <3>1. /\ key[c] \in Keys
          /\ key[c] # k => SameCounted
          /\ key[c] = k => c \in Counted(k) /\ Counted(k)' = Counted(k) \ {c}
      BY <2>3 DEF DropWorker
    <3> HIDE DEF Counted
    <3>2. CASE key[c] = k
      BY <2>3, <3>1, <3>2, DropCounts DEF Loses
    <3>3. CASE key[c] # k
      <4>1. waiters'[k] = waiters[k]
        BY <2>3, <3>1, <3>3, DropCounts
      <4> QED
        BY <1>a, <3>1, <3>3, <4>1
    <3> QED
      BY <3>2, <3>3
  <2> QED
    BY <1>6, <2>1, <2>2, <2>3 DEF Progress
<1>7. CASE Environment
  <2>1. ASSUME NEW q \in Keys, Insert(q) \/ Remove(q)
        PROVE  Goal
    BY <1>a, <2>1 DEF Insert, Remove
  <2>2. ASSUME NEW c \in Calls, Complete(c) \/ SpuriousWake(c) \/ Cancel(c)
        PROVE  Goal
    <3>1. SameCounted
      BY <2>2 DEF Complete, SpuriousWake, Cancel, DropStage
    <3> QED
      BY <1>a, <2>2, <3>1 DEF Complete, SpuriousWake, Cancel
  <2>3. ASSUME NEW c \in Calls, Migrate(c)
        PROVE  Goal
    <3>1. SameCounted
      BY <2>3 DEF Migrate
    <3> QED
      BY <2>3, <3>1, MigrateCounts DEF Stays
  <2> QED
    BY <1>7, <2>1, <2>2, <2>3 DEF Environment
<1>8. CASE UNCHANGED vars
  BY <1>a, <1>8 DEF vars
<1> QED
  BY <1>1, <1>2, <1>3, <1>4, <1>5, <1>6, <1>7, <1>8
     DEF Next, CoopNext, RaceNext

(* DropsAreCounted holds, whatever is done with the cache.                  *)
LEMMA DropsStep == TypeOK /\ DropsAreCounted /\ [Next]_vars => DropsAreCounted'
<1> SUFFICES ASSUME TypeOK, DropsAreCounted, [Next]_vars
             PROVE  DropsAreCounted'
  OBVIOUS
<1> USE ShardAssumption DEF TypeOK, DropsAreCounted, Goto, DropStage
<1>1. ASSUME NEW c \in CoopCalls, PollCoop(c) \/ InitPanics(c)
      PROVE  DropsAreCounted'
  BY <1>1 DEF PollCoop, WaitGot, WaitPending, WaitTakeOver, WaitStart, InitReturns,
              PollWorking, BeginPoll, InitPanics
<1>2. ASSUME NEW c \in RaceCalls, PollRace(c)
      PROVE  DropsAreCounted'
  BY <1>2 DEF PollRace, RacePoll, RaceGot, RaceJoin, RaceStart
<1>3. ASSUME NEW c \in Calls, NEW k \in Keys, GetOrInsertCall(c, k) \/ RaceCall(c, k)
      PROVE  DropsAreCounted'
  BY <1>3 DEF GetOrInsertCall, RaceCall
<1>4. ASSUME NEW c \in Calls, Progress(c)
      PROVE  DropsAreCounted'
  BY <1>4 DEF Progress, Got, TakeInsert, Fail, CacheInsert, Finish, Unreachable, DropWorker
<1>5. CASE Environment
  <2>1. ASSUME NEW k \in Keys, Insert(k) \/ Remove(k)
        PROVE  DropsAreCounted'
    BY <2>1 DEF Insert, Remove
  <2>2. ASSUME NEW c \in Calls, Complete(c) \/ SpuriousWake(c) \/ Cancel(c)
        PROVE  DropsAreCounted'
    BY <2>2 DEF Complete, SpuriousWake, Cancel
  <2>3. ASSUME NEW c \in Calls, Migrate(c)
        PROVE  DropsAreCounted'
    BY <2>3 DEF Migrate
  <2> QED
    BY <1>5, <2>1, <2>2, <2>3 DEF Environment
<1>6. CASE UNCHANGED vars
  BY <1>6 DEF vars
<1> QED
  BY <1>1, <1>2, <1>3, <1>4, <1>5, <1>6 DEF Next, CoopNext, RaceNext

(* Who gets to hold the mutex was ready and found no value, and goes on to   *)
(* write it.                                                                 *)
LEMMA HolderStep ==
  ASSUME TypeOK, [Next]_vars, NEW c \in Calls, pc'[c] \in Holding
  PROVE  /\ key'[c] = key[c] /\ pc[c] # "new"
         /\ c \in joined' => c \in joined
         /\ pc[c] \in Holding \/ (pc[c] = "ready" /\ table[key[c]] = None)
         /\ pc'[c] = "inserted" => pc[c] = "inserted" \/ CacheInsert(c)
<1> DEFINE Goal == /\ key'[c] = key[c] /\ pc[c] # "new"
                   /\ c \in joined' => c \in joined
                   /\ pc[c] \in Holding \/ (pc[c] = "ready" /\ table[key[c]] = None)
                   /\ pc'[c] = "inserted" => pc[c] = "inserted" \/ CacheInsert(c)
<1> SUFFICES Goal
  OBVIOUS
<1> USE ShardAssumption DEF TypeOK, Goto, Holding, DropStage
<1>1. ASSUME NEW d \in CoopCalls, PollCoop(d) \/ InitPanics(d)
      PROVE  Goal
  BY <1>1 DEF PollCoop, WaitGot, WaitPending, WaitTakeOver, WaitStart, InitReturns,
              PollWorking, BeginPoll, InitPanics
<1>2. ASSUME NEW d \in RaceCalls, PollRace(d)
      PROVE  Goal
  BY <1>2 DEF PollRace, RacePoll, RaceGot, RaceJoin, RaceStart
<1>3. ASSUME NEW d \in Calls, NEW k \in Keys, GetOrInsertCall(d, k) \/ RaceCall(d, k)
      PROVE  Goal
  BY <1>3 DEF GetOrInsertCall, RaceCall
<1>4. ASSUME NEW d \in Calls, Progress(d)
      PROVE  Goal
  <2>1. CASE Got(d) \/ TakeInsert(d) \/ Fail(d) \/ Unreachable(d)
    BY <2>1 DEF Got, TakeInsert, Fail, Unreachable
  <2>2. CASE CacheInsert(d)
    <3>1. pc[c] \in Holding /\ (pc'[c] = "inserted" => pc[c] = "inserted" \/ d = c)
      BY <2>2 DEF CacheInsert
    <3>2. UNCHANGED <<key, joined>>
      BY <2>2 DEF CacheInsert
    <3> QED
      BY <2>2, <3>1, <3>2
  <2>3. CASE Finish(d) \/ DropWorker(d)
    BY <2>3 DEF Finish, DropWorker
  <2> QED
    BY <1>4, <2>1, <2>2, <2>3 DEF Progress
<1>5. CASE Environment
  <2>1. ASSUME NEW k \in Keys, Insert(k) \/ Remove(k)
        PROVE  Goal
    BY <2>1 DEF Insert, Remove
  <2>2. ASSUME NEW d \in Calls, Complete(d) \/ SpuriousWake(d) \/ Cancel(d)
        PROVE  Goal
    BY <2>2 DEF Complete, SpuriousWake, Cancel
  <2>3. ASSUME NEW d \in Calls, Migrate(d)
        PROVE  Goal
    BY <2>3 DEF Migrate
  <2> QED
    BY <1>5, <2>1, <2>2, <2>3 DEF Environment
<1>6. CASE UNCHANGED vars
  BY <1>6 DEF vars
<1> QED
  BY <1>1, <1>2, <1>3, <1>4, <1>5, <1>6 DEF Next, CoopNext, RaceNext

-------------------------------------------------------------------------------
(* The worker count                                                          *)

(* A node counts the calls that it should, perhaps more; there are such      *)
(* calls only while there is a node or a value; whoever was counted finds    *)
(* the node when it inserts; and only one of them is cooperative.            *)
CountInv(k) ==
  /\ waiters[k] # None => /\ IsFiniteSet(Counted(k))
                          /\ Cardinality(Counted(k)) <= waiters[k].workers
  /\ waiters[k] = None /\ table[k] = None => Counted(k) = {}
  /\ \A c \in Counted(k) : pc[c] \in Holding => waiters[k] # None
  /\ \A c \in Calls : key[c] = k /\ pc[c] = "inserted" => table[k] # None
  /\ \A c, d \in Counted(k) \cap CoopCalls : c = d

(* As long as its value stays when there is one, every step keeps the        *)
(* CountInv of a key.                                                        *)
LEMMA CountStep ==
  ASSUME MutexInv, DropsAreCounted, [Next]_vars, NEW k \in Keys,
         table[k] # None => table'[k] # None,
         CountInv(k)
  PROVE  CountInv(k)'
<1> USE ShardAssumption
<1>1. TypeOK /\ TypeOK'
  BY TypeStep DEF MutexInv
<1>2. waiters[k] # None => waiters[k].workers \in Nat
  BY <1>1 DEF TypeOK, Wakers
<1>3. Cardinality(Counted(k)) \in Nat \/ waiters[k] = None
  BY FS_CardinalityType DEF CountInv
<1>4. /\ waiters'[k] # None => /\ IsFiniteSet(Counted(k)')
                               /\ Cardinality(Counted(k)') <= waiters'[k].workers
      /\ waiters'[k] = None /\ table'[k] = None => Counted(k)' = {}
      /\ \A c, d \in Counted(k)' \cap CoopCalls : c = d
  <2>1. CASE Stays(k)
    BY <2>1 DEF Stays, SameCount, CountInv
  <2>2. CASE Gains(k)
    <3>1. PICK c \in Calls :
            /\ table[k] = None
            /\ Counted(k)' \in {Counted(k), Counted(k) \cup {c}}
            /\ c \in CoopCalls => /\ Counted(k)' = Counted(k) \cup {c}
                                  /\ waiters[k] = None \/ waiters[k].workers = 0
            /\ waiters'[k] # None
            /\ waiters'[k].workers = IF waiters[k] = None THEN 1 ELSE waiters[k].workers + 1
      BY <2>2 DEF Gains
    <3>2. /\ IsFiniteSet(Counted(k)) /\ Cardinality(Counted(k)) \in Nat
          /\ waiters[k] = None => Counted(k) = {}
          /\ waiters[k] # None => Cardinality(Counted(k)) <= waiters[k].workers
      <4>1. CASE waiters[k] = None
        BY <3>1, <4>1, FS_EmptySet DEF CountInv
      <4>2. CASE waiters[k] # None
        BY <4>2, FS_CardinalityType DEF CountInv
      <4> QED
        BY <4>1, <4>2
    <3>3. /\ IsFiniteSet(Counted(k)')
          /\ Cardinality(Counted(k)') <= Cardinality(Counted(k)) + 1
      <4> DEFINE S == Counted(k)
      <4>1. /\ IsFiniteSet(S \cup {c})
            /\ Cardinality(S \cup {c}) = IF c \in S THEN Cardinality(S) ELSE Cardinality(S) + 1
        BY <3>2, FS_AddElement
      <4>2. Counted(k)' = S \/ Counted(k)' = S \cup {c}
        BY <3>1
      <4>3. IsFiniteSet(S) /\ Cardinality(S) \in Nat
        BY <3>2
      <4> HIDE DEF S
      <4>4. /\ IsFiniteSet(Counted(k)')
            /\ Cardinality(Counted(k)') <= Cardinality(S) + 1
        BY <4>1, <4>2, <4>3
      <4> QED
        BY <4>4 DEF S
    <3>4. Cardinality(Counted(k)') <= waiters'[k].workers
      <4>1. CASE waiters[k] = None
        BY <3>1, <3>2, <3>3, <4>1, FS_EmptySet, FS_CardinalityType
      <4>2. CASE waiters[k] # None
        BY <1>2, <3>1, <3>2, <3>3, <4>2, FS_CardinalityType
      <4> QED
        BY <4>1, <4>2
    <3>5. c \in CoopCalls => Counted(k) = {}
      <4>1. CASE waiters[k] = None
        BY <3>2, <4>1
      <4>2. CASE c \in CoopCalls /\ waiters[k] # None
        <5>1. Cardinality(Counted(k)) = 0
          BY <3>1, <3>2, <4>2
        <5> QED
          BY <3>2, <5>1, FS_EmptySet
      <4> QED
        BY <4>1, <4>2
    <3> QED
      BY <3>1, <3>3, <3>4, <3>5 DEF CountInv
  <2>3. CASE Loses(k)
    <3>1. PICK c \in Counted(k) :
            /\ Counted(k)' = Counted(k) \ {c}
            /\ waiters[k] = None <=> waiters'[k] = None
            /\ waiters[k] # None => waiters'[k].workers = IF waiters[k].workers > 0
                                                          THEN waiters[k].workers - 1 ELSE 0
      BY <2>3 DEF Loses
    <3>2. waiters'[k] # None => /\ IsFiniteSet(Counted(k)')
                                /\ Cardinality(Counted(k)') = Cardinality(Counted(k)) - 1
      BY <3>1, FS_RemoveElement DEF CountInv
    <3>3. waiters'[k] # None => Cardinality(Counted(k)') <= waiters'[k].workers
      BY <1>2, <1>3, <3>1, <3>2, FS_CardinalityType DEF CountInv
    <3> QED
      BY <3>1, <3>2, <3>3 DEF CountInv
  <2>4. CASE Forgets(k)
    <3>1. PICK c \in Counted(k) : Counted(k)' = Counted(k) \ {c}
      BY <2>4 DEF Forgets
    <3>2. SameCount(k)
      BY <2>4 DEF Forgets
    <3>3. waiters'[k] # None => /\ IsFiniteSet(Counted(k)')
                                /\ Cardinality(Counted(k)') = Cardinality(Counted(k)) - 1
      BY <3>1, <3>2, FS_RemoveElement DEF CountInv, SameCount
    <3>4. waiters'[k] # None => Cardinality(Counted(k)') <= waiters'[k].workers
      BY <1>2, <1>3, <3>2, <3>3 DEF CountInv, SameCount
    <3> QED
      BY <3>1, <3>2, <3>3, <3>4 DEF CountInv, SameCount
  <2>5. CASE Ends(k)
    <3>1. table[k] # None /\ waiters'[k] = None /\ Counted(k)' = Counted(k)
      BY <2>5 DEF Ends, CountInv
    <3> QED
      BY <3>1 DEF CountInv
  <2> QED
    BY <1>1, <2>1, <2>2, <2>3, <2>4, <2>5, StepOfKey
<1>5. \A c \in Calls : key'[c] = k /\ pc'[c] = "inserted" => table'[k] # None
  <2>1. \A c \in Calls : pc'[c] = "inserted" =>
          key'[c] = key[c] /\ (pc[c] = "inserted" \/ CacheInsert(c))
    BY <1>1, HolderStep DEF Holding
  <2> QED
    BY <1>1, <2>1 DEF CountInv, CacheInsert, TypeOK
<1>6. \A c \in Counted(k)' : pc'[c] \in Holding => waiters'[k] # None
  <2> SUFFICES ASSUME NEW c \in Counted(k)', pc'[c] \in Holding
               PROVE  waiters'[k] # None
    OBVIOUS
  <2>1. c \in Counted(k) /\ (pc[c] \in Holding \/ table[k] = None)
    <3>1. c \in Calls /\ c \in CoopCalls \cup joined' /\ key'[c] = k
      BY <1>1 DEF Counted, TypeOK
    <3> QED
      BY <1>1, <3>1, HolderStep DEF Counted, Holding
  <2>2. waiters[k] # None
    BY <2>1 DEF CountInv
  <2>3. ~Ends(k)
    BY <1>1, <2>1 DEF Ends, CountInv, MutexInv, OneInserter, Holding, Counted, TypeOK
  <2> QED
    BY <1>1, <2>2, <2>3, StepOfKey DEF Stays, SameCount, Gains, Loses, Forgets
<1> QED
  BY <1>4, <1>5, <1>6 DEF CountInv, Counted

(* As long as nothing is removed, a value of a key stays.                    *)
LEMMA ValueStays ==
  ASSUME "remove" \notin Usage, MutexInv, [Next]_vars, NEW k \in Keys
  PROVE  table[k] # None => table'[k] # None
<1>1. ASSUME NEW c \in Calls, CacheInsert(c)
      PROVE  table[k] # None => table'[k] # None
  BY <1>1, ShardAssumption DEF CacheInsert, MutexInv, TypeOK
<1> QED
  BY <1>1, OnlyCacheInsertShowsValues DEF ShowsNothingNew

(* The invariant of a map from which nothing is removed.                     *)
KeptInv ==
  /\ MutexInv
  /\ DropsAreCounted
  /\ \A k \in Keys : CountInv(k)

(* It holds at the start, for a key without calls,                          *)
LEMMA CountInit == Init => DropsAreCounted /\ \A k \in Keys : CountInv(k)
<1> SUFFICES ASSUME Init
             PROVE  DropsAreCounted /\ \A k \in Keys : CountInv(k)
  OBVIOUS
<1>1. \A k \in Keys : waiters[k] = None /\ Counted(k) = {}
  BY ShardAssumption DEF Init, Counted
<1> QED
  BY <1>1 DEF Init, DropsAreCounted, CountInv

(* and in every state.                                                       *)
LEMMA KeptInvariant ==
  ASSUME "remove" \notin Usage
  PROVE  Spec => []KeptInv
<1>1. Init => KeptInv
  BY MutexInit, CountInit DEF KeptInv
<1>2. KeptInv /\ [Next]_vars => KeptInv'
  <2> SUFFICES ASSUME KeptInv, [Next]_vars
               PROVE  KeptInv'
    OBVIOUS
  <2>1. \A k \in Keys : CountInv(k)'
    BY CountStep, ValueStays DEF KeptInv
  <2> QED
    BY <2>1, MutexStep, DropsStep DEF KeptInv, MutexInv
<1> QED
  BY <1>1, <1>2, PTL DEF Spec

(* Nothing removed: the value of a key is computed by one cooperative call  *)
(* at a time, however the calls are cancelled, moved to other tasks, fail or *)
(* panic, whatever is inserted meanwhile and however many calls race.        *)
THEOREM OneWorkerAtATime ==
  ASSUME "remove" \notin Usage
  PROVE  Spec => []SingleWorker
<1>1. KeptInv => SingleWorker
  BY DEF KeptInv, CountInv, SingleWorker, Computing
<1> QED
  BY <1>1, KeptInvariant, PTL

(* waker_node.rs:28.  Under the same condition a node counts every call that *)
(* will take one off its count, so that the count is never too low.          *)
THEOREM CountIsEnough ==
  ASSUME "remove" \notin Usage
  PROVE  Spec => []NoneUncounted
<1>1. KeptInv => NoneUncounted
  BY DEF KeptInv, CountInv, NoneUncounted
<1> QED
  BY <1>1, KeptInvariant, PTL

(* Under the same condition a cooperative call, or a race that joined, finds *)
(* the node when it has inserted: it does not reach unreachable!().          *)
THEOREM CountedNodeIsFound ==
  ASSUME "remove" \notin Usage
  PROVE  Spec => []CountedFindNode
<1>1. KeptInv => CountedFindNode
  BY ShardAssumption
     DEF KeptInv, MutexInv, TypeOK, CountInv, CountedFindNode, Counted, Holding
<1> QED
  BY <1>1, KeptInvariant, PTL

(* So without racing calls the unreachable!() of get_or_insert.rs is not     *)
(* reached at all.                                                           *)
THEOREM NodeIsFound ==
  ASSUME RaceCalls = {}, "remove" \notin Usage
  PROVE  Spec => []NoUnreachable
<1>1. CountedFindNode => NoUnreachable
  BY ShardAssumption DEF CountedFindNode, NoUnreachable
<1> QED
  BY <1>1, CountedNodeIsFound, PTL

-------------------------------------------------------------------------------
(* Waiting                                                                   *)

(* A waiter of the key that joined is on the wakers of its node, or the node *)
(* is gone for good because the value is there; and the waiters that nobody  *)
(* is going to poll are on a node with a worker.                             *)
ParkedInv(k) ==
  \A c \in Calls : key[c] = k /\ pc[c] = "waiting" =>
    /\ c \in joined =>
         \/ waiters[k] # None /\ c \in waiters[k].wakers
         \/ waiters[k] = None /\ table[k] # None
    /\ c \notin notified =>
         /\ waiters[k] # None
         /\ c \in waiters[k].wakers
         /\ waiters[k].workers > 0

(* Every step keeps ParkedInv of a key whose value stays: a call whose node  *)
(* goes, or loses its worker, is woken, and a call is put on every node it   *)
(* waits for.                                                                *)
LEMMA ParkedStep ==
  ASSUME "migrate" \notin Usage, TypeOK, DropsAreCounted, [Next]_vars,
         NEW k \in Keys, table[k] # None => table'[k] # None,
         \A c \in Calls : key[c] = k /\ pc[c] = "inserted" => table[k] # None,
         ParkedInv(k)
  PROVE  ParkedInv(k)'
<1> USE ShardAssumption
    DEF TypeOK, DropsAreCounted, ParkedInv, Goto, Wake, Pollable, Values
<1>1. ASSUME NEW c \in CoopCalls, NEW q \in Keys, GetOrInsertCall(c, q)
      PROVE  ParkedInv(k)'
  BY <1>1 DEF GetOrInsertCall
<1>2. ASSUME NEW c \in CoopCalls, PollCoop(c)
      PROVE  ParkedInv(k)'
  <2>1. CASE WaitGot(c)
    BY <2>1 DEF WaitGot, BeginPoll
  <2>2. CASE WaitPending(c)
    <3> PICK q \in Keys : q = key[c]
      BY <2>2 DEF WaitPending, BeginPoll
    <3>1. /\ waiters[q] # None /\ waiters'[q] # None
          /\ waiters[q].workers > 0 /\ waiters'[q].workers = waiters[q].workers
          /\ waiters'[q].wakers = waiters[q].wakers \cup ({c} \ joined)
          /\ \A r \in Keys \ {q} : waiters'[r] = waiters[r]
      BY <2>2, PendingNode
    <3>2. /\ table' = table /\ key' = key /\ pc' = pc /\ pc[c] = "waiting"
          /\ notified' = notified \ {c} /\ joined' = joined \cup {c}
      BY <2>2 DEF WaitPending, BeginPoll
    <3> QED
      BY <3>1, <3>2
  <2>3. CASE WaitTakeOver(c)
    <3> PICK q \in Keys : q = key[c]
      BY <2>3 DEF WaitTakeOver, BeginPoll
    <3>1. /\ waiters[q] # None /\ waiters[q].workers = 0 /\ waiters'[q] # None
          /\ waiters'[q].workers = 1
          /\ waiters'[q].wakers = waiters[q].wakers \cup ({c} \ joined)
          /\ \A r \in Keys \ {q} : waiters'[r] = waiters[r]
      BY <2>3, TakeOverCounts
    <3>2. /\ table' = table /\ key' = key /\ pc' = [pc EXCEPT ![c] = "starting"]
          /\ notified' = notified \ {c} /\ joined' = joined \cup {c}
      BY <2>3 DEF WaitTakeOver, BeginPoll
    <3> QED
      BY <3>1, <3>2
  <2>4. CASE WaitStart(c)
    BY <2>4 DEF WaitStart, BeginPoll
  <2>5. CASE InitReturns(c)
    BY <2>5 DEF InitReturns
  <2>6. CASE PollWorking(c)
    BY <2>6 DEF PollWorking
  <2> QED
    BY <1>2, <2>1, <2>2, <2>3, <2>4, <2>5, <2>6 DEF PollCoop
<1>3. ASSUME NEW c \in CoopCalls, InitPanics(c)
      PROVE  ParkedInv(k)'
  BY <1>3 DEF InitPanics
<1>4. ASSUME NEW c \in RaceCalls, NEW q \in Keys, RaceCall(c, q)
      PROVE  ParkedInv(k)'
  BY <1>4 DEF RaceCall
<1>5. ASSUME NEW c \in RaceCalls, PollRace(c)
      PROVE  ParkedInv(k)'
  <2>1. CASE RacePoll(c)
    BY <2>1 DEF RacePoll
  <2>2. CASE RaceGot(c)
    BY <2>2 DEF RaceGot, DropStage
  <2>3. CASE RaceJoin(c) /\ c \in joined
    BY <2>3 DEF RaceJoin
  <2>4. CASE RaceJoin(c) /\ c \notin joined
    <3> PICK q \in Keys : q = key[c]
      BY <2>4 DEF RaceJoin
    <3>1. /\ waiters[q] # None /\ waiters'[q] # None
          /\ waiters'[q].workers = waiters[q].workers + 1
          /\ waiters'[q].wakers = waiters[q].wakers \cup {c}
          /\ \A r \in Keys \ {q} : waiters'[r] = waiters[r]
      BY <2>4, RaceJoinCounts
    <3>2. /\ table' = table /\ key' = key /\ pc' = [pc EXCEPT ![c] = "racing"]
          /\ notified' = notified /\ joined' = joined \cup {c}
      BY <2>4 DEF RaceJoin
    <3>3. waiters[q].workers \in Nat
      BY <3>1 DEF Wakers
    <3> QED
      BY <3>1, <3>2, <3>3
  <2>5. CASE RaceStart(c)
    BY <2>5 DEF RaceStart
  <2> QED
    BY <1>5, <2>1, <2>2, <2>3, <2>4, <2>5 DEF PollRace
<1>6. ASSUME NEW c \in Calls, Progress(c)
      PROVE  ParkedInv(k)'
  <2>1. CASE Got(c) \/ TakeInsert(c) \/ Fail(c) \/ Unreachable(c)
    BY <2>1 DEF Got, TakeInsert, Fail, Unreachable, DropStage
  <2>2. CASE CacheInsert(c)
    BY <2>2 DEF CacheInsert
  <2>3. CASE Finish(c)
    <3> PICK q \in Keys : q = key[c]
      BY <2>3 DEF Finish, DropStage
    <3>1. /\ waiters[q] # None /\ waiters'[q] = None /\ (q = k => table[q] # None)
          /\ \A r \in Keys \ {q} : waiters'[r] = waiters[r]
      BY <2>3 DEF Finish
    <3>2. /\ table' = table /\ key' = key /\ pc' = [pc EXCEPT ![c] = DropStage(c)]
          /\ joined' = joined
          /\ \A d \in waiters[q].wakers : pc[d] = "waiting" => d \in notified'
          /\ notified \subseteq notified'
      BY <2>3 DEF Finish
    <3>3. DropStage(c) # "waiting"
      BY DEF DropStage
    <3> QED
      BY <3>1, <3>2, <3>3
  <2>4. CASE DropWorker(c)
    <3> PICK q \in Keys : q = key[c]
      BY <2>4 DEF DropWorker
    <3>1. /\ waiters[q] = None <=> waiters'[q] = None
          /\ waiters[q] # None => waiters'[q].wakers = waiters[q].wakers
          /\ \A r \in Keys \ {q} : waiters'[r] = waiters[r]
      BY <2>4, DropCounts
    <3>2. /\ table' = table /\ key' = key /\ pc' = [pc EXCEPT ![c] = "done"]
          /\ joined' = joined
      BY <2>4 DEF DropWorker
    <3>3. /\ waiters[q] # None =>
               \A d \in Calls : d \in waiters[q].wakers /\ pc[d] = "waiting"
                                  => d \in notified'
          /\ notified \subseteq notified'
      BY <2>4 DEF DropWorker
    <3> QED
      BY <3>1, <3>2, <3>3
  <2> QED
    BY <1>6, <2>1, <2>2, <2>3, <2>4 DEF Progress
<1>7. CASE Environment
  <2>1. ASSUME NEW q \in Keys, Insert(q) \/ Remove(q)
        PROVE  ParkedInv(k)'
    BY <2>1 DEF Insert, Remove
  <2>2. ASSUME NEW c \in Calls, Complete(c) \/ SpuriousWake(c)
        PROVE  ParkedInv(k)'
    BY <2>2 DEF Complete, SpuriousWake
  <2>3. ASSUME NEW c \in Calls, Cancel(c)
        PROVE  ParkedInv(k)'
    BY <2>3 DEF Cancel, DropStage
  <2> QED
    BY <1>7, <2>1, <2>2, <2>3 DEF Environment, Migrate
<1>8. CASE UNCHANGED vars
  BY <1>8 DEF vars
<1> QED
  BY <1>1, <1>2, <1>3, <1>4, <1>5, <1>6, <1>7, <1>8
     DEF Next, CoopNext, RaceNext

(* Nothing is removed and no future changes its task: a waiter that nothing *)
(* is going to poll is registered with a node that has a worker, however     *)
(* many calls race: no wake is lost.                                         *)
THEOREM NoLostWake ==
  ASSUME "remove" \notin Usage, "migrate" \notin Usage
  PROVE  Spec => []ParkedIsRegistered
<1> DEFINE Parked == \A k \in Keys : ParkedInv(k)
<1>1. Init => Parked
  BY DEF Init, ParkedInv
<1>2. KeptInv /\ Parked /\ [Next]_vars => Parked'
  <2> SUFFICES ASSUME KeptInv, Parked, [Next]_vars, NEW k \in Keys
               PROVE  ParkedInv(k)'
    OBVIOUS
  <2>1. /\ TypeOK /\ DropsAreCounted
        /\ \A c \in Calls : key[c] = k /\ pc[c] = "inserted" => table[k] # None
    BY DEF KeptInv, MutexInv, CountInv
  <2>2. table[k] # None => table'[k] # None
    BY ValueStays DEF KeptInv
  <2> QED
    BY <2>1, <2>2, ParkedStep
<1>3. KeptInv /\ Parked => ParkedIsRegistered
  BY DEF KeptInv, MutexInv, TypeOK, ParkedInv, ParkedIsRegistered
<1> HIDE DEF Parked
<1> QED
  BY <1>1, <1>2, <1>3, KeptInvariant, PTL DEF Spec

-------------------------------------------------------------------------------
(* Workers                                                                   *)

(* Without races, a key's node counts one worker at most, and it is there.   *)
RealInv(k) ==
  waiters[k] # None => /\ waiters[k].workers <= 1
                       /\ waiters[k].workers > 0 => Counted(k) # {}

(* Every step keeps RealInv: whoever was counted stays counted until it      *)
(* takes the node or its count away.  A removal changes neither.             *)
LEMMA RealStep ==
  ASSUME RaceCalls = {}, "init_panic" \notin Usage,
         TypeOK, DropsAreCounted, [Next]_vars, NEW k \in Keys, RealInv(k)
  PROVE  RealInv(k)'
<1> USE ShardAssumption
<1>1. waiters[k] # None => waiters[k].workers \in Nat
  BY DEF TypeOK, Wakers
<1>2. CASE Stays(k)
  BY <1>2 DEF Stays, SameCount, RealInv
<1>3. CASE Gains(k)
  <2>1. PICK c \in Calls :
          /\ Counted(k)' = Counted(k) \cup {c}
          /\ waiters[k] = None \/ waiters[k].workers = 0
          /\ waiters'[k].workers = IF waiters[k] = None THEN 1 ELSE waiters[k].workers + 1
    BY <1>3 DEF Gains
  <2>2. waiters'[k].workers = 1 /\ Counted(k)' # {}
    BY <2>1
  <2> QED
    BY <2>2 DEF RealInv
<1>4. CASE Loses(k)
  BY <1>1, <1>4 DEF Loses, RealInv
<1>5. CASE Ends(k)
  BY <1>5 DEF Ends, RealInv
<1> QED
  BY <1>2, <1>3, <1>4, <1>5, StepOfKey DEF Forgets

(* Nothing but get_or_insert, and no init closure that panics: a node counts *)
(* a worker only while there is one whose end will be noticed by those who   *)
(* wait, also when workers are cancelled or fail and when keys are removed.  *)
THEOREM WorkersAreReal ==
  ASSUME RaceCalls = {}, "init_panic" \notin Usage
  PROVE  Spec => []NoPhantomWorker
<1> DEFINE Real == DropsAreCounted /\ \A k \in Keys : RealInv(k)
<1>1. Init => Real
  BY CountInit DEF Init, RealInv
<1>2. TypeOK /\ Real /\ [Next]_vars => Real'
  BY RealStep, DropsStep
<1>3. TypeOK /\ Real => NoPhantomWorker
  BY DEF RealInv, NoPhantomWorker
<1> HIDE DEF Real
<1> QED
  BY <1>1, <1>2, <1>3, TypeCorrect, PTL DEF Spec

-------------------------------------------------------------------------------
(* Refinement of SingleFlight                                                *)

(* The table, the calls in flight and the presence of nodes stay as they are.*)
NoFlightStep ==
  /\ table' = table
  /\ \A k \in Keys : /\ Flying(k)' = Flying(k)
                     /\ waiters[k] = None <=> waiters'[k] = None

(* Then so do the flights;                                                  *)
LEMMA SameFlights == NoFlightStep => UNCHANGED <<table, Flight>>
  BY DEF NoFlightStep, Flight

(* a step that changes them for one key changes the flight of that key.     *)
LEMMA OneFlight ==
  ASSUME NEW k \in Keys,
         \A q \in Keys \ {k} : /\ Flying(q)' = Flying(q)
                               /\ waiters[q] = None <=> waiters'[q] = None
  PROVE  /\ Flight' = [Flight EXCEPT ![k] = Flight'[k]]
         /\ Flight'[k] = Flight[k] => Flight' = Flight
<1>1. Flight = [q \in Keys |-> Flight[q]] /\ Flight' = [q \in Keys |-> Flight'[q]]
  BY DEF Flight
<1>2. \A q \in Keys \ {k} : Flight'[q] = Flight[q]
  BY DEF Flight
<1> HIDE DEF Flight
<1>3. Flight' = [Flight EXCEPT ![k] = Flight'[k]]
  BY <1>1, <1>2
<1>4. Flight'[k] = Flight[k] => Flight' = Flight
  BY <1>1, <1>2
<1> QED BY <1>3, <1>4

(* The flight of a key, before a step and after it, by its calls in flight. *)
LEMMA FlightOf ==
  ASSUME NEW k \in Keys
  PROVE  /\ waiters[k] = None \/ Flying(k) = {} => Flight[k] = None
         /\ \A c : waiters[k] # None /\ Flying(k) = {c} => Flight[k] = c
         /\ waiters'[k] = None \/ Flying(k)' = {} => Flight'[k] = None
         /\ \A c : waiters'[k] # None /\ Flying(k)' = {c} => Flight'[k] = c
<1>1. \A c : Member({c}) = c
  BY DEF Member
<1> QED
  BY <1>1 DEF Flight

(* A key without a flight gets one, its only call that is counted:           *)
LEMMA Departs ==
  ASSUME NEW k \in Keys, NEW c \in Calls, table[k] = None, table' = table,
         \A q \in Keys \ {k} : /\ Flying(q)' = Flying(q)
                               /\ waiters[q] = None <=> waiters'[q] = None,
         Flying(k) = {}, waiters'[k] # None, Flying(k)' = {c}
  PROVE  SF!SingleFlightNext
<1>1. Flight' = [Flight EXCEPT ![k] = Flight'[k]]
  BY OneFlight
<1>2. Flight[k] = None /\ Flight'[k] = c
  BY FlightOf
<1>3. SF!Depart(k, c)
  BY <1>1, <1>2 DEF SF!Depart
<1> QED
  BY <1>3 DEF SF!SingleFlightNext

(* a key that loses its node or its calls in flight has no flight after it.  *)
LEMMA Lands ==
  ASSUME NEW k \in Keys, table' = table,
         \A q \in Keys \ {k} : /\ Flying(q)' = Flying(q)
                               /\ waiters[q] = None <=> waiters'[q] = None,
         waiters'[k] = None \/ Flying(k)' = {}
  PROVE  UNCHANGED <<table, Flight>> \/ SF!SingleFlightNext
<1>1. /\ Flight' = [Flight EXCEPT ![k] = Flight'[k]]
      /\ Flight'[k] = Flight[k] => Flight' = Flight
  BY OneFlight
<1>2. Flight'[k] = None
  BY FlightOf
<1>3. CASE Flight[k] = None
  BY <1>1, <1>2, <1>3
<1>4. CASE Flight[k] # None
  <2>1. SF!Land(k)
    BY <1>1, <1>2, <1>4 DEF SF!Land
  <2> QED
    BY <2>1 DEF SF!SingleFlightNext
<1> QED
  BY <1>3, <1>4

(* Every step of the cooperative futures is a step of a flight, or none.    *)
LEMMA FlightRefines ==
  ASSUME RaceCalls = {}, "remove" \notin Usage, KeptInv, [Next]_vars
  PROVE  [SF!SingleFlightNext]_<<table, Flight>>
<1> DEFINE Goal == \/ NoFlightStep
                   \/ UNCHANGED <<table, Flight>>
                   \/ SF!SingleFlightNext
<1> SUFFICES Goal
  BY SameFlights
<1> USE ShardAssumption
<1>a. TypeOK /\ DropsAreCounted /\ InsertsOverNoComputed
  BY DEF KeptInv, MutexInv
<1>b. \A k \in Keys : \A c, d \in Counted(k) : c = d
  <2>1. \A k \in Keys : Counted(k) \subseteq CoopCalls
    BY <1>a DEF TypeOK, Counted
  <2> QED
    BY <2>1 DEF KeptInv, CountInv
<1>c. \A k \in Keys :
        /\ waiters[k] = None /\ table[k] = None => Counted(k) = {}
        /\ waiters[k] # None /\ waiters[k].workers = 0 => Counted(k) = {}
        /\ \A c \in Counted(k) : pc[c] \in Holding => waiters[k] # None
  <2> SUFFICES ASSUME NEW k \in Keys
               PROVE  /\ waiters[k] = None /\ table[k] = None => Counted(k) = {}
                      /\ waiters[k] # None /\ waiters[k].workers = 0 => Counted(k) = {}
                      /\ \A c \in Counted(k) : pc[c] \in Holding => waiters[k] # None
    OBVIOUS
  <2>1. CountInv(k)
    BY DEF KeptInv
  <2>2. waiters[k] # None /\ waiters[k].workers = 0 => Counted(k) = {}
    BY <2>1, FS_EmptySet, FS_CardinalityType DEF CountInv
  <2> QED
    BY <2>1, <2>2 DEF CountInv
<1> USE <1>a DEF TypeOK, DropsAreCounted, Goto, Values, NoFlightStep, Flying
<1>1. ASSUME NEW c \in CoopCalls, NEW k \in Keys, GetOrInsertCall(c, k)
      PROVE  Goal
  BY <1>1 DEF GetOrInsertCall, Counted
<1>2. ASSUME NEW c \in CoopCalls, PollCoop(c)
      PROVE  Goal
  <2>1. CASE WaitGot(c) \/ InitReturns(c) \/ PollWorking(c)
    BY <2>1 DEF WaitGot, BeginPoll, InitReturns, PollWorking, Counted
  <2>2. CASE WaitPending(c)
    <3>1. \A k \in Keys : waiters[k] = None <=> waiters'[k] = None
      <4>1. key[c] \in Keys
        BY <2>2 DEF WaitPending, BeginPoll
      <4> QED
        BY <2>2, <4>1, PendingNode
    <3>2. \A k \in Keys : Flying(k)' = Flying(k)
      BY <2>2 DEF WaitPending, BeginPoll, Counted
    <3>3. table' = table
      BY <2>2 DEF WaitPending, BeginPoll
    <3> QED
      BY <3>1, <3>2, <3>3
  <2>3. CASE WaitTakeOver(c) \/ WaitStart(c)
    <3> PICK k \in Keys : k = key[c]
      BY <2>3 DEF WaitTakeOver, WaitStart, BeginPoll
    <3>1. waiters'[k] # None /\ \A q \in Keys \ {k} : waiters'[q] = waiters[q]
      BY <2>3, TakeOverCounts, StartType DEF WaitStart
    <3>2. \A q \in Keys \ {k} : Flying(q)' = Flying(q)
      BY <2>3 DEF WaitTakeOver, WaitStart, BeginPoll, Counted
    <3>3. table[k] = None /\ table' = table
      BY <2>3 DEF WaitTakeOver, WaitStart, BeginPoll
    <3>4. Flying(k) = {}
      BY <1>c, <2>3 DEF WaitTakeOver, WaitStart
    <3>5. Flying(k)' = {c}
      BY <2>3, <3>4 DEF WaitTakeOver, WaitStart, BeginPoll, Counted
    <3> QED
      BY <3>1, <3>2, <3>3, <3>4, <3>5, Departs
  <2> QED
    BY <1>2, <2>1, <2>2, <2>3 DEF PollCoop
<1>3. ASSUME NEW c \in CoopCalls, InitPanics(c)
      PROVE  Goal
  <2> PICK k \in Keys : k = key[c]
    BY <1>3 DEF InitPanics
  <2>1. waiters' = waiters /\ table' = table
    BY <1>3 DEF InitPanics
  <2>2. \A q \in Keys \ {k} : Flying(q)' = Flying(q)
    BY <1>3 DEF InitPanics, Counted
  <2>3. Flying(k)' = {}
    <3>1. c \in Counted(k) /\ Counted(k)' = Counted(k) \ {c}
      BY <1>3 DEF InitPanics, Counted
    <3> QED
      BY <1>b, <3>1
  <2> QED
    BY <2>1, <2>2, <2>3, Lands
<1>4. ASSUME NEW c \in Calls, Progress(c)
      PROVE  Goal
  <2>1. CASE Got(c) \/ TakeInsert(c) \/ Fail(c)
    BY <2>1 DEF Got, TakeInsert, Fail, DropStage, Counted
  <2>2. CASE CacheInsert(c)
    <3> PICK k \in Keys : k = key[c]
      BY <2>2 DEF CacheInsert
    <3>1. \A q \in Keys \ {k} : Flying(q)' = Flying(q)
      BY <2>2 DEF CacheInsert, Counted
    <3>2. waiters' = waiters /\ table' = [table EXCEPT ![k] = c]
      BY <2>2 DEF CacheInsert
    <3>3. c \in Counted(k) /\ table[k] \notin Calls
      BY <2>2 DEF CacheInsert, InsertsOverNoComputed, Counted
    <3>4. waiters[k] # None /\ Counted(k) = {c}
      BY <1>b, <1>c, <2>2, <3>3 DEF CacheInsert, Holding
    <3>5. Flying(k) = {c} /\ Flying(k)' = {}
      BY <2>2, <3>4 DEF CacheInsert, Counted
    <3>6. Flight[k] = c /\ Flight' = [Flight EXCEPT ![k] = None]
      BY <3>1, <3>2, <3>4, <3>5, FlightOf, OneFlight
    <3>7. SF!Publish(k)
      BY <3>2, <3>3, <3>6 DEF SF!Publish
    <3> QED
      BY <3>7 DEF SF!SingleFlightNext
  <2>3. CASE Finish(c)
    <3> PICK k \in Keys : k = key[c]
      BY <2>3 DEF Finish, DropStage
    <3>1. waiters'[k] = None /\ \A q \in Keys \ {k} : waiters'[q] = waiters[q]
      BY <2>3 DEF Finish
    <3>2. \A q \in Keys \ {k} : Flying(q)' = Flying(q)
      BY <2>3 DEF Finish, DropStage, Counted
    <3>3. table' = table
      BY <2>3 DEF Finish, DropStage
    <3> QED
      BY <3>1, <3>2, <3>3, Lands
  <2>4. CASE DropWorker(c)
    <3> PICK k \in Keys : k = key[c]
      BY <2>4 DEF DropWorker
    <3>1. \A q \in Keys \ {k} : waiters'[q] = waiters[q]
      BY <2>4, DropCounts
    <3>2. \A q \in Keys \ {k} : Flying(q)' = Flying(q)
      BY <2>4 DEF DropWorker, Counted
    <3>3. Flying(k)' = {}
      <4>1. c \in Counted(k) /\ Counted(k)' = Counted(k) \ {c}
        BY <2>4 DEF DropWorker, Counted
      <4> QED
        BY <1>b, <4>1
    <3>4. table' = table
      BY <2>4 DEF DropWorker
    <3> QED
      BY <3>1, <3>2, <3>3, <3>4, Lands
  <2>5. ~Unreachable(c)
    <3> SUFFICES ASSUME Unreachable(c)
                 PROVE  FALSE
      OBVIOUS
    <3>1. /\ key[c] \in Keys /\ c \in Counted(key[c])
          /\ pc[c] \in Holding /\ waiters[key[c]] = None
      BY DEF Unreachable, Counted, Holding
    <3> QED
      BY <1>c, <3>1
  <2> QED
    BY <1>4, <2>1, <2>2, <2>3, <2>4, <2>5 DEF Progress
<1>5. CASE Environment
  <2>1. ASSUME NEW k \in Keys, Insert(k)
        PROVE  Goal
    <3>1. UNCHANGED Flight
      BY <2>1 DEF Insert, Flight, Counted
    <3>2. SF!Put(k)
      BY <2>1, <3>1 DEF Insert, SF!Put
    <3> QED
      BY <3>2 DEF SF!SingleFlightNext
  <2>2. ASSUME NEW c \in Calls, Complete(c) \/ SpuriousWake(c) \/ Cancel(c)
        PROVE  Goal
    BY <2>2 DEF Complete, SpuriousWake, Cancel, DropStage, Counted
  <2>3. ASSUME NEW c \in Calls, Migrate(c)
        PROVE  Goal
    <3>1. \A k \in Keys : waiters[k] = None <=> waiters'[k] = None
      BY <2>3, MigrateCounts DEF SameCount
    <3>2. \A k \in Keys : Flying(k)' = Flying(k)
      BY <2>3 DEF Migrate, Counted
    <3>3. table' = table
      BY <2>3 DEF Migrate
    <3> QED
      BY <3>1, <3>2, <3>3
  <2> QED
    BY <1>5, <2>1, <2>2, <2>3 DEF Environment, Remove
<1>6. CASE UNCHANGED vars
  BY <1>6 DEF vars, Counted
<1> QED
  BY <1>1, <1>2, <1>3, <1>4, <1>5, <1>6
     DEF Next, CoopNext, RaceNext

(* Under the same conditions get_or_insert and get_or_try_insert implement  *)
(* SingleFlight: computations of a key do not overlap, start only while it  *)
(* has no value, and end with its value or without one.                     *)
THEOREM Refinement ==
  ASSUME RaceCalls = {}, "remove" \notin Usage
  PROVE  Spec => ImplementsSingleFlight
<1>1. Init => SF!SingleFlightInit
  BY DEF Init, SF!SingleFlightInit, Flight
<1>2. KeptInv /\ [Next]_vars => [SF!SingleFlightNext]_<<table, Flight>>
  BY FlightRefines, SameFlights
<1> QED
  BY <1>1, <1>2, KeptInvariant, PTL
     DEF Spec, ImplementsSingleFlight, SF!SingleFlightSpec
================================================================================
