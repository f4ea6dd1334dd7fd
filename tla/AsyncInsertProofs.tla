--------------------------- MODULE AsyncInsertProofs ---------------------------
(* Theorems about AsyncInsert for every number of calls and keys.            *)
EXTENDS AsyncInsert, TLAPS

-------------------------------------------------------------------------------
(* The operations on a node                                                  *)

(* Every operation of waker_node.rs makes a Wakers record.                  *)
LEMMA NodeTypes ==
  ASSUME NEW node \in Wakers, NEW c \in Calls
  PROVE  /\ node.wakers \subseteq Calls
         /\ JoinWaiter(node, c) \in Wakers
         /\ LeaveWaiter(node, c) \in Wakers
         /\ JoinWorker(node) \in Wakers
         /\ RemoveWorker(node) \in Wakers
         /\ Joined(c, node) \in Wakers
  BY DEF Wakers, JoinWaiter, LeaveWaiter, JoinWorker, RemoveWorker, Joined

(* So does Wakers::start.                                                   *)
LEMMA StartType == \A c \in Calls : Start(c) \in Wakers
  BY DEF Wakers, Start

-------------------------------------------------------------------------------
(* Types                                                                     *)

(* Every step keeps the variables' types: in particular no wake, drop or    *)
(* migration leaves something other than a Wakers record or None in the     *)
(* waiters map.                                                             *)
LEMMA TypeStep == TypeOK /\ [Next]_vars => TypeOK'
<1> USE DEF TypeOK, Values, Goto, Wake
<1> SUFFICES ASSUME TypeOK, [Next]_vars
             PROVE  TypeOK'
  OBVIOUS
<1> USE ShardAssumption DEF Stages
<1>1. ASSUME NEW c \in CoopCalls, NEW k \in Keys, GetOrInsertCall(c, k)
      PROVE  TypeOK'
  BY <1>1 DEF GetOrInsertCall
<1>2. ASSUME NEW c \in CoopCalls, PollCoop(c)
      PROVE  TypeOK'
  <2>1. CASE WaitGot(c)
    BY <2>1 DEF WaitGot, BeginPoll
  <2>2. CASE WaitPending(c)
    BY <2>2, NodeTypes DEF WaitPending, BeginPoll
  <2>3. CASE WaitTakeOver(c)
    BY <2>3, NodeTypes DEF WaitTakeOver, BeginPoll
  <2>4. CASE WaitStart(c)
    BY <2>4, StartType DEF WaitStart, BeginPoll
  <2>5. CASE InitReturns(c)
    BY <2>5 DEF InitReturns
  <2>6. CASE PollWorking(c)
    BY <2>6 DEF PollWorking
  <2> QED
    BY <1>2, <2>1, <2>2, <2>3, <2>4, <2>5, <2>6 DEF PollCoop
<1>3. ASSUME NEW c \in CoopCalls, InitPanics(c)
      PROVE  TypeOK'
  BY <1>3 DEF InitPanics
<1>4. ASSUME NEW c \in RaceCalls, NEW k \in Keys, RaceCall(c, k)
      PROVE  TypeOK'
  BY <1>4 DEF RaceCall
<1>5. ASSUME NEW c \in RaceCalls, PollRace(c)
      PROVE  TypeOK'
  <2>1. CASE RacePoll(c)
    BY <2>1 DEF RacePoll
  <2>2. CASE RaceGot(c)
    BY <2>2 DEF RaceGot, DropStage
  <2>3. CASE RaceJoin(c)
    BY <2>3, NodeTypes DEF RaceJoin
  <2>4. CASE RaceStart(c)
    BY <2>4, StartType DEF RaceStart
  <2> QED
    BY <1>5, <2>1, <2>2, <2>3, <2>4 DEF PollRace
<1>6. ASSUME NEW c \in Calls, Progress(c)
      PROVE  TypeOK'
  <2>1. CASE Got(c)
    BY <2>1 DEF Got, DropStage
  <2>2. CASE TakeInsert(c)
    BY <2>2 DEF TakeInsert
  <2>3. CASE Fail(c)
    BY <2>3 DEF Fail, DropStage
  <2>4. CASE CacheInsert(c)
    BY <2>4 DEF CacheInsert
  <2>5. CASE Finish(c)
    BY <2>5, NodeTypes DEF Finish, DropStage
  <2>6. CASE Unreachable(c)
    BY <2>6 DEF Unreachable, DropStage
  <2>7. CASE DropWorker(c)
    BY <2>7, NodeTypes DEF DropWorker
  <2> QED
    BY <1>6, <2>1, <2>2, <2>3, <2>4, <2>5, <2>6, <2>7 DEF Progress
<1>7. CASE Environment
  <2>1. ASSUME NEW k \in Keys, Insert(k)
        PROVE  TypeOK'
    BY <2>1 DEF Insert
  <2>2. ASSUME NEW k \in Keys, Remove(k)
        PROVE  TypeOK'
    BY <2>2 DEF Remove
  <2>3. ASSUME NEW c \in Calls, Complete(c)
        PROVE  TypeOK'
    BY <2>3 DEF Complete
  <2>4. ASSUME NEW c \in Calls, SpuriousWake(c)
        PROVE  TypeOK'
    BY <2>4 DEF SpuriousWake
  <2>5. ASSUME NEW c \in Calls, Cancel(c)
        PROVE  TypeOK'
    BY <2>5 DEF Cancel, DropStage
  <2>6. ASSUME NEW c \in Calls, Migrate(c)
        PROVE  TypeOK'
    BY <2>6, NodeTypes DEF Migrate
  <2> QED
    BY <1>7, <2>1, <2>2, <2>3, <2>4, <2>5, <2>6 DEF Environment
<1>8. CASE UNCHANGED vars
  BY <1>8 DEF vars
<1> QED
  BY <1>1, <1>2, <1>3, <1>4, <1>5, <1>6, <1>7, <1>8
     DEF Next, CoopNext, RaceNext

(* The variables always have the types TypeOK names.                        *)
THEOREM TypeCorrect == Spec => []TypeOK
<1>1. Init => TypeOK
  BY ShardAssumption DEF Init, TypeOK, Stages, Values
<1> QED
  BY <1>1, TypeStep, PTL DEF Spec

-------------------------------------------------------------------------------
(* What the mutex protects                                                   *)

(* The waiters mutex of a shard is kept by one call only.                   *)
OneInserter ==
  \A c, d \in Calls :
    pc[c] \in Holding /\ pc[d] \in Holding /\ ShardOf[key[c]] = ShardOf[key[d]] => c = d

(* A call that was told to insert does so over no computed value: direct    *)
(* inserts and removals are all that can happen to its key in between.      *)
InsertsOverNoComputed ==
  \A c \in Calls : pc[c] = "inserting" => table[key[c]] \notin Calls

(* ComputedValueClearsWaiters is inductive together with these: a node is   *)
(* only made while the table is empty, and the call that fills the table    *)
(* with its value has the mutex until the node is gone.                     *)
MutexInv ==
  /\ TypeOK
  /\ OneInserter
  /\ InsertsOverNoComputed
  /\ ComputedValueClearsWaiters

(* Every step keeps MutexInv, and none replaces a computed value.           *)
LEMMA MutexStep == MutexInv /\ [Next]_vars => MutexInv' /\ KeepsComputed
<1> SUFFICES ASSUME MutexInv, [Next]_vars
             PROVE  /\ OneInserter' /\ InsertsOverNoComputed'
                    /\ ComputedValueClearsWaiters' /\ KeepsComputed
  BY TypeStep DEF MutexInv
<1> DEFINE Goal == /\ OneInserter' /\ InsertsOverNoComputed'
                   /\ ComputedValueClearsWaiters' /\ KeepsComputed
<1> USE ShardAssumption
    DEF MutexInv, TypeOK, OneInserter, InsertsOverNoComputed,
        ComputedValueClearsWaiters, KeepsComputed, Holding, Unlocked, Goto,
        Values
<1>1. ASSUME NEW c \in CoopCalls, NEW k \in Keys, GetOrInsertCall(c, k)
      PROVE  Goal
  BY <1>1 DEF GetOrInsertCall
<1>2. ASSUME NEW c \in CoopCalls, PollCoop(c)
      PROVE  Goal
  <2>1. CASE WaitGot(c)
    BY <2>1 DEF WaitGot, BeginPoll
  <2>2. CASE WaitPending(c)
    BY <2>2 DEF WaitPending, BeginPoll
  <2>3. CASE WaitTakeOver(c)
    BY <2>3 DEF WaitTakeOver, BeginPoll
  <2>4. CASE WaitStart(c)
    BY <2>4 DEF WaitStart, BeginPoll
  <2>5. CASE InitReturns(c)
    BY <2>5 DEF InitReturns
  <2>6. CASE PollWorking(c)
    BY <2>6 DEF PollWorking
  <2> QED
    BY <1>2, <2>1, <2>2, <2>3, <2>4, <2>5, <2>6 DEF PollCoop
<1>3. ASSUME NEW c \in CoopCalls, InitPanics(c)
      PROVE  Goal
  BY <1>3 DEF InitPanics
<1>4. ASSUME NEW c \in RaceCalls, NEW k \in Keys, RaceCall(c, k)
      PROVE  Goal
  BY <1>4 DEF RaceCall
<1>5. ASSUME NEW c \in RaceCalls, PollRace(c)
      PROVE  Goal
  <2>1. CASE RacePoll(c)
    BY <2>1 DEF RacePoll
  <2>2. CASE RaceGot(c)
    BY <2>2 DEF RaceGot, DropStage
  <2>3. CASE RaceJoin(c)
    BY <2>3 DEF RaceJoin
  <2>4. CASE RaceStart(c)
    BY <2>4 DEF RaceStart
  <2> QED
    BY <1>5, <2>1, <2>2, <2>3, <2>4 DEF PollRace
<1>6. ASSUME NEW c \in Calls, Progress(c)
      PROVE  Goal
  <2>1. CASE Got(c)
    BY <2>1 DEF Got, DropStage
  <2>2. CASE TakeInsert(c)
    BY <2>2 DEF TakeInsert
  <2>3. CASE Fail(c)
    BY <2>3 DEF Fail, DropStage
  <2>4. CASE CacheInsert(c)
    BY <2>4 DEF CacheInsert
  <2>5. CASE Finish(c)
    BY <2>5 DEF Finish, DropStage
  <2>6. CASE Unreachable(c)
    BY <2>6 DEF Unreachable, DropStage
  <2>7. CASE DropWorker(c)
    BY <2>7 DEF DropWorker
  <2> QED
    BY <1>6, <2>1, <2>2, <2>3, <2>4, <2>5, <2>6, <2>7 DEF Progress
<1>7. CASE Environment
  <2>1. ASSUME NEW k \in Keys, Insert(k)
        PROVE  Goal
    BY <2>1 DEF Insert
  <2>2. ASSUME NEW k \in Keys, Remove(k)
        PROVE  Goal
    BY <2>2 DEF Remove
  <2>3. ASSUME NEW c \in Calls, Complete(c)
        PROVE  Goal
    BY <2>3 DEF Complete
  <2>4. ASSUME NEW c \in Calls, SpuriousWake(c)
        PROVE  Goal
    BY <2>4 DEF SpuriousWake
  <2>5. ASSUME NEW c \in Calls, Cancel(c)
        PROVE  Goal
    BY <2>5 DEF Cancel, DropStage
  <2>6. ASSUME NEW c \in Calls, Migrate(c)
        PROVE  Goal
    BY <2>6 DEF Migrate
  <2> QED
    BY <1>7, <2>1, <2>2, <2>3, <2>4, <2>5, <2>6 DEF Environment
<1>8. CASE UNCHANGED vars
  BY <1>8 DEF vars
<1> QED
  BY <1>1, <1>2, <1>3, <1>4, <1>5, <1>6, <1>7, <1>8
     DEF Next, CoopNext, RaceNext

(* MutexInv holds at the start.                                             *)
LEMMA MutexInit == Init => MutexInv
  BY ShardAssumption
     DEF Init, MutexInv, TypeOK, Stages, Values, OneInserter, Holding,
         InsertsOverNoComputed, ComputedValueClearsWaiters

(* The invariant MutexInv holds in every state.                             *)
LEMMA MutexInvariant == Spec => []MutexInv
  BY MutexInit, MutexStep, PTL DEF Spec

(* Whatever the program does with the cache: once a computed value is in    *)
(* the table and the mutex is released, nobody waits for the key any more.  *)
THEOREM WaitersCleared == Spec => []ComputedValueClearsWaiters
  BY MutexInvariant, PTL DEF MutexInv

(* Whatever the program does with the cache: the value one call computed is *)
(* never replaced by the value another one computed.                        *)
THEOREM ComputedValueKept == Spec => NoComputedOverwrite
<1>1. MutexInv /\ [Next]_vars => [KeepsComputed]_vars
  BY MutexStep
<1> QED
  BY <1>1, MutexInvariant, PTL DEF Spec, NoComputedOverwrite

-------------------------------------------------------------------------------
(* One computed value per key                                                *)

(* v was computed for k and can still be seen, in the table or by a call.   *)
Produced(k, v) ==
  \/ table[k] = v
  \/ \E c \in Calls : key[c] = k /\ ret[c] = v
  \/ key[v] = k /\ pc[v] = "inserted"

(* OneComputedValue is not inductive: what matters is that no call is still *)
(* to insert when there is a computed value, in or out of the table.        *)
OneValueInv ==
  /\ MutexInv
  /\ \A k \in Keys : \A v, w \in Calls : Produced(k, v) /\ Produced(k, w) => v = w
  /\ \A k \in Keys, v \in Calls : table[k] = None => ~ Produced(k, v)
  /\ \A c, v \in Calls : pc[c] = "inserting" => ~ Produced(key[c], v)
  /\ \A c \in Calls : pc[c] = "new" => ret[c] = None

(* A step that shows no value that was not seen before, takes none away and *)
(* lets nobody insert unless the table is empty.                            *)
ShowsNothingNew ==
  /\ \A k \in Keys, v \in Calls : Produced(k, v)' => Produced(k, v)
  /\ \A k \in Keys : table'[k] = None => table[k] = None
  /\ \A c \in Calls : pc'[c] = "inserting" =>
       key'[c] = key[c] /\ (pc[c] = "inserting" \/ table[key[c]] = None)
  /\ \A c \in Calls : pc'[c] = "new" => pc[c] = "new" /\ ret'[c] = ret[c]

(* As long as nothing is removed, every step but CacheInsert is of this     *)
(* kind.                                                                    *)
LEMMA OnlyCacheInsertShowsValues ==
  ASSUME "remove" \notin Usage, MutexInv, [Next]_vars
  PROVE  ShowsNothingNew \/ \E c \in Calls : CacheInsert(c)
<1> USE ShardAssumption
    DEF MutexInv, TypeOK, Goto, Values, Produced, ShowsNothingNew
<1>1. ASSUME NEW c \in CoopCalls, NEW k \in Keys, GetOrInsertCall(c, k)
      PROVE  ShowsNothingNew
  BY <1>1 DEF GetOrInsertCall
<1>2. ASSUME NEW c \in CoopCalls, PollCoop(c)
      PROVE  ShowsNothingNew
  <2>1. CASE WaitGot(c)
    BY <2>1 DEF WaitGot, BeginPoll
  <2>2. CASE WaitPending(c)
    BY <2>2 DEF WaitPending, BeginPoll
  <2>3. CASE WaitTakeOver(c)
    BY <2>3 DEF WaitTakeOver, BeginPoll
  <2>4. CASE WaitStart(c)
    BY <2>4 DEF WaitStart, BeginPoll
  <2>5. CASE InitReturns(c)
    BY <2>5 DEF InitReturns
  <2>6. CASE PollWorking(c)
    BY <2>6 DEF PollWorking
  <2> QED
    BY <1>2, <2>1, <2>2, <2>3, <2>4, <2>5, <2>6 DEF PollCoop
<1>3. ASSUME NEW c \in CoopCalls, InitPanics(c)
      PROVE  ShowsNothingNew
  BY <1>3 DEF InitPanics
<1>4. ASSUME NEW c \in RaceCalls, NEW k \in Keys, RaceCall(c, k)
      PROVE  ShowsNothingNew
  BY <1>4 DEF RaceCall
<1>5. ASSUME NEW c \in RaceCalls, PollRace(c)
      PROVE  ShowsNothingNew
  <2>1. CASE RacePoll(c)
    BY <2>1 DEF RacePoll
  <2>2. CASE RaceGot(c)
    BY <2>2 DEF RaceGot, DropStage
  <2>3. CASE RaceJoin(c)
    BY <2>3 DEF RaceJoin
  <2>4. CASE RaceStart(c)
    BY <2>4 DEF RaceStart
  <2> QED
    BY <1>5, <2>1, <2>2, <2>3, <2>4 DEF PollRace
<1>6. ASSUME NEW c \in Calls, Progress(c)
      PROVE  ShowsNothingNew \/ CacheInsert(c)
  <2>1. CASE Got(c)
    BY <2>1 DEF Got, DropStage
  <2>2. CASE TakeInsert(c)
    BY <2>2 DEF TakeInsert
  <2>3. CASE Fail(c)
    BY <2>3 DEF Fail, DropStage
    <2>4. CASE Finish(c)
    BY <2>4 DEF Finish, DropStage
  <2>5. CASE Unreachable(c)
    BY <2>5 DEF Unreachable, DropStage
  <2>6. CASE DropWorker(c)
    BY <2>6 DEF DropWorker
  <2> QED
    BY <1>6, <2>1, <2>2, <2>3, <2>4, <2>5, <2>6 DEF Progress
<1>7. ASSUME Environment
      PROVE  ShowsNothingNew
  <2>1. ASSUME NEW k \in Keys, Insert(k)
        PROVE  ShowsNothingNew
    BY <2>1 DEF Insert
  <2>2. ASSUME NEW c \in Calls, Complete(c)
        PROVE  ShowsNothingNew
    BY <2>2 DEF Complete
  <2>3. ASSUME NEW c \in Calls, SpuriousWake(c)
        PROVE  ShowsNothingNew
    BY <2>3 DEF SpuriousWake
  <2>4. ASSUME NEW c \in Calls, Cancel(c)
        PROVE  ShowsNothingNew
    BY <2>4 DEF Cancel, DropStage
  <2>5. ASSUME NEW c \in Calls, Migrate(c)
        PROVE  ShowsNothingNew
    BY <2>5 DEF Migrate
  <2> QED
    BY <1>7, <2>1, <2>2, <2>3, <2>4, <2>5 DEF Environment, Remove
<1>8. ASSUME UNCHANGED vars
      PROVE  ShowsNothingNew
  BY <1>8 DEF vars
<1> QED
  BY <1>1, <1>2, <1>3, <1>4, <1>5, <1>6, <1>7, <1>8
     DEF Next, CoopNext, RaceNext

(* And CacheInsert comes only when no value has been seen.                  *)
LEMMA OneValueStep ==
  ASSUME "remove" \notin Usage
  PROVE  OneValueInv /\ [Next]_vars => OneValueInv'
<1> SUFFICES ASSUME OneValueInv, [Next]_vars
             PROVE  OneValueInv'
  OBVIOUS
<1>0. MutexInv /\ MutexInv'
  BY MutexStep DEF OneValueInv
<1>1. CASE ShowsNothingNew
  <2>1. \A c \in Calls : pc'[c] = "inserting" => key'[c] \in Keys
    BY <1>0 DEF MutexInv, TypeOK
  <2>2. \A c, v \in Calls : pc'[c] = "inserting" => ~ Produced(key[c], v)
    BY <1>1, <2>1 DEF OneValueInv, ShowsNothingNew
  <2>3. \A c, v \in Calls : pc'[c] = "inserting" => ~ Produced(key[c], v)'
    BY <1>1, <2>1, <2>2 DEF ShowsNothingNew
  <2> QED
    BY <1>0, <1>1, <2>3 DEF OneValueInv, ShowsNothingNew
<1>2. ASSUME NEW c \in Calls, CacheInsert(c)
      PROVE  OneValueInv'
  <2> USE <1>0, <1>2, ShardAssumption
      DEF MutexInv, TypeOK, Goto, Values, CacheInsert
  <2>1. \A v \in Calls : Produced(key[c], v)' => v = c
    BY DEF OneValueInv, Produced, OneInserter, Holding
  <2>2. \A k \in Keys, v \in Calls :
          k # key[c] => (Produced(k, v)' => Produced(k, v))
    BY DEF Produced
  <2>3. \A d \in Calls : pc'[d] = "inserting"
                         => pc[d] = "inserting" /\ key'[d] = key[d] /\ key[d] # key[c]
    BY DEF OneInserter, Holding
  <2>4. \A k \in Keys : table'[k] = None => k # key[c] /\ table[k] = None
    OBVIOUS
  <2> QED
    BY <2>1, <2>2, <2>3, <2>4 DEF OneValueInv
<1> QED
  BY <1>0, <1>1, <1>2, OnlyCacheInsertShowsValues

(* As long as nothing removes keys, calls that return a computed value of   *)
(* the same key return the same one, however many of either kind there are. *)
THEOREM ComputedOnce ==
  ASSUME "remove" \notin Usage
  PROVE  Spec => []OneComputedValue
<1>1. Init => OneValueInv
  <2>1. Init => MutexInv
    BY MutexInit
  <2> QED
    BY <2>1, ShardAssumption DEF OneValueInv, Init, Produced
<1>2. OneValueInv => OneComputedValue
  <2> SUFFICES ASSUME OneValueInv, NEW c \in Calls, NEW d \in Calls,
                      key[c] = key[d], ret[c] \in Calls, ret[d] \in Calls
               PROVE  ret[c] = ret[d]
    BY DEF OneComputedValue
  <2>1. key[c] \in Keys
    BY ShardAssumption DEF OneValueInv, MutexInv, TypeOK
  <2> QED
    BY <2>1 DEF OneValueInv, Produced
<1> QED
  BY <1>1, <1>2, OneValueStep, PTL DEF Spec

================================================================================
