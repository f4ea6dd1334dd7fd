------------------------------ MODULE GetOrInsert ------------------------------
(***************************************************************************)
(* The cooperative futures of src/cache/get_or_insert.rs: one call at a     *)
(* time computes the value of a key, the others wait on the key's node and  *)
(* take over when it fails.                                                 *)
(***************************************************************************)
EXTENDS AsyncShard

(* LightCache::get_or_insert: self.get, then the future in state Waiting,   *)
(* which the same poll of the async fn goes on to poll.                     *)
GetOrInsertCall(c, k) ==
  /\ pc[c] = "new"
  /\ key' = [key EXCEPT ![c] = k]
  /\ ret' = [ret EXCEPT ![c] = table[k]]
  /\ IF table[k] # None
     THEN Goto(c, "done") /\ UNCHANGED notified
     ELSE Goto(c, "waiting") /\ notified' = notified \cup {c}
  /\ UNCHANGED <<table, waiters, joined, completed>>

-------------------------------------------------------------------------------
(* Polls in state Waiting.  Each takes the mutex, looks at the table first,  *)
(* then at the node, and releases the mutex before it ends.                  *)

BeginPoll(c) ==
  /\ pc[c] = "waiting"
  /\ c \in notified
  /\ Unlocked(key[c])
  /\ notified' = notified \ {c}

WaitGot(c) ==
  /\ BeginPoll(c)
  /\ table[key[c]] # None
  /\ ret' = [ret EXCEPT ![c] = table[key[c]]]
  /\ Goto(c, "done")
  /\ UNCHANGED <<table, waiters, key, joined, completed>>

(* A call is put on a node's wakers once in its life. *)
Joined(c, node) == IF c \in joined THEN node ELSE JoinWaiter(node, c)

(* node.workers > 0: return Poll::Pending. *)
WaitPending(c) ==
  /\ BeginPoll(c)
  /\ table[key[c]] = None
  /\ waiters[key[c]] # None
  /\ waiters[key[c]].workers > 0
  /\ waiters' = [waiters EXCEPT ![key[c]] = Joined(c, @)]
  /\ joined' = joined \cup {c}
  /\ UNCHANGED <<table, pc, key, completed, ret>>

(* Mutant: the call that takes over is not counted as a worker. *)
WaitTakeOverUncounted(c) ==
  /\ BeginPoll(c)
  /\ table[key[c]] = None
  /\ waiters[key[c]] # None
  /\ waiters[key[c]].workers = 0
  /\ waiters' = [waiters EXCEPT ![key[c]] = Joined(c, @)]
  /\ joined' = joined \cup {c}
  /\ Goto(c, "starting")
  /\ UNCHANGED <<table, key, completed, ret>>

(* The node has no worker left: this call takes over. *)
WaitTakeOver(c) ==
  /\ BeginPoll(c)
  /\ table[key[c]] = None
  /\ waiters[key[c]] # None
  /\ waiters[key[c]].workers = 0
  /\ waiters' = [waiters EXCEPT ![key[c]] = JoinWorker(Joined(c, @))]
  /\ joined' = joined \cup {c}
  /\ Goto(c, "starting")
  /\ UNCHANGED <<table, key, completed, ret>>

(* Mutant: the first call does not leave a node. *)
WaitStartUnregistered(c) ==
  /\ BeginPoll(c)
  /\ table[key[c]] = None
  /\ waiters[key[c]] = None
  /\ Goto(c, "starting")
  /\ UNCHANGED <<table, waiters, key, joined, completed, ret>>

(* There is no node: this call is the first, with joined left as it is. *)
WaitStart(c) ==
  /\ BeginPoll(c)
  /\ table[key[c]] = None
  /\ waiters[key[c]] = None
  /\ waiters' = [waiters EXCEPT ![key[c]] = Start(c)]
  /\ Goto(c, "starting")
  /\ UNCHANGED <<table, key, joined, completed, ret>>

-------------------------------------------------------------------------------
(* init() and the future it makes                                            *)

(* init() returned the future: state Working, polled at once by the loop. *)
InitReturns(c) ==
  /\ pc[c] = "starting"
  /\ Goto(c, "working")
  /\ notified' = notified \cup {c}
  /\ UNCHANGED <<table, waiters, key, joined, completed, ret>>

(* init() panicked: the future is dropped in state Waiting. *)
InitPanics(c) ==
  /\ "init_panic" \in Usage
  /\ pc[c] = "starting"
  /\ Goto(c, "done")
  /\ UNCHANGED <<table, waiters, key, joined, completed, notified, ret>>

(* fut.poll(cx) without the mutex. *)
PollWorking(c) ==
  /\ pc[c] = "working"
  /\ c \in notified
  /\ notified' = notified \ {c}
  /\ Goto(c, IF c \in completed THEN "ready" ELSE "working")
  /\ UNCHANGED <<table, waiters, key, joined, completed, ret>>

-------------------------------------------------------------------------------

PollCoop(c) ==
  \/ WaitGot(c) \/ WaitPending(c) \/ WaitTakeOver(c) \/ WaitStart(c)
  \/ InitReturns(c) \/ PollWorking(c)

CoopNext ==
  \/ \E c \in CoopCalls, k \in Keys : GetOrInsertCall(c, k)
  \/ \E c \in CoopCalls : PollCoop(c) \/ InitPanics(c)
================================================================================
