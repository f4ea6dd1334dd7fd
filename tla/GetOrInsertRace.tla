---------------------------- MODULE GetOrInsertRace ----------------------------
(***************************************************************************)
(* The futures of src/cache/get_or_insert_race.rs: every call polls its own *)
(* future, without the mutex, and the first to have a value inserts it.     *)
(***************************************************************************)
EXTENDS AsyncShard

(* LightCache::get_or_insert_race: self.get, then init(), then the future.  *)
(* A panic of init() here is a call that was never made.                    *)
RaceCall(c, k) ==
  /\ pc[c] = "new"
  /\ key' = [key EXCEPT ![c] = k]
  /\ ret' = [ret EXCEPT ![c] = table[k]]
  /\ IF table[k] # None
     THEN Goto(c, "done") /\ UNCHANGED notified
     ELSE Goto(c, "racing") /\ notified' = notified \cup {c}
  /\ UNCHANGED <<table, waiters, joined, completed>>

(* Mutant: a call that joined another's node leaves the work to the other. *)
RacePollUntilJoined(c) ==
  /\ pc[c] = "racing"
  /\ c \in notified
  /\ notified' = notified \ {c}
  /\ Goto(c, IF c \in completed \ joined THEN "ready" ELSE "parking")
  /\ UNCHANGED <<table, waiters, key, joined, completed, ret>>

(* this.fut.poll(cx), before the mutex is taken. *)
RacePoll(c) ==
  /\ pc[c] = "racing"
  /\ c \in notified
  /\ notified' = notified \ {c}
  /\ Goto(c, IF c \in completed THEN "ready" ELSE "parking")
  /\ UNCHANGED <<table, waiters, key, joined, completed, ret>>

-------------------------------------------------------------------------------
(* The rest of a poll whose future is Pending, under the mutex               *)

RaceGot(c) ==
  /\ pc[c] = "parking"
  /\ Unlocked(key[c])
  /\ table[key[c]] # None
  /\ ret' = [ret EXCEPT ![c] = table[key[c]]]
  /\ Goto(c, DropStage(c))
  /\ UNCHANGED <<table, waiters, key, joined, completed, notified>>

(* Mutant: a racing call joins as a waiter only. *)
RaceJoinUncounted(c) ==
  /\ pc[c] = "parking"
  /\ Unlocked(key[c])
  /\ table[key[c]] = None
  /\ waiters[key[c]] # None
  /\ waiters' = [waiters EXCEPT ![key[c]] = JoinWaiter(@, c)]
  /\ joined' = joined \cup {c}
  /\ Goto(c, "racing")
  /\ UNCHANGED <<table, key, completed, notified, ret>>

(* Somebody else is at it: join as a waiter and as a worker, once. *)
RaceJoin(c) ==
  /\ pc[c] = "parking"
  /\ Unlocked(key[c])
  /\ table[key[c]] = None
  /\ waiters[key[c]] # None
  /\ IF c \in joined
     THEN UNCHANGED <<waiters, joined>>
     ELSE /\ waiters' = [waiters EXCEPT ![key[c]] = JoinWorker(JoinWaiter(@, c))]
          /\ joined' = joined \cup {c}
  /\ Goto(c, "racing")
  /\ UNCHANGED <<table, key, completed, notified, ret>>

(* Nobody is: Wakers::start, and `joined` stays false. *)
RaceStart(c) ==
  /\ pc[c] = "parking"
  /\ Unlocked(key[c])
  /\ table[key[c]] = None
  /\ waiters[key[c]] = None
  /\ waiters' = [waiters EXCEPT ![key[c]] = Start(c)]
  /\ Goto(c, "racing")
  /\ UNCHANGED <<table, key, joined, completed, notified, ret>>

-------------------------------------------------------------------------------

PollRace(c) == RacePoll(c) \/ RaceGot(c) \/ RaceJoin(c) \/ RaceStart(c)

RaceNext ==
  \/ \E c \in RaceCalls, k \in Keys : RaceCall(c, k)
  \/ \E c \in RaceCalls : PollRace(c)
================================================================================
