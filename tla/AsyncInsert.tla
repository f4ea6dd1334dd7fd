------------------------------ MODULE AsyncInsert ------------------------------
(***************************************************************************)
(* Shards used by cooperative and racing calls together, as LightCache      *)
(* allows; with RaceCalls = {} it is get_or_insert.rs by itself, and with   *)
(* CoopCalls = {} get_or_insert_race.rs.                                    *)
(***************************************************************************)
EXTENDS GetOrInsert, GetOrInsertRace

Next ==
  \/ CoopNext
  \/ RaceNext
  \/ \E c \in Calls : Progress(c)
  \/ Environment

(***************************************************************************)
(* The executor polls what was notified, a thread goes on with the poll or  *)
(* the drop it is in (parking_lot's mutex is handed over in the end, and    *)
(* each call takes it a bounded number of times), and the users' futures    *)
(* complete.  Nobody has to call, insert, remove, cancel, fail or panic.    *)
(***************************************************************************)
Fairness ==
  /\ \A c \in CoopCalls : WF_vars(PollCoop(c))
  /\ \A c \in RaceCalls : WF_vars(PollRace(c))
  /\ \A c \in Calls : WF_vars(Progress(c)) /\ WF_vars(Complete(c))

Spec == Init /\ [][Next]_vars

FairSpec == Spec /\ Fairness

-------------------------------------------------------------------------------
(* Every cooperative call comes to an end: a waiter is woken when the value *)
(* is there, and takes over when the call it waits for fails (cache.rs:102).*)
CoopCallsReturn ==
  \A c \in CoopCalls : pc[c] # "new" ~> pc[c] = "done"

(* Every racing call comes to an end, whatever the others do: it waits for  *)
(* nothing but its own future (cache.rs:139).                               *)
RaceCallsReturn ==
  \A c \in RaceCalls : pc[c] # "new" ~> pc[c] = "done"

-------------------------------------------------------------------------------
Member(S) == CHOOSE c \in S : TRUE

(* The call that is computing the value of k: it is counted by k's node, and *)
(* still is while its future is being dropped, until it has inserted.        *)
Flying(k) == {c \in Counted(k) : pc[c] # "inserted"}

Flight ==
  [k \in Keys |-> IF waiters[k] # None /\ Flying(k) # {}
                  THEN Member(Flying(k))
                  ELSE None]

SF == INSTANCE SingleFlight WITH cached <- table, flight <- Flight

(* The cooperative futures, as long as nothing removes keys, compute every  *)
(* key in single flights.                                                   *)
ImplementsSingleFlight == SF!SingleFlightSpec
================================================================================
