------------------------------ MODULE SingleFlight ------------------------------
(***************************************************************************)
(* What LightCache promises of get_or_insert and get_or_try_insert          *)
(* (cache.rs:24, cache.rs:102): the value of a key is computed by one call  *)
(* at a time, a computation starts only while there is no value, and it     *)
(* ends by publishing its value, when there is none by then but for one     *)
(* that was put there directly, or without a value; after that another may  *)
(* follow.  How the calls find this out from each other is left open.       *)
(***************************************************************************)
CONSTANTS Keys, Calls, Ext, None

VARIABLES
  cached,   \* the value of each key, or None
  flight    \* the call that computes the value of each key, or None

SingleFlightInit ==
  /\ cached = [k \in Keys |-> None]
  /\ flight = [k \in Keys |-> None]

Depart(k, c) ==
  /\ cached[k] = None
  /\ flight[k] = None
  /\ flight' = [flight EXCEPT ![k] = c]
  /\ UNCHANGED cached

Publish(k) ==
  /\ flight[k] # None
  /\ cached[k] \notin Calls
  /\ cached' = [cached EXCEPT ![k] = flight[k]]
  /\ flight' = [flight EXCEPT ![k] = None]

Land(k) ==
  /\ flight[k] # None
  /\ flight' = [flight EXCEPT ![k] = None]
  /\ UNCHANGED cached

(* A direct insert takes no part in the flights. *)
Put(k) ==
  /\ cached' = [cached EXCEPT ![k] = Ext]
  /\ UNCHANGED flight

SingleFlightNext ==
  \E k \in Keys : Publish(k) \/ Land(k) \/ Put(k) \/ \E c \in Calls : Depart(k, c)

SingleFlightSpec == SingleFlightInit /\ [][SingleFlightNext]_<<cached, flight>>
================================================================================
