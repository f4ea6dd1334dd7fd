----------------------------- MODULE ExpiringStore -----------------------------
(***************************************************************************)
(* What RefreshCache promises of the values it keeps (src/refresh.rs:31): a *)
(* value stays until its time to live is over, is then removed at some      *)
(* time, and is never replaced before; so a key is stored once per time to  *)
(* live at most, however many callers ask for it.  When a value is removed  *)
(* after that, and how the calls agree on who computes it, is left open.    *)
(***************************************************************************)
EXTENDS Integers

CONSTANTS Keys, Ttl, None

VARIABLES
  held,  \* the Instant of each key's value, or None
  last,  \* the Instant of the last value that each key had, or None
  time

StoreInit ==
  /\ held = [k \in Keys |-> None]
  /\ last = [k \in Keys |-> None]
  /\ time = 0

(* A value is stored some time after it was stamped. *)
Keep(k) ==
  /\ held[k] = None
  /\ \E s \in 0 .. time :
       /\ last[k] # None => last[k] + Ttl < s
       /\ held' = [held EXCEPT ![k] = s]
       /\ last' = [last EXCEPT ![k] = s]
  /\ UNCHANGED time

Expire(k) ==
  /\ held[k] # None
  /\ held[k] + Ttl < time
  /\ held' = [held EXCEPT ![k] = None]
  /\ UNCHANGED <<last, time>>

Pass ==
  /\ time' = time + 1
  /\ UNCHANGED <<held, last>>

StoreNext == Pass \/ \E k \in Keys : Keep(k) \/ Expire(k)

StoreSpec == StoreInit /\ [][StoreNext]_<<held, last, time>>
================================================================================
