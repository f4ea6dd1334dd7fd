------------------------------- MODULE AtomicMap -------------------------------
(***************************************************************************)
(* What LightMap promises (src/map.rs): a single map, on which insert, get  *)
(* and remove of any thread take effect at one instant between the call and *)
(* the return, and as long as there is a GetMut of a key nobody else writes *)
(* that key.  Shards and locks are not seen.                                *)
(***************************************************************************)
CONSTANTS Keys, Values, Threads, None

VARIABLES
  contents,  \* the value of each key, or None
  call,      \* what each thread is doing: a request, or None
  ret,       \* what its last call returned
  mut        \* the key of each thread's GetMut, or None

MapInit ==
  /\ contents = [k \in Keys |-> None]
  /\ call = [t \in Threads |-> None]
  /\ ret = [t \in Threads |-> None]
  /\ mut = [t \in Threads |-> None]

Request(t) ==
  /\ call[t] = None
  /\ call'[t] # None
  /\ call' = [call EXCEPT ![t] = call'[t]]
  /\ ret' = [ret EXCEPT ![t] = None]
  /\ UNCHANGED <<contents, mut>>

(* Thread t writes k, which nobody else has a GetMut of. *)
Write(t, k, v) ==
  /\ \A u \in Threads \ {t} : mut[u] # k
  /\ contents' = [contents EXCEPT ![k] = v]

Answer(t, o, result) ==
  /\ call[t] # None
  /\ call[t].op = o
  /\ call' = [call EXCEPT ![t] = None]
  /\ ret' = [ret EXCEPT ![t] = result]

Lookup(t) ==
  /\ Answer(t, "get", contents[call[t].key])
  /\ UNCHANGED <<contents, mut>>

Put(t) ==
  /\ Answer(t, "insert", contents[call[t].key])
  /\ Write(t, call[t].key, call[t].value)
  /\ UNCHANGED mut

Take(t) ==
  /\ Answer(t, "remove", contents[call[t].key])
  /\ Write(t, call[t].key, None)
  /\ UNCHANGED mut

Borrow(t) ==
  /\ Answer(t, "get_mut", None)
  /\ \A u \in Threads : mut[u] # call[t].key
  /\ mut' = [mut EXCEPT ![t] = call[t].key]
  /\ UNCHANGED contents

(* The map says nothing of the sum that len returns; see LightMap!LenBounds. *)
Count(t) ==
  /\ Answer(t, "len", ret'[t])
  /\ UNCHANGED <<contents, mut>>

(* A GetMut is used up: it changes the value of a key that is there, or not. *)
Release(t) ==
  /\ mut[t] # None
  /\ mut' = [mut EXCEPT ![t] = None]
  /\ UNCHANGED call
  /\ \/ /\ contents[mut[t]] # None
        /\ \E v \in Values : Write(t, mut[t], v)
        /\ ret' = [ret EXCEPT ![t] = 1]
     \/ /\ contents[mut[t]] = None
        /\ ret' = [ret EXCEPT ![t] = 0]
        /\ UNCHANGED contents
     \/ UNCHANGED <<contents, ret>>

MapNext ==
  \E t \in Threads : \/ Request(t) \/ Lookup(t) \/ Put(t) \/ Take(t)
                     \/ Borrow(t) \/ Count(t) \/ Release(t)

MapSpec == MapInit /\ [][MapNext]_<<contents, call, ret, mut>>
================================================================================
