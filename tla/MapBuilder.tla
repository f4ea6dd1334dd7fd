------------------------------ MODULE MapBuilder ------------------------------
(***************************************************************************)
(* src/map/builder.rs: how many shards a LightMap gets, and for how many    *)
(* entries each is allocated beforehand.  A builder is a record of the two  *)
(* options that its methods set.                                            *)
(***************************************************************************)
EXTENDS Integers

CONSTANTS
  None,   \* Option::None
  Cores   \* what std::thread::available_parallelism returns, None for an error

ASSUME BuilderAssumption ==
  /\ Cores \in (Nat \ {0}) \cup {None}
  /\ None \notin Nat

(* Every thread that finds no stored result asks and stores the same one. *)
MaxParallelism == IF Cores = None THEN 1 ELSE Cores

Builders == [shards : Nat \cup {None}, estimated_size : Nat \cup {None}]

NewBuilder == [shards |-> None, estimated_size |-> None]

(* The methods shards and estimated_size take the builder and return it. *)
WithShards(b, n) == [b EXCEPT !.shards = n]

WithEstimate(b, n) == [b EXCEPT !.estimated_size = n]

(* LightMap::with_capacity; LightMap::new is a NewBuilder. *)
WithCapacity(n) == WithEstimate(NewBuilder, n)

(* The powers of two, by their exponents. *)
Power[i \in Nat] == IF i = 0 THEN 1 ELSE 2 * Power[i - 1]

(* Mutant: zero shards stay zero. *)
NextPowerOfTwoOrZero(n) ==
  IF n = 0 THEN 0
  ELSE LET powers == {Power[i] : i \in 0 .. n}
       IN  CHOOSE p \in powers : p >= n /\ \A q \in powers : q >= n => p <= q

(* usize::next_power_of_two, where it does not overflow. *)
NextPowerOfTwo(n) ==
  LET powers == {Power[i] : i \in 0 .. n}
  IN  CHOOSE p \in powers : p >= n /\ \A q \in powers : q >= n => p <= q

NumShards(b) ==
  NextPowerOfTwo(IF b.shards = None THEN MaxParallelism * 4 ELSE b.shards)

(* Mutant: the remainder of the division is not made up for. *)
PerShardTight(n, size) ==
  IF size # None /\ size > n THEN size \div n ELSE 0

(* The capacity of each of n shards: none is reserved without an estimate,  *)
(* or when there are at least as many shards.                               *)
PerShard(n, size) ==
  IF size # None /\ size > n THEN (size \div n) * 2 ELSE 0
================================================================================
