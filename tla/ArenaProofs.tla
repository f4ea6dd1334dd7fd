------------------------------ MODULE ArenaProofs ------------------------------
(***************************************************************************)
(* Lemmas about LinkedArena for any number of nodes: what its operations do *)
(* to the list, which is given by the node at each place and the place of  *)
(* each node.                                                               *)
(***************************************************************************)
EXTENDS LinkedArena, SequenceTheorems, WellFoundedInduction, TLAPS

Nodes(X) == [item : X, prev : Nat \cup {None}, next : Nat \cup {None}]

(* The nodes of S are a list of length m: at[p] is the node at place p and  *)
(* rank[i] the place of node i.                                             *)
Places(S, m, at, rank) ==
  /\ at \in [1 .. m -> S]
  /\ rank \in [S -> 1 .. m]
  /\ \A i \in S : at[rank[i]] = i
  /\ \A p \in 1 .. m : rank[at[p]] = p

First(m, at) == IF m = 0 THEN None ELSE at[1]

Last(m, at) == IF m = 0 THEN None ELSE at[m]

Links(nodes, S, m, at, rank) ==
  \A i \in S : /\ nodes[i].prev = IF rank[i] = 1 THEN None ELSE at[rank[i] - 1]
               /\ nodes[i].next = IF rank[i] = m THEN None ELSE at[rank[i] + 1]

(* Nodes like the old ones but that node i has p before, or after, it.       *)
PrevSet(new, nodes, n, i, p) ==
  \A j \in 1 .. n : /\ new[j].item = nodes[j].item
                    /\ new[j].next = nodes[j].next
                    /\ new[j].prev = IF j = i THEN p ELSE nodes[j].prev

NextSet(new, nodes, n, i, p) ==
  \A j \in 1 .. n : /\ new[j].item = nodes[j].item
                    /\ new[j].prev = nodes[j].prev
                    /\ new[j].next = IF j = i THEN p ELSE nodes[j].next

(* SetPrev changes the prev of one node, or nothing when the index is None.   *)
LEMMA SetPrevIs ==
  ASSUME NEW X, NEW n \in Nat, NEW nodes \in [1 .. n -> Nodes(X)], None \notin Nat,
         NEW i \in (1 .. n) \cup {None}, NEW p \in Nat \cup {None}
  PROVE  /\ SetPrev(nodes, i, p) \in [1 .. n -> Nodes(X)]
         /\ PrevSet(SetPrev(nodes, i, p), nodes, n, i, p)
<1>1. CASE i = None
  BY <1>1 DEF SetPrev, Nodes, PrevSet
<1>2. CASE i # None
  BY <1>2 DEF SetPrev, Nodes, PrevSet
<1> QED BY <1>1, <1>2

(* SetNext changes the next of one node, or nothing when the index is None.   *)
LEMMA SetNextIs ==
  ASSUME NEW X, NEW n \in Nat, NEW nodes \in [1 .. n -> Nodes(X)], None \notin Nat,
         NEW i \in (1 .. n) \cup {None}, NEW p \in Nat \cup {None}
  PROVE  /\ SetNext(nodes, i, p) \in [1 .. n -> Nodes(X)]
         /\ NextSet(SetNext(nodes, i, p), nodes, n, i, p)
<1>1. CASE i = None
  BY <1>1 DEF SetNext, Nodes, NextSet
<1>2. CASE i # None
  BY <1>2 DEF SetNext, Nodes, NextSet
<1> QED BY <1>1, <1>2

-------------------------------------------------------------------------------
(* The list without node i                                                   *)

AtWithout(at, m, r) == [p \in 1 .. m - 1 |-> IF p < r THEN at[p] ELSE at[p + 1]]

RankWithout(rank, S, i) ==
  [j \in S \ {i} |-> IF rank[j] < rank[i] THEN rank[j] ELSE rank[j] - 1]

(* Without node i the nodes behind it move up by one place.                   *)
LEMMA PlacesWithout ==
  ASSUME NEW n \in Nat, NEW at, NEW rank, Places(1 .. n, n, at, rank), NEW i \in 1 .. n
  PROVE  Places((1 .. n) \ {i}, n - 1, AtWithout(at, n, rank[i]), RankWithout(rank, 1 .. n, i))
<1> DEFINE S == (1 .. n) \ {i}
           r == rank[i]
           at2 == AtWithout(at, n, r)
           rank2 == RankWithout(rank, 1 .. n, i)
<1>1. r \in 1 .. n /\ at[r] = i
  BY DEF Places
<1>2. ASSUME NEW p \in 1 .. n - 1
      PROVE  at2[p] \in S /\ rank2[at2[p]] = p
  <2>1. CASE p < r
    <3>1. at2[p] = at[p] /\ rank[at[p]] = p /\ at[p] \in S
      BY <1>1, <2>1 DEF AtWithout, Places
    <3> QED BY <2>1, <3>1, <1>1 DEF RankWithout
  <2>2. CASE p >= r
    <3>1. p + 1 \in 1 .. n /\ at2[p] = at[p + 1] /\ p + 1 # r
      BY <1>1, <2>2 DEF AtWithout
    <3>2. rank[at[p + 1]] = p + 1 /\ at[p + 1] \in 1 .. n
      BY <3>1 DEF Places
    <3> QED BY <2>2, <3>1, <3>2, <1>1 DEF RankWithout
  <2> QED BY <1>1, <2>1, <2>2
<1>3. ASSUME NEW j \in S
      PROVE  rank2[j] \in 1 .. n - 1 /\ at2[rank2[j]] = j
  <2>1. rank[j] \in 1 .. n /\ at[rank[j]] = j /\ rank[j] # r
    BY <1>1 DEF Places
  <2>2. CASE rank[j] < r
    BY <1>1, <2>1, <2>2 DEF RankWithout, AtWithout
  <2>3. CASE rank[j] > r
    <3>1. rank2[j] = rank[j] - 1 /\ rank[j] - 1 \in 1 .. n - 1
      BY <1>1, <2>1, <2>3 DEF RankWithout
    <3>2. at2[rank[j] - 1] = at[rank[j]]
      BY <1>1, <2>1, <2>3, <3>1 DEF AtWithout
    <3> QED BY <2>1, <3>1, <3>2
  <2> QED BY <1>1, <2>1, <2>2, <2>3
<1>4. /\ at2 = [p \in 1 .. n - 1 |-> at2[p]]
      /\ rank2 = [j \in S |-> rank2[j]]
  BY DEF AtWithout, RankWithout
<1>5. at2 \in [1 .. n - 1 -> S] /\ rank2 \in [S -> 1 .. n - 1]
  BY <1>2, <1>3, <1>4
<1> QED BY <1>2, <1>3, <1>5 DEF Places

(* When the neighbours of node i point to each other, the other nodes are     *)
(* linked in the order that is left.                                          *)
LEMMA UnlinkLinks ==
  ASSUME None \notin Nat, NEW n \in Nat, NEW at, NEW rank, Places(1 .. n, n, at, rank),
         NEW i \in 1 .. n, NEW nodes, Links(nodes, 1 .. n, n, at, rank),
         NEW new,
         \A j \in 1 .. n :
           /\ new[j].next = IF j = nodes[i].prev THEN nodes[i].next ELSE nodes[j].next
           /\ new[j].prev = IF j = nodes[i].next THEN nodes[i].prev ELSE nodes[j].prev
  PROVE  Links(new, (1 .. n) \ {i}, n - 1, AtWithout(at, n, rank[i]), RankWithout(rank, 1 .. n, i))
<1> DEFINE S == (1 .. n) \ {i}
           r == rank[i]
           at2 == AtWithout(at, n, r)
           rank2 == RankWithout(rank, 1 .. n, i)
<1>1. r \in 1 .. n /\ at[r] = i
  BY DEF Places
<1>2. /\ nodes[i].prev = IF r = 1 THEN None ELSE at[r - 1]
      /\ nodes[i].next = IF r = n THEN None ELSE at[r + 1]
  BY DEF Links
<1> SUFFICES ASSUME NEW j \in S
             PROVE  /\ new[j].prev = IF rank2[j] = 1 THEN None ELSE at2[rank2[j] - 1]
                    /\ new[j].next = IF rank2[j] = n - 1 THEN None ELSE at2[rank2[j] + 1]
  BY DEF Links
<1> DEFINE q == rank[j]
<1>3. q \in 1 .. n /\ at[q] = j /\ q # r
  BY <1>1 DEF Places
<1>4. /\ nodes[j].prev = IF q = 1 THEN None ELSE at[q - 1]
      /\ nodes[j].next = IF q = n THEN None ELSE at[q + 1]
  BY DEF Links
<1>5. \A p \in 1 .. n : at[p] \in 1 .. n /\ (at[p] = j => p = q)
  BY <1>3 DEF Places
<1>6. /\ (r # 1 /\ j = nodes[i].prev) <=> q = r - 1
      /\ j = nodes[i].prev => r # 1
      /\ (r # n /\ j = nodes[i].next) <=> q = r + 1
      /\ j = nodes[i].next => r # n
  BY <1>1, <1>2, <1>3, <1>5
<1>7. rank2[j] = IF q < r THEN q ELSE q - 1
  BY DEF RankWithout
<1>8. \A p \in 1 .. n - 1 : at2[p] = IF p < r THEN at[p] ELSE at[p + 1]
  BY DEF AtWithout
<1>9. /\ new[j].next = IF q = r - 1 THEN nodes[i].next ELSE nodes[j].next
      /\ new[j].prev = IF q = r + 1 THEN nodes[i].prev ELSE nodes[j].prev
  BY <1>6
<1> HIDE DEF q, r, at2, rank2
<1>a. CASE q < r - 1
  <2>1. /\ rank2[j] = q /\ q # n - 1 /\ q # n /\ q + 1 \in 1 .. n - 1 /\ q + 1 < r
        /\ q # 1 => q - 1 \in 1 .. n - 1 /\ q - 1 < r
    BY <1>a, <1>1, <1>3, <1>7
  <2>2. /\ at2[q + 1] = at[q + 1]
        /\ q # 1 => at2[q - 1] = at[q - 1]
    BY <2>1, <1>8
  <2>3. q # r - 1 /\ q # r + 1
    BY <1>a, <1>1, <1>3
  <2> QED BY <1>4, <1>9, <2>1, <2>2, <2>3
<1>b. CASE q = r - 1
  BY <1>b, <1>1, <1>2, <1>3, <1>4, <1>7, <1>8, <1>9
<1>c. CASE q = r + 1
  BY <1>c, <1>1, <1>2, <1>3, <1>4, <1>7, <1>8, <1>9
<1>d. CASE q > r + 1
  <2>1. /\ rank2[j] = q - 1 /\ q - 1 # 1 /\ q # 1 /\ q - 2 \in 1 .. n - 1 /\ q - 2 >= r
        /\ q # n => q \in 1 .. n - 1 /\ q >= r /\ q - 1 # n - 1
    BY <1>d, <1>1, <1>3, <1>7
  <2>2. /\ at2[q - 2] = at[q - 1]
        /\ q # n => at2[q] = at[q + 1]
    BY <1>1, <1>3, <2>1, <1>8
  <2>3. q # r - 1 /\ q # r + 1
    BY <1>d, <1>1, <1>3
  <2> QED BY <1>3, <1>4, <1>9, <2>1, <2>2, <2>3
<1> QED
  BY <1>1, <1>3, <1>a, <1>b, <1>c, <1>d

-------------------------------------------------------------------------------
(* The list with node i in front                                             *)

AtWith(at, m, i) == [p \in 1 .. m + 1 |-> IF p = 1 THEN i ELSE at[p - 1]]

RankWith(rank, S, i) == [j \in S \cup {i} |-> IF j = i THEN 1 ELSE rank[j] + 1]

(* With node i in front the other nodes move down by one place.               *)
LEMMA PlacesWith ==
  ASSUME NEW m \in Nat, NEW S, NEW at, NEW rank, Places(S, m, at, rank), NEW i, i \notin S
  PROVE  Places(S \cup {i}, m + 1, AtWith(at, m, i), RankWith(rank, S, i))
<1> DEFINE at2 == AtWith(at, m, i)
           rank2 == RankWith(rank, S, i)
<1>1. ASSUME NEW p \in 1 .. m + 1
      PROVE  at2[p] \in S \cup {i} /\ rank2[at2[p]] = p
  <2>1. CASE p = 1
    BY <2>1 DEF AtWith, RankWith
  <2>2. CASE p # 1
    <3>1. p - 1 \in 1 .. m /\ at2[p] = at[p - 1]
      BY <2>2 DEF AtWith
    <3>2. at[p - 1] \in S /\ rank[at[p - 1]] = p - 1
      BY <3>1 DEF Places
    <3> QED BY <3>1, <3>2 DEF RankWith
  <2> QED BY <2>1, <2>2
<1>2. ASSUME NEW j \in S \cup {i}
      PROVE  rank2[j] \in 1 .. m + 1 /\ at2[rank2[j]] = j
  <2>1. CASE j = i
    BY <2>1 DEF AtWith, RankWith
  <2>2. CASE j # i
    <3>1. rank[j] \in 1 .. m /\ at[rank[j]] = j
      BY <2>2 DEF Places
    <3>2. rank2[j] = rank[j] + 1
      BY <2>2 DEF RankWith
    <3> QED BY <3>1, <3>2 DEF AtWith
  <2> QED BY <2>1, <2>2
<1>3. /\ at2 = [p \in 1 .. m + 1 |-> at2[p]]
      /\ rank2 = [j \in S \cup {i} |-> rank2[j]]
  BY DEF AtWith, RankWith
<1>4. at2 \in [1 .. m + 1 -> S \cup {i}] /\ rank2 \in [S \cup {i} -> 1 .. m + 1]
  BY <1>1, <1>2, <1>3
<1> QED BY <1>1, <1>2, <1>4 DEF Places

(* When node i points to the first node and that one back to i, the nodes are *)
(* linked with i in front.                                                    *)
LEMMA LinksWith ==
  ASSUME NEW m \in Nat, NEW S, NEW at, NEW rank, Places(S, m, at, rank), NEW i, i \notin S,
         None \notin S,
         NEW nodes, Links(nodes, S, m, at, rank),
         NEW new,
         new[i].prev = None /\ new[i].next = First(m, at),
         \A j \in S :
           /\ new[j].next = nodes[j].next
           /\ new[j].prev = IF j = First(m, at) THEN i ELSE nodes[j].prev
  PROVE  Links(new, S \cup {i}, m + 1, AtWith(at, m, i), RankWith(rank, S, i))
<1> DEFINE at2 == AtWith(at, m, i)
           rank2 == RankWith(rank, S, i)
<1>1. rank2[i] = 1 /\ at2[1] = i
  BY DEF AtWith, RankWith
<1>2. \A p \in 1 .. m : at2[p + 1] = at[p]
  BY DEF AtWith
<1>3. /\ new[i].prev = IF rank2[i] = 1 THEN None ELSE at2[rank2[i] - 1]
      /\ new[i].next = IF rank2[i] = m + 1 THEN None ELSE at2[rank2[i] + 1]
  BY <1>1, <1>2 DEF First
<1>4. ASSUME NEW j \in S
      PROVE  /\ new[j].prev = IF rank2[j] = 1 THEN None ELSE at2[rank2[j] - 1]
             /\ new[j].next = IF rank2[j] = m + 1 THEN None ELSE at2[rank2[j] + 1]
  <2> DEFINE q == rank[j]
  <2>1. q \in 1 .. m /\ at[q] = j
    BY DEF Places
  <2>2. rank2[j] = q + 1
    BY DEF RankWith
  <2>3. j = First(m, at) <=> q = 1
    BY <2>1 DEF First, Places
  <2>4. /\ nodes[j].prev = IF q = 1 THEN None ELSE at[q - 1]
        /\ nodes[j].next = IF q = m THEN None ELSE at[q + 1]
    BY DEF Links
  <2> HIDE DEF q, at2, rank2
  <2>5. new[j].next = IF rank2[j] = m + 1 THEN None ELSE at2[rank2[j] + 1]
    <3>1. CASE q = m
      BY <2>1, <2>2, <2>4, <3>1
    <3>2. CASE q # m
      <4>1. q + 1 \in 1 .. m /\ rank2[j] # m + 1
        BY <2>1, <2>2, <3>2
      <4>2. at2[rank2[j] + 1] = at[q + 1]
        BY <1>2, <2>1, <2>2, <4>1
      <4> QED BY <2>4, <3>2, <4>1, <4>2
    <3> QED BY <3>1, <3>2
  <2>6. new[j].prev = IF rank2[j] = 1 THEN None ELSE at2[rank2[j] - 1]
    <3>1. CASE q = 1
      BY <1>1, <2>1, <2>2, <2>3, <3>1
    <3>2. CASE q # 1
      <4>1. q - 1 \in 1 .. m /\ rank2[j] # 1 /\ rank2[j] - 1 = (q - 1) + 1
        BY <2>1, <2>2, <3>2
      <4>2. at2[rank2[j] - 1] = at[q - 1]
        BY <1>2, <4>1
      <4> QED BY <2>3, <2>4, <3>2, <4>1, <4>2
    <3> QED BY <3>1, <3>2
  <2> QED BY <2>5, <2>6
<1> QED
  BY <1>3, <1>4 DEF Links

-------------------------------------------------------------------------------
(* The list in which node z has become node i                                *)

AtMoved(at, m, z, i) == [p \in 1 .. m |-> IF at[p] = z THEN i ELSE at[p]]

RankMoved(rank, S, z, i) == [j \in (S \ {z}) \cup {i} |-> IF j = i THEN rank[z] ELSE rank[j]]

(* Node i takes the place of node z.                                          *)
LEMMA PlacesMoved ==
  ASSUME NEW m \in Nat, NEW S, NEW at, NEW rank, Places(S, m, at, rank),
         NEW z \in S, NEW i, i \notin S
  PROVE  Places((S \ {z}) \cup {i}, m, AtMoved(at, m, z, i), RankMoved(rank, S, z, i))
<1> DEFINE T == (S \ {z}) \cup {i}
           at2 == AtMoved(at, m, z, i)
           rank2 == RankMoved(rank, S, z, i)
<1>1. ASSUME NEW p \in 1 .. m
      PROVE  at2[p] \in T /\ rank2[at2[p]] = p
  <2>1. at[p] \in S /\ rank[at[p]] = p
    BY DEF Places
  <2> QED BY <2>1 DEF AtMoved, RankMoved
<1>2. ASSUME NEW j \in T
      PROVE  rank2[j] \in 1 .. m /\ at2[rank2[j]] = j
  <2>1. CASE j = i
    <3>1. rank[z] \in 1 .. m /\ at[rank[z]] = z
      BY DEF Places
    <3> QED BY <2>1, <3>1 DEF AtMoved, RankMoved
  <2>2. CASE j # i
    <3>1. rank[j] \in 1 .. m /\ at[rank[j]] = j
      BY <2>2 DEF Places
    <3> QED BY <2>2, <3>1 DEF AtMoved, RankMoved
  <2> QED BY <2>1, <2>2
<1>3. /\ at2 = [p \in 1 .. m |-> at2[p]]
      /\ rank2 = [j \in T |-> rank2[j]]
  BY DEF AtMoved, RankMoved
<1>4. at2 \in [1 .. m -> T] /\ rank2 \in [T -> 1 .. m]
  BY <1>1, <1>2, <1>3
<1> QED BY <1>1, <1>2, <1>4 DEF Places

(* When node i has the links of node z and z's neighbours point to i, the     *)
(* nodes are linked with i at the place of z.                                 *)
LEMMA LinksMoved ==
  ASSUME NEW m \in Nat, NEW S, NEW at, NEW rank, Places(S, m, at, rank),
         NEW z \in S, NEW i, i \notin S, None \notin S,
         NEW nodes, Links(nodes, S, m, at, rank),
         NEW new,
         new[i].prev = nodes[z].prev /\ new[i].next = nodes[z].next,
         \A j \in S \ {z} :
           /\ new[j].next = IF j = nodes[z].prev THEN i ELSE nodes[j].next
           /\ new[j].prev = IF j = nodes[z].next THEN i ELSE nodes[j].prev
  PROVE  Links(new, (S \ {z}) \cup {i}, m, AtMoved(at, m, z, i), RankMoved(rank, S, z, i))
<1> DEFINE T == (S \ {z}) \cup {i}
           at2 == AtMoved(at, m, z, i)
           rank2 == RankMoved(rank, S, z, i)
           r == rank[z]
<1>1. r \in 1 .. m /\ at[r] = z
  BY DEF Places
<1>2. \A p \in 1 .. m : at[p] = z <=> p = r
  BY <1>1 DEF Places
<1>3. \A p \in 1 .. m : at2[p] = IF p = r THEN i ELSE at[p]
  BY <1>2 DEF AtMoved
<1>4. /\ nodes[z].prev = IF r = 1 THEN None ELSE at[r - 1]
      /\ nodes[z].next = IF r = m THEN None ELSE at[r + 1]
  BY DEF Links
<1>5. /\ new[i].prev = IF rank2[i] = 1 THEN None ELSE at2[rank2[i] - 1]
      /\ new[i].next = IF rank2[i] = m THEN None ELSE at2[rank2[i] + 1]
  <2>1. rank2[i] = r
    BY DEF RankMoved
  <2>2. /\ r # 1 => r - 1 \in 1 .. m /\ r - 1 # r
        /\ r # m => r + 1 \in 1 .. m /\ r + 1 # r
    BY <1>1
  <2> HIDE DEF r, at2, rank2
  <2> QED BY <1>3, <1>4, <2>1, <2>2
<1>6. ASSUME NEW j \in S \ {z}
      PROVE  /\ new[j].prev = IF rank2[j] = 1 THEN None ELSE at2[rank2[j] - 1]
             /\ new[j].next = IF rank2[j] = m THEN None ELSE at2[rank2[j] + 1]
  <2> DEFINE q == rank[j]
  <2>1. q \in 1 .. m /\ at[q] = j /\ q # r
    BY <1>1 DEF Places
  <2>2. rank2[j] = q
    BY DEF RankMoved
  <2>3. /\ nodes[j].prev = IF q = 1 THEN None ELSE at[q - 1]
        /\ nodes[j].next = IF q = m THEN None ELSE at[q + 1]
    BY DEF Links
  <2>4. \A p \in 1 .. m : at[p] = j <=> p = q
    BY <2>1 DEF Places
  <2>5. /\ q # 1 => q - 1 \in 1 .. m
        /\ q # m => q + 1 \in 1 .. m
        /\ r # 1 => r - 1 \in 1 .. m
        /\ r # m => r + 1 \in 1 .. m
    BY <1>1, <2>1
  <2> HIDE DEF q, r, at2, rank2
  <2>6. /\ j = nodes[z].prev <=> q = r - 1
        /\ j = nodes[z].next <=> q = r + 1
    BY <1>1, <1>4, <2>1, <2>4, <2>5
  <2>7. new[j].next = IF rank2[j] = m THEN None ELSE at2[rank2[j] + 1]
    BY <1>1, <1>3, <2>1, <2>2, <2>3, <2>5, <2>6
  <2>8. new[j].prev = IF rank2[j] = 1 THEN None ELSE at2[rank2[j] - 1]
    BY <1>1, <1>3, <2>1, <2>2, <2>3, <2>5, <2>6
  <2> QED BY <2>7, <2>8
<1> QED
  BY <1>5, <1>6 DEF Links

-------------------------------------------------------------------------------
(* Arenas                                                                    *)

Fields(a) == DOMAIN a = {"idx_of", "nodes", "head", "tail"}

(* The n nodes of a, with items of X, are the list given by at and rank.     *)
IsList(a, X, n, at, rank) ==
  /\ Fields(a)
  /\ a.nodes \in [1 .. n -> Nodes(X)]
  /\ Places(1 .. n, n, at, rank)
  /\ Links(a.nodes, 1 .. n, n, at, rank)
  /\ a.head = First(n, at)
  /\ a.tail \in {None, Last(n, at)}

(* And idx_of is the index of the items.                                    *)
IsArena(a, X, n, at, rank) ==
  /\ IsList(a, X, n, at, rank)
  /\ a.idx_of = [x \in Items(a) |-> a.idx_of[x]]
  /\ \A i \in 1 .. n : a.nodes[i].item \in Items(a) /\ a.idx_of[a.nodes[i].item] = i
  /\ \A x \in Items(a) : a.idx_of[x] \in 1 .. n /\ a.nodes[a.idx_of[x]].item = x

(* The tail is the last node, and None only if there is no node.            *)
TailKnown(a, n, at) == a.tail = Last(n, at)

Content(a, n, at) == [p \in 1 .. n |-> a.nodes[at[p]].item]

(* The contents c with x in front, with the r-th in front, without the r-th. *)
Pushed(c, n, x) == [p \in 1 .. n + 1 |-> IF p = 1 THEN x ELSE c[p - 1]]

Raised(c, n, r) == [p \in 1 .. n |-> IF p = 1 THEN c[r] ELSE IF p <= r THEN c[p - 1] ELSE c[p]]

Dropped(c, n, r) == [p \in 1 .. n - 1 |-> IF p < r THEN c[p] ELSE c[p + 1]]

(* What unlink_node does to each field.                                       *)
LEMMA UnlinkFields ==
  ASSUME NEW a, Fields(a), NEW i
  PROVE  /\ Fields(Unlink(a, i))
         /\ Unlink(a, i).idx_of = a.idx_of
         /\ Unlink(a, i).nodes =
               SetPrev(SetNext(a.nodes, a.nodes[i].prev, a.nodes[i].next),
                       a.nodes[i].next, a.nodes[i].prev)
         /\ Unlink(a, i).head = IF a.nodes[i].prev = None THEN a.nodes[i].next ELSE a.head
         /\ Unlink(a, i).tail = IF a.nodes[i].next = None THEN a.nodes[i].prev ELSE a.tail
<1> DEFINE node == a.nodes[i]
           x == SetPrev(SetNext(a.nodes, node.prev, node.next), node.next, node.prev)
           y == IF node.prev = None THEN node.next ELSE a.head
           z == IF node.next = None THEN node.prev ELSE a.tail
<1>1. Unlink(a, i) = [a EXCEPT !.nodes = x, !.head = y, !.tail = z]
  BY DEF Unlink
<1> HIDE DEF x, y, z
<1>2. /\ Fields(Unlink(a, i))
      /\ Unlink(a, i).idx_of = a.idx_of
      /\ Unlink(a, i).nodes = x
      /\ Unlink(a, i).head = y
      /\ Unlink(a, i).tail = z
  BY <1>1 DEF Fields
<1> QED BY <1>2 DEF x, y, z

(* Node i is taken out of the list but not yet out of the Vec.              *)
LEMMA UnlinkIs ==
  ASSUME None \notin Nat, NEW X, NEW n \in Nat, NEW a, NEW at, NEW rank,
         IsArena(a, X, n, at, rank), NEW i \in 1 .. n,
         NEW u, u = Unlink(a, i), NEW at2, at2 = AtWithout(at, n, rank[i]),
         NEW rank2, rank2 = RankWithout(rank, 1 .. n, i)
  PROVE  /\ Fields(u)
         /\ u.idx_of = a.idx_of
         /\ u.nodes \in [1 .. n -> Nodes(X)]
         /\ \A j \in 1 .. n : u.nodes[j].item = a.nodes[j].item
         /\ Places((1 .. n) \ {i}, n - 1, at2, rank2)
         /\ Links(u.nodes, (1 .. n) \ {i}, n - 1, at2, rank2)
         /\ u.head = First(n - 1, at2)
         /\ u.tail \in {None, Last(n - 1, at2)}
         /\ TailKnown(a, n, at) => TailKnown(u, n - 1, at2)
<1> DEFINE prev == a.nodes[i].prev
           next == a.nodes[i].next
           mid == SetNext(a.nodes, prev, next)
           r == rank[i]
<1>1. /\ Places(1 .. n, n, at, rank)
      /\ Links(a.nodes, 1 .. n, n, at, rank)
      /\ a.nodes \in [1 .. n -> Nodes(X)]
      /\ Fields(a)
      /\ a.head = First(n, at)
      /\ a.tail \in {None, Last(n, at)}
  BY DEF IsArena, IsList
<1>2. r \in 1 .. n /\ at[r] = i
  BY <1>1 DEF Places
<1>3. /\ prev = IF r = 1 THEN None ELSE at[r - 1]
      /\ next = IF r = n THEN None ELSE at[r + 1]
  BY <1>1 DEF Links
<1>4. /\ prev \in (1 .. n) \cup {None} /\ (prev = None <=> r = 1)
      /\ next \in (1 .. n) \cup {None} /\ (next = None <=> r = n)
  <2>1. /\ r # 1 => r - 1 \in 1 .. n
        /\ r # n => r + 1 \in 1 .. n
    BY <1>2
  <2>2. \A p \in 1 .. n : at[p] \in 1 .. n
    BY <1>1 DEF Places
  <2> QED BY <1>3, <2>1, <2>2
<1>5. /\ Fields(u)
      /\ u.idx_of = a.idx_of
      /\ u.nodes = SetPrev(mid, next, prev)
      /\ u.head = IF prev = None THEN next ELSE a.head
      /\ u.tail = IF next = None THEN prev ELSE a.tail
  BY <1>1, UnlinkFields
<1> HIDE DEF prev, next
<1>6. /\ mid \in [1 .. n -> Nodes(X)]
      /\ NextSet(mid, a.nodes, n, prev, next)
  <2>1. prev \in (1 .. n) \cup {None} /\ next \in Nat \cup {None}
    BY <1>4
  <2>2. a.nodes \in [1 .. n -> Nodes(X)]
    BY <1>1
  <2> QED BY <2>1, <2>2, SetNextIs
<1> HIDE DEF mid
<1>7. /\ u.nodes \in [1 .. n -> Nodes(X)]
      /\ \A j \in 1 .. n : /\ u.nodes[j].item = a.nodes[j].item
                           /\ u.nodes[j].next = IF j = prev THEN next ELSE a.nodes[j].next
                           /\ u.nodes[j].prev = IF j = next THEN prev ELSE a.nodes[j].prev
  <2>1. prev \in Nat \cup {None}
    BY <1>4
  <2>2. next \in (1 .. n) \cup {None}
    BY <1>4
  <2>3. mid \in [1 .. n -> Nodes(X)]
    BY <1>6
  <2>4. /\ SetPrev(mid, next, prev) \in [1 .. n -> Nodes(X)]
        /\ PrevSet(SetPrev(mid, next, prev), mid, n, next, prev)
    BY <2>1, <2>2, <2>3, SetPrevIs
  <2>5. u.nodes \in [1 .. n -> Nodes(X)] /\ PrevSet(u.nodes, mid, n, next, prev)
    BY <1>5, <2>4
  <2> QED BY <1>6, <2>5 DEF PrevSet, NextSet
<1>8. Places((1 .. n) \ {i}, n - 1, at2, rank2)
  BY <1>1, PlacesWithout
<1>9. Links(u.nodes, (1 .. n) \ {i}, n - 1, at2, rank2)
  <2>1. a.nodes[i].prev = prev /\ a.nodes[i].next = next
    BY DEF prev, next
  <2>2. \A j \in 1 .. n :
          /\ u.nodes[j].next = IF j = a.nodes[i].prev THEN a.nodes[i].next ELSE a.nodes[j].next
          /\ u.nodes[j].prev = IF j = a.nodes[i].next THEN a.nodes[i].prev ELSE a.nodes[j].prev
    BY <1>7, <2>1
  <2>3. Places(1 .. n, n, at, rank)
    BY <1>1
  <2>4. Links(a.nodes, 1 .. n, n, at, rank)
    BY <1>1
  <2> QED BY <2>2, <2>3, <2>4, UnlinkLinks
<1>10. \A p \in 1 .. n - 1 : at2[p] = IF p < r THEN at[p] ELSE at[p + 1]
  BY DEF AtWithout
<1> HIDE DEF r
<1>11. u.head = First(n - 1, at2)
  BY <1>1, <1>2, <1>3, <1>4, <1>5, <1>10 DEF First
<1>12. /\ r = n => prev = Last(n - 1, at2)
       /\ r # n => Last(n, at) = Last(n - 1, at2)
  BY <1>2, <1>3, <1>10 DEF Last
<1>13. /\ u.tail \in {None, Last(n - 1, at2)}
       /\ TailKnown(a, n, at) => TailKnown(u, n - 1, at2)
  BY <1>1, <1>4, <1>5, <1>12 DEF TailKnown
<1> QED
  BY <1>5, <1>7, <1>8, <1>9, <1>11, <1>13

(* The Vec, and its length.                                                 *)
LEMMA VecLen ==
  ASSUME NEW X, NEW n \in Nat, NEW s \in [1 .. n -> X]
  PROVE  s \in Seq(X) /\ Len(s) = n /\ DOMAIN s = 1 .. n
  OBVIOUS

(* A new node in front                                                      *)
LEMMA InsertHeadIs ==
  ASSUME None \notin Nat, NEW X, NEW n \in Nat, NEW a, NEW at, NEW rank,
         IsArena(a, X, n, at, rank), NEW item \in X, item \notin Items(a),
         NEW b, b = InsertHead(a, item), NEW at2, at2 = AtWith(at, n, n + 1),
         NEW rank2, rank2 = RankWith(rank, 1 .. n, n + 1)
  PROVE  /\ IsArena(b, X, n + 1, at2, rank2)
         /\ Items(b) = Items(a) \cup {item}
         /\ TailKnown(a, n, at) => TailKnown(b, n + 1, at2)
         /\ Content(b, n + 1, at2) = Pushed(Content(a, n, at), n, item)
<1> DEFINE i == n + 1
           old == SetPrev(a.nodes, a.head, i)
           node == NewNode(item, None, a.head)
<1>1. /\ Places(1 .. n, n, at, rank)
      /\ Links(a.nodes, 1 .. n, n, at, rank)
      /\ a.nodes \in [1 .. n -> Nodes(X)]
      /\ a.head = First(n, at)
      /\ a.tail \in {None, Last(n, at)}
  BY DEF IsArena, IsList
<1>2. a.head \in (1 .. n) \cup {None} /\ (a.head = None <=> n = 0)
  BY <1>1 DEF First, Places
<1>3. /\ old \in [1 .. n -> Nodes(X)]
      /\ PrevSet(old, a.nodes, n, a.head, i)
  <2>1. a.nodes \in [1 .. n -> Nodes(X)] /\ i \in Nat \cup {None}
    BY <1>1
  <2> QED BY <1>2, <2>1, SetPrevIs
<1>4. /\ Len(a.nodes) = n /\ Len(old) = n
      /\ old \in Seq(Nodes(X))
  BY <1>1, <1>3, VecLen
<1>5. /\ node \in Nodes(X)
      /\ node.item = item /\ node.prev = None /\ node.next = a.head
  BY <1>2 DEF NewNode, Nodes
<1>6. /\ b.nodes = Append(old, node)
      /\ b.idx_of = PutIndex(a.idx_of, item, i)
      /\ b.head = i
      /\ b.tail = IF a.head = None THEN i ELSE a.tail
      /\ Fields(b)
  BY <1>4 DEF InsertHead, Fields
<1> HIDE DEF old, node
<1>7. /\ b.nodes \in [1 .. n + 1 -> Nodes(X)]
      /\ b.nodes[n + 1] = node
      /\ \A j \in 1 .. n : b.nodes[j] = old[j]
  <2> DEFINE Y == Nodes(X)
             t == Append(old, node)
  <2>1. old \in Seq(Y) /\ node \in Y
    BY <1>4, <1>5
  <2> HIDE DEF Y
  <2>2. /\ t \in Seq(Y)
        /\ Len(t) = Len(old) + 1
        /\ \A j \in 1 .. Len(old) : t[j] = old[j]
        /\ t[Len(old) + 1] = node
    BY <2>1, AppendProperties
  <2>3. b.nodes = t
    BY <1>6
  <2> HIDE DEF t
  <2>4. Len(t) = n + 1 /\ t[n + 1] = node /\ \A j \in 1 .. n : t[j] = old[j]
    BY <1>4, <2>2
  <2>5. t \in [1 .. n + 1 -> Y]
    BY <2>2, <2>4
  <2> QED BY <2>3, <2>4, <2>5 DEF Y
<1>8. (1 .. n) \cup {n + 1} = 1 .. n + 1
  OBVIOUS
<1>9. Places(1 .. n + 1, n + 1, at2, rank2)
  <2>1. n + 1 \notin 1 .. n
    OBVIOUS
  <2> QED BY <1>1, <1>8, <2>1, PlacesWith
<1>10. Links(b.nodes, 1 .. n + 1, n + 1, at2, rank2)
  <2>1. n + 1 \notin 1 .. n /\ None \notin 1 .. n
    OBVIOUS
  <2>2. b.nodes[n + 1].prev = None /\ b.nodes[n + 1].next = First(n, at)
    BY <1>1, <1>5, <1>7
  <2>3. \A j \in 1 .. n :
          /\ b.nodes[j].next = a.nodes[j].next
          /\ b.nodes[j].prev = IF j = First(n, at) THEN n + 1 ELSE a.nodes[j].prev
    BY <1>1, <1>3, <1>7 DEF PrevSet
  <2> QED BY <1>1, <1>8, <2>1, <2>2, <2>3, LinksWith
<1>11. /\ at2[1] = n + 1
       /\ \A p \in 1 .. n : at2[p + 1] = at[p]
       /\ at2 = [p \in 1 .. n + 1 |-> IF p = 1 THEN n + 1 ELSE at[p - 1]]
  BY DEF AtWith
<1>12. b.head = First(n + 1, at2)
  BY <1>6, <1>11 DEF First
<1>13. /\ b.tail \in {None, Last(n + 1, at2)}
       /\ TailKnown(a, n, at) => TailKnown(b, n + 1, at2)
  BY <1>1, <1>2, <1>6, <1>11 DEF Last, TailKnown
<1>14. /\ Items(b) = Items(a) \cup {item}
       /\ b.idx_of = [x \in Items(b) |-> b.idx_of[x]]
       /\ b.idx_of[item] = n + 1
       /\ \A x \in Items(a) : b.idx_of[x] = a.idx_of[x]
  BY <1>6 DEF PutIndex, Items
<1>15. \A j \in 1 .. n + 1 : b.nodes[j].item \in Items(b) /\ b.idx_of[b.nodes[j].item] = j
  <2>1. \A j \in 1 .. n : a.nodes[j].item \in Items(a) /\ a.idx_of[a.nodes[j].item] = j
    BY DEF IsArena, IsList
  <2>2. b.nodes[n + 1].item = item /\ \A j \in 1 .. n : b.nodes[j].item = a.nodes[j].item
    BY <1>3, <1>5, <1>7 DEF PrevSet
  <2> QED BY <1>14, <2>1, <2>2
<1>16. \A x \in Items(b) : b.idx_of[x] \in 1 .. n + 1 /\ b.nodes[b.idx_of[x]].item = x
  <2>1. \A x \in Items(a) : a.idx_of[x] \in 1 .. n /\ a.nodes[a.idx_of[x]].item = x
    BY DEF IsArena, IsList
  <2>2. b.nodes[n + 1].item = item /\ \A j \in 1 .. n : b.nodes[j].item = a.nodes[j].item
    BY <1>3, <1>5, <1>7 DEF PrevSet
  <2>3. 1 .. n \subseteq 1 .. n + 1 /\ n + 1 \in 1 .. n + 1
    OBVIOUS
  <2> QED BY <1>14, <2>1, <2>2, <2>3
<1>17. IsArena(b, X, n + 1, at2, rank2)
  BY <1>6, <1>7, <1>9, <1>10, <1>12, <1>13, <1>14, <1>15, <1>16 DEF IsArena, IsList
<1>18. Content(b, n + 1, at2) =
         [p \in 1 .. n + 1 |-> IF p = 1 THEN item ELSE Content(a, n, at)[p - 1]]
  <2>1. ASSUME NEW p \in 1 .. n + 1
        PROVE  b.nodes[at2[p]].item = IF p = 1 THEN item ELSE Content(a, n, at)[p - 1]
    <3>1. CASE p = 1
      BY <1>5, <1>7, <1>11, <3>1
    <3>2. CASE p # 1
      <4>1. p - 1 \in 1 .. n /\ at2[p] = at[p - 1]
        BY <1>11, <3>2
      <4>2. at[p - 1] \in 1 .. n
        BY <1>1, <4>1 DEF Places
      <4> QED BY <1>3, <1>7, <3>2, <4>1, <4>2 DEF Content, PrevSet
    <3> QED BY <3>1, <3>2
  <2> QED BY <2>1 DEF Content
<1>19. Content(b, n + 1, at2) = Pushed(Content(a, n, at), n, item)
  BY <1>18 DEF Pushed
<1> QED BY <1>13, <1>14, <1>17, <1>19

-------------------------------------------------------------------------------
(* Node i in front                                                           *)

(* What move_to_head does to each field after unlink_node.                    *)
LEMMA MoveToHeadFields ==
  ASSUME NEW a, NEW i, NEW u, u = Unlink(a, i), Fields(u)
  PROVE  LET b == MoveToHead(a, i)
         IN  /\ Fields(b)
             /\ b.idx_of = u.idx_of
             /\ b.nodes = SetPrev(SetNext(SetPrev(u.nodes, i, None), i, u.head), u.head, i)
             /\ b.head = i
             /\ b.tail = u.tail
<1> DEFINE x == SetPrev(SetNext(SetPrev(u.nodes, i, None), i, u.head), u.head, i)
<1>1. MoveToHead(a, i) = [u EXCEPT !.nodes = x, !.head = i]
  BY DEF MoveToHead
<1> HIDE DEF x
<1>2. LET b == MoveToHead(a, i)
      IN  Fields(b) /\ b.idx_of = u.idx_of /\ b.nodes = x /\ b.head = i /\ b.tail = u.tail
  BY <1>1 DEF Fields
<1> QED BY <1>2 DEF x

(* When the node was not alone the tail stays known.                        *)
LEMMA MoveToHeadIs ==
  ASSUME None \notin Nat, NEW X, NEW n \in Nat, NEW a, NEW at, NEW rank,
         IsArena(a, X, n, at, rank), NEW i \in 1 .. n,
         NEW b, b = MoveToHead(a, i),
         NEW at2, at2 = AtWith(AtWithout(at, n, rank[i]), n - 1, i),
         NEW rank2, rank2 = RankWith(RankWithout(rank, 1 .. n, i), (1 .. n) \ {i}, i)
  PROVE  /\ IsArena(b, X, n, at2, rank2)
         /\ Items(b) = Items(a)
         /\ n # 1 /\ TailKnown(a, n, at) => TailKnown(b, n, at2)
         /\ Content(b, n, at2) = Raised(Content(a, n, at), n, rank[i])
<1> DEFINE u == Unlink(a, i)
           S == (1 .. n) \ {i}
           at1 == AtWithout(at, n, rank[i])
           rank1 == RankWithout(rank, 1 .. n, i)
           m == n - 1
           x == SetPrev(u.nodes, i, None)
           y == SetNext(x, i, u.head)
<1>1. /\ Fields(u)
      /\ u.idx_of = a.idx_of
      /\ u.nodes \in [1 .. n -> Nodes(X)]
      /\ \A j \in 1 .. n : u.nodes[j].item = a.nodes[j].item
      /\ Places(S, m, at1, rank1)
      /\ Links(u.nodes, S, m, at1, rank1)
      /\ u.head = First(m, at1)
      /\ u.tail \in {None, Last(m, at1)}
      /\ TailKnown(a, n, at) => TailKnown(u, m, at1)
  BY UnlinkIs
<1>2. /\ Fields(b)
      /\ b.idx_of = u.idx_of
      /\ b.nodes = SetPrev(y, u.head, i)
      /\ b.head = i
      /\ b.tail = u.tail
  BY <1>1, MoveToHeadFields
<1>3. m \in Nat /\ i \notin S /\ None \notin S /\ S \cup {i} = 1 .. n /\ m + 1 = n
  OBVIOUS
<1> HIDE DEF u, at1, rank1
<1>4. /\ u.head \in S \cup {None}
      /\ u.head \in (1 .. n) \cup {None}
      /\ u.head \in Nat \cup {None}
  BY <1>1, <1>3 DEF First, Places
<1>5. /\ x \in [1 .. n -> Nodes(X)]
      /\ PrevSet(x, u.nodes, n, i, None)
  <2>1. u.nodes \in [1 .. n -> Nodes(X)] /\ i \in (1 .. n) \cup {None} /\ None \in Nat \cup {None}
    BY <1>1
  <2> QED BY <2>1, SetPrevIs
<1> HIDE DEF x
<1>6. /\ y \in [1 .. n -> Nodes(X)]
      /\ NextSet(y, x, n, i, u.head)
  <2>1. x \in [1 .. n -> Nodes(X)] /\ i \in (1 .. n) \cup {None}
    BY <1>5
  <2> QED BY <1>4, <2>1, SetNextIs
<1> HIDE DEF y
<1>7. /\ b.nodes \in [1 .. n -> Nodes(X)]
      /\ PrevSet(b.nodes, y, n, u.head, i)
  <2>1. y \in [1 .. n -> Nodes(X)] /\ i \in Nat \cup {None}
    BY <1>6
  <2>2. /\ SetPrev(y, u.head, i) \in [1 .. n -> Nodes(X)]
        /\ PrevSet(SetPrev(y, u.head, i), y, n, u.head, i)
    BY <1>4, <2>1, SetPrevIs
  <2> QED BY <1>2, <2>2
<1>8. \A j \in 1 .. n : b.nodes[j].item = a.nodes[j].item
  BY <1>1, <1>5, <1>6, <1>7 DEF PrevSet, NextSet
<1>9. Places(1 .. n, n, at2, rank2)
  BY <1>1, <1>3, PlacesWith DEF at1, rank1
<1>10. Links(b.nodes, 1 .. n, n, at2, rank2)
  <2>1. b.nodes[i].prev = None /\ b.nodes[i].next = First(m, at1)
    BY <1>1, <1>3, <1>4, <1>5, <1>6, <1>7 DEF PrevSet, NextSet
  <2>2. \A j \in S :
          /\ b.nodes[j].next = u.nodes[j].next
          /\ b.nodes[j].prev = IF j = First(m, at1) THEN i ELSE u.nodes[j].prev
    BY <1>1, <1>3, <1>5, <1>6, <1>7 DEF PrevSet, NextSet
  <2>a. Places(S, m, at1, rank1)
    BY <1>1
  <2>b. Links(u.nodes, S, m, at1, rank1)
    BY <1>1
  <2>3. Links(b.nodes, S \cup {i}, m + 1, AtWith(at1, m, i), RankWith(rank1, S, i))
    <3>1. m \in Nat /\ i \notin S /\ None \notin S
      BY <1>3
    <3> HIDE DEF S, m
    <3> QED BY <2>a, <2>b, <2>1, <2>2, <3>1, LinksWith
  <2> QED BY <1>3, <2>3 DEF at1, rank1
<1>11. /\ at2[1] = i
       /\ \A p \in 1 .. m : at2[p + 1] = at1[p]
       /\ \A p \in 1 .. m : at1[p] = IF p < rank[i] THEN at[p] ELSE at[p + 1]
  BY DEF AtWith, AtWithout, at1
<1>12. b.head = First(n, at2)
  BY <1>2, <1>11 DEF First
<1>13. /\ m # 0 => Last(n, at2) = Last(m, at1)
       /\ b.tail \in {None, Last(n, at2)}
       /\ n # 1 /\ TailKnown(a, n, at) => TailKnown(b, n, at2)
  <2>1. m # 0 => Last(n, at2) = Last(m, at1)
    BY <1>3, <1>11 DEF Last
  <2>2. m = 0 => Last(m, at1) = None
    BY DEF Last
  <2> QED BY <1>1, <1>2, <2>1, <2>2 DEF TailKnown
<1>14. Items(b) = Items(a) /\ b.idx_of = a.idx_of
  BY <1>1, <1>2 DEF Items
<1>15. IsArena(b, X, n, at2, rank2)
  <2>1. IsList(b, X, n, at2, rank2)
    BY <1>2, <1>7, <1>9, <1>10, <1>12, <1>13 DEF IsList
  <2>2. /\ a.idx_of = [z \in Items(a) |-> a.idx_of[z]]
        /\ \A j \in 1 .. n : a.nodes[j].item \in Items(a) /\ a.idx_of[a.nodes[j].item] = j
        /\ \A z \in Items(a) : a.idx_of[z] \in 1 .. n /\ a.nodes[a.idx_of[z]].item = z
    BY DEF IsArena
  <2>3. b.idx_of = [z \in Items(b) |-> b.idx_of[z]]
    BY <1>14, <2>2
  <2>4. \A j \in 1 .. n : b.nodes[j].item \in Items(b) /\ b.idx_of[b.nodes[j].item] = j
    BY <1>8, <1>14, <2>2
  <2>5. ASSUME NEW z \in Items(b)
        PROVE  b.idx_of[z] \in 1 .. n /\ b.nodes[b.idx_of[z]].item = z
    <3>1. a.idx_of[z] \in 1 .. n /\ a.nodes[a.idx_of[z]].item = z
      BY <1>14, <2>2
    <3> QED BY <1>8, <1>14, <3>1
  <2> QED BY <2>1, <2>3, <2>4, <2>5 DEF IsArena
<1>16. Content(b, n, at2) =
         [p \in 1 .. n |-> IF p = 1 THEN a.nodes[i].item
                           ELSE IF p <= rank[i] THEN Content(a, n, at)[p - 1]
                           ELSE Content(a, n, at)[p]]
  <2>1. ASSUME NEW p \in 1 .. n
        PROVE  b.nodes[at2[p]].item =
                 IF p = 1 THEN a.nodes[i].item
                 ELSE IF p <= rank[i] THEN Content(a, n, at)[p - 1]
                 ELSE Content(a, n, at)[p]
    <3>1. CASE p = 1
      BY <1>8, <1>11, <3>1
    <3>2. CASE p # 1
      <4>1. p - 1 \in 1 .. m /\ (p - 1) + 1 = p /\ rank[i] \in 1 .. n
        BY <3>2 DEF IsArena, IsList, Places
      <4>a. at2[p] = at1[p - 1]
        BY <1>11, <4>1
      <4>2. at2[p] = IF p <= rank[i] THEN at[p - 1] ELSE at[p]
        BY <1>11, <4>1, <4>a
      <4>3. at2[p] \in 1 .. n
        BY <1>9 DEF Places
      <4>4. p - 1 \in 1 .. n
        BY <4>1
      <4> QED BY <1>8, <3>2, <4>2, <4>3, <4>4 DEF Content
    <3> QED BY <3>1, <3>2
  <2> QED BY <2>1 DEF Content
<1>17. Content(a, n, at)[rank[i]] = a.nodes[i].item
  <2>1. rank[i] \in 1 .. n /\ at[rank[i]] = i
    BY DEF IsArena, IsList, Places
  <2> QED BY <2>1 DEF Content
<1>18. Content(b, n, at2) = Raised(Content(a, n, at), n, rank[i])
  BY <1>16, <1>17 DEF Raised
<1> QED BY <1>13, <1>14, <1>15, <1>18

-------------------------------------------------------------------------------
(* Without node i, whose place in the Vec the last node takes                *)

(* new is s with its last element in the place of element i.                 *)
Shortened(new, s, n, i) ==
  \A j \in 1 .. n - 1 : new[j] = IF j = i THEN s[n] ELSE s[j]

(* What Vec::swap_remove leaves.                                              *)
LEMMA SwapRemoveIs ==
  ASSUME NEW X, NEW n \in Nat \ {0}, NEW s \in [1 .. n -> X], NEW i \in 1 .. n
  PROVE  /\ SwapRemove(s, i) \in [1 .. n - 1 -> X]
         /\ Shortened(SwapRemove(s, i), s, n, i)
<1> USE DEF Shortened
<1> DEFINE t == [s EXCEPT ![i] = s[n]]
<1>1. t \in [1 .. n -> X] /\ \A j \in 1 .. n : t[j] = IF j = i THEN s[n] ELSE s[j]
  OBVIOUS
<1> HIDE DEF t
<1>2. Len(s) = n /\ t \in Seq(X) /\ Len(t) = n
  BY <1>1, VecLen
<1>3. SwapRemove(s, i) = SubSeq(t, 1, n - 1)
  BY <1>2 DEF SwapRemove, t
<1>4. /\ SubSeq(t, 1, n - 1) \in [1 .. n - 1 -> X]
      /\ \A j \in 1 .. n - 1 : SubSeq(t, 1, n - 1)[j] = t[j]
  <2>1. \A j \in 1 .. n - 1 : t[j] \in X
    BY <1>1
  <2>2. /\ SubSeq(t, 1, n - 1) \in Seq(X)
        /\ Len(SubSeq(t, 1, n - 1)) = IF 1 <= n - 1 THEN (n - 1) - 1 + 1 ELSE 0
        /\ \A j \in 1 .. (n - 1) - 1 + 1 : SubSeq(t, 1, n - 1)[j] = t[1 + j - 1]
    BY <2>1, SubSeqProperties
  <2>3. Len(SubSeq(t, 1, n - 1)) = n - 1
    BY <2>2
  <2>4. SubSeq(t, 1, n - 1) \in [1 .. n - 1 -> X]
    BY <2>2, <2>3, LenProperties
  <2>5. \A j \in 1 .. n - 1 : j \in 1 .. (n - 1) - 1 + 1 /\ 1 + j - 1 = j
    OBVIOUS
  <2> QED BY <2>2, <2>4, <2>5
<1> QED BY <1>1, <1>3, <1>4

(* What the end of remove does to each field: the neighbours of the node that *)
(* swap_remove has moved point to its new index.                              *)
LEMMA RelinkFields ==
  ASSUME NEW a, Fields(a), NEW i
  PROVE  /\ Fields(Relink(a, i))
         /\ Relink(a, i).idx_of = a.idx_of
         /\ Relink(a, i).nodes =
               SetPrev(SetNext(a.nodes, a.nodes[i].prev, i), a.nodes[i].next, i)
         /\ Relink(a, i).head = IF a.nodes[i].prev = None THEN i ELSE a.head
         /\ Relink(a, i).tail = IF a.nodes[i].next = None THEN i ELSE a.tail
<1> DEFINE node == a.nodes[i]
           x == SetPrev(SetNext(a.nodes, node.prev, i), node.next, i)
           y == IF node.prev = None THEN i ELSE a.head
           z == IF node.next = None THEN i ELSE a.tail
<1>1. Relink(a, i) = [a EXCEPT !.nodes = x, !.head = y, !.tail = z]
  BY DEF Relink
<1> HIDE DEF x, y, z
<1>2. /\ Fields(Relink(a, i))
      /\ Relink(a, i).idx_of = a.idx_of
      /\ Relink(a, i).nodes = x
      /\ Relink(a, i).head = y
      /\ Relink(a, i).tail = z
  BY <1>1 DEF Fields
<1> QED BY <1>2 DEF x, y, z

(* The list of a, in which node i still goes by the index z, as it did among *)
(* the old nodes.                                                           *)
Swapped(a, nodes, X, z, i, at, rank) ==
  /\ nodes \in [1 .. z -> Nodes(X)]
  /\ Places((1 .. z) \ {i}, z - 1, at, rank)
  /\ Links(nodes, (1 .. z) \ {i}, z - 1, at, rank)
  /\ Fields(a)
  /\ a.nodes \in [1 .. z - 1 -> Nodes(X)]
  /\ \A j \in 1 .. z - 1 : a.nodes[j] = IF j = i THEN nodes[z] ELSE nodes[j]
  /\ a.head = First(z - 1, at)
  /\ a.tail \in {None, Last(z - 1, at)}

(* It makes a list again of nodes of which one has changed its index.         *)
LEMMA RelinkIs ==
  ASSUME None \notin Nat, NEW X, NEW z \in Nat, NEW i \in 1 .. z - 1,
         NEW nodes, NEW at, NEW rank, NEW a, Swapped(a, nodes, X, z, i, at, rank),
         NEW b, b = Relink(a, i),
         NEW at2, at2 = AtMoved(at, z - 1, z, i),
         NEW rank2, rank2 = RankMoved(rank, (1 .. z) \ {i}, z, i)
  PROVE  /\ IsList(b, X, z - 1, at2, rank2)
         /\ b.idx_of = a.idx_of
         /\ \A j \in 1 .. z - 1 : b.nodes[j].item = a.nodes[j].item
         /\ TailKnown(a, z - 1, at) => TailKnown(b, z - 1, at2)
<1> USE DEF Swapped
<1> DEFINE m == z - 1
           S == (1 .. z) \ {i}
           prev == a.nodes[i].prev
           next == a.nodes[i].next
           r == rank[z]
           x == SetNext(a.nodes, prev, i)
<1>1. /\ m \in Nat /\ m # 0 /\ z \in S /\ i \notin S /\ None \notin S
      /\ (S \ {z}) \cup {i} = 1 .. m
      /\ S \ {z} \subseteq 1 .. m
      /\ i \in Nat \cup {None}
  OBVIOUS
<1>2. r \in 1 .. m /\ at[r] = z /\ \A p \in 1 .. m : at[p] \in S /\ (at[p] = z <=> p = r)
  BY <1>1 DEF Places
<1>3. /\ prev = nodes[z].prev /\ prev = IF r = 1 THEN None ELSE at[r - 1]
      /\ next = nodes[z].next /\ next = IF r = m THEN None ELSE at[r + 1]
  BY <1>1 DEF Links
<1>4. /\ prev \in (1 .. m) \cup {None} /\ (prev = None <=> r = 1)
      /\ next \in (1 .. m) \cup {None} /\ (next = None <=> r = m)
  <2>1. /\ r # 1 => r - 1 \in 1 .. m /\ r - 1 # r
        /\ r # m => r + 1 \in 1 .. m /\ r + 1 # r
    <3> HIDE DEF r, m
    <3> QED BY <1>1, <1>2
  <2>2. \A p \in 1 .. m : p # r => at[p] \in 1 .. m
    BY <1>1, <1>2
  <2>3. None \notin 1 .. m
    OBVIOUS
  <2> HIDE DEF r, prev, next, m
  <2> QED BY <1>3, <2>1, <2>2, <2>3
<1>5. /\ Fields(b)
      /\ b.idx_of = a.idx_of
      /\ b.nodes = SetPrev(x, next, i)
      /\ b.head = IF prev = None THEN i ELSE a.head
      /\ b.tail = IF next = None THEN i ELSE a.tail
  BY RelinkFields
<1> HIDE DEF prev, next, m
<1>6. /\ x \in [1 .. m -> Nodes(X)]
      /\ NextSet(x, a.nodes, m, prev, i)
  <2>1. a.nodes \in [1 .. m -> Nodes(X)]
    BY DEF m
  <2> QED BY <1>1, <1>4, <2>1, SetNextIs
<1> HIDE DEF x
<1>7. /\ b.nodes \in [1 .. m -> Nodes(X)]
      /\ PrevSet(b.nodes, x, m, next, i)
  <2>1. /\ SetPrev(x, next, i) \in [1 .. m -> Nodes(X)]
        /\ PrevSet(SetPrev(x, next, i), x, m, next, i)
    BY <1>1, <1>4, <1>6, SetPrevIs
  <2> QED BY <1>5, <2>1
<1>8. \A j \in 1 .. m : /\ b.nodes[j].item = a.nodes[j].item
                        /\ b.nodes[j].next = IF j = prev THEN i ELSE a.nodes[j].next
                        /\ b.nodes[j].prev = IF j = next THEN i ELSE a.nodes[j].prev
  BY <1>6, <1>7 DEF PrevSet, NextSet
<1>9. Places(1 .. m, m, at2, rank2)
  <2>1. Places(S, m, at, rank)
    BY DEF m
  <2>2. Places((S \ {z}) \cup {i}, m, AtMoved(at, m, z, i), RankMoved(rank, S, z, i))
    BY <1>1, <2>1, PlacesMoved
  <2> QED BY <1>1, <2>2 DEF m
<1>10. Links(b.nodes, 1 .. m, m, at2, rank2)
  <2>1. Places(S, m, at, rank) /\ Links(nodes, S, m, at, rank)
    BY DEF m
  <2>2. a.nodes[i].prev = prev /\ a.nodes[i].next = next /\ i \in 1 .. m
    BY DEF prev, next, m
  <2>3. i # prev /\ i # next
    <3>1. /\ r # 1 => r - 1 \in 1 .. m
          /\ r # m => r + 1 \in 1 .. m
      BY <1>1, <1>2
    <3>2. i # None
      OBVIOUS
    <3>3. \A p \in 1 .. m : at[p] # i
      BY <1>2
    <3>4. prev # i
      <4>1. CASE r = 1 BY <1>3, <3>2, <4>1
      <4>2. CASE r # 1 BY <1>3, <3>1, <3>3, <4>2
      <4> QED BY <4>1, <4>2
    <3>5. next # i
      <4>1. CASE r = m BY <1>3, <3>2, <4>1
      <4>2. CASE r # m BY <1>3, <3>1, <3>3, <4>2
      <4> QED BY <4>1, <4>2
    <3> QED BY <3>4, <3>5
  <2>4. b.nodes[i].prev = nodes[z].prev /\ b.nodes[i].next = nodes[z].next
    BY <1>3, <1>8, <2>2, <2>3
  <2>5. \A j \in S \ {z} : j \in 1 .. m /\ a.nodes[j] = nodes[j]
    BY <1>1 DEF m
  <2>6. \A j \in S \ {z} :
          /\ b.nodes[j].next = IF j = nodes[z].prev THEN i ELSE nodes[j].next
          /\ b.nodes[j].prev = IF j = nodes[z].next THEN i ELSE nodes[j].prev
    BY <1>3, <1>8, <2>5
  <2>a. m \in Nat /\ z \in S /\ i \notin S /\ None \notin S
    BY <1>1
  <2>b. Places(S, m, at, rank)
    BY <2>1
  <2>c. Links(nodes, S, m, at, rank)
    BY <2>1
  <2>7. Links(b.nodes, (S \ {z}) \cup {i}, m, AtMoved(at, m, z, i), RankMoved(rank, S, z, i))
    BY <2>a, <2>b, <2>c, <2>4, <2>6, LinksMoved
  <2> QED BY <1>1, <2>7 DEF m
<1>11. \A p \in 1 .. m : at2[p] = IF p = r THEN i ELSE at[p]
  BY <1>2 DEF AtMoved, m
<1> HIDE DEF r
<1>12. b.head = First(m, at2)
  <2>1. a.head = First(m, at)
    BY DEF m
  <2>2. 1 \in 1 .. m
    BY <1>1
  <2> QED BY <1>1, <1>4, <1>5, <1>11, <2>1, <2>2 DEF First
<1>13. /\ b.tail \in {None, Last(m, at2)}
       /\ TailKnown(a, m, at) => TailKnown(b, m, at2)
  <2>1. a.tail \in {None, Last(m, at)}
    BY DEF m
  <2>2. m \in 1 .. m
    BY <1>1
  <2> QED BY <1>1, <1>4, <1>5, <1>11, <2>1, <2>2 DEF Last, TailKnown
<1> QED BY <1>5, <1>7, <1>8, <1>9, <1>10, <1>12, <1>13 DEF m, IsList

(* What the list of a is after node i has been removed.                      *)
AtRemoved(at, n, rank, i) ==
  LET at1 == AtWithout(at, n, rank[i])
  IN  IF i = n THEN at1 ELSE AtMoved(at1, n - 1, n, i)

RankRemoved(n, rank, i) ==
  LET rank1 == RankWithout(rank, 1 .. n, i)
  IN  IF i = n THEN rank1 ELSE RankMoved(rank1, (1 .. n) \ {i}, n, i)

(* The same, for the index of the items and the order of the items.         *)
LEMMA RemoveIs ==
  ASSUME None \notin Nat, NEW X, NEW n \in Nat, NEW a, NEW at, NEW rank,
         IsArena(a, X, n, at, rank), NEW i \in 1 .. n,
         NEW b, b = Remove(a, i),
         NEW at2, at2 = AtRemoved(at, n, rank, i),
         NEW rank2, rank2 = RankRemoved(n, rank, i)
  PROVE  /\ IsArena(b, X, n - 1, at2, rank2)
         /\ Items(b) = Items(a) \ {a.nodes[i].item}
         /\ TailKnown(a, n, at) => TailKnown(b, n - 1, at2)
         /\ Content(b, n - 1, at2) = Dropped(Content(a, n, at), n, rank[i])
<1> DEFINE u == Unlink(a, i)
           S == (1 .. n) \ {i}
           at1 == AtWithout(at, n, rank[i])
           rank1 == RankWithout(rank, 1 .. n, i)
           m == n - 1
           nodes == SwapRemove(u.nodes, i)
           idx_of == DropIndex(u.idx_of, u.nodes[i].item)
           c == [u EXCEPT !.nodes = nodes, !.idx_of = idx_of]
           idx_of2 == PutIndex(c.idx_of, c.nodes[i].item, i)
           d == [c EXCEPT !.idx_of = idx_of2]
           item == a.nodes[i].item
           r == rank[i]
<1>1. /\ Fields(u)
      /\ u.idx_of = a.idx_of
      /\ u.nodes \in [1 .. n -> Nodes(X)]
      /\ \A j \in 1 .. n : u.nodes[j].item = a.nodes[j].item
      /\ Places(S, m, at1, rank1)
      /\ Links(u.nodes, S, m, at1, rank1)
      /\ u.head = First(m, at1)
      /\ u.tail \in {None, Last(m, at1)}
      /\ TailKnown(a, n, at) => TailKnown(u, m, at1)
  BY UnlinkIs
<1>3. b = IF i = n THEN c ELSE Relink(d, i)
  <2>1. Len(u.nodes) = n
    BY <1>1, VecLen
  <2> QED BY <2>1 DEF Remove
<1> HIDE DEF u, nodes, idx_of, idx_of2, at1, rank1
<1>2. /\ Fields(c) /\ c.nodes = nodes /\ c.idx_of = idx_of
      /\ c.head = u.head /\ c.tail = u.tail
  BY <1>1 DEF Fields
<1> HIDE DEF c
<1>2a. /\ Fields(d) /\ d.idx_of = idx_of2
       /\ d.nodes = nodes /\ d.head = u.head /\ d.tail = u.tail
  BY <1>2 DEF Fields
<1> HIDE DEF d
<1>4. /\ nodes \in [1 .. m -> Nodes(X)]
      /\ \A j \in 1 .. m : nodes[j] = IF j = i THEN u.nodes[n] ELSE u.nodes[j]
  <2> DEFINE Y == Nodes(X)
             v == u.nodes
  <2>1. n \in Nat \ {0}
    OBVIOUS
  <2>2. v \in [1 .. n -> Y]
    BY <1>1
  <2>3. nodes = SwapRemove(v, i)
    BY DEF nodes
  <2> HIDE DEF Y, v
  <2>4. Shortened(nodes, v, n, i) /\ nodes \in [1 .. n - 1 -> Y]
    BY <2>1, <2>2, <2>3, SwapRemoveIs
  <2> QED BY <2>4 DEF Shortened, Y, v
<1>5. /\ \A j \in 1 .. n : a.nodes[j].item \in Items(a) /\ a.idx_of[a.nodes[j].item] = j
      /\ \A x \in Items(a) : a.idx_of[x] \in 1 .. n /\ a.nodes[a.idx_of[x]].item = x
  BY DEF IsArena, IsList
<1>6. /\ c.idx_of = [x \in Items(a) \ {item} |-> a.idx_of[x]]
      /\ Items(c) = Items(a) \ {item}
  <2>1. u.nodes[i].item = item
    BY <1>1
  <2> QED BY <1>1, <1>2, <2>1 DEF DropIndex, Items, idx_of
<1>7. ASSUME i = n
      PROVE  /\ IsArena(b, X, m, at2, rank2)
             /\ Items(b) = Items(a) \ {item}
             /\ TailKnown(a, n, at) => TailKnown(b, m, at2)
             /\ \A j \in 1 .. m : b.nodes[j].item = IF j = i THEN a.nodes[n].item ELSE a.nodes[j].item
  <2>1. b = c /\ at2 = at1 /\ rank2 = rank1 /\ S = 1 .. m
    BY <1>3, <1>7 DEF AtRemoved, RankRemoved, at1, rank1
  <2>2. \A j \in 1 .. m : b.nodes[j] = u.nodes[j]
    BY <1>2, <1>4, <1>7, <2>1
  <2>a. Links(u.nodes, 1 .. m, m, at2, rank2)
    BY <1>1, <2>1
  <2>3. Links(b.nodes, 1 .. m, m, at2, rank2)
    BY <2>2, <2>a DEF Links
  <2>4. \A j \in 1 .. m : /\ b.nodes[j].item \in Items(b)
                          /\ b.idx_of[b.nodes[j].item] = j
                          /\ b.nodes[j].item = a.nodes[j].item
    <3>1. \A j \in 1 .. m : j \in 1 .. n /\ j # i
      BY <1>7
    <3>2. \A j \in 1 .. m : b.nodes[j].item = a.nodes[j].item
      BY <1>1, <2>2, <3>1
    <3> QED BY <1>5, <1>6, <2>1, <3>1, <3>2
  <2>5. \A x \in Items(b) : b.idx_of[x] \in 1 .. m /\ b.nodes[b.idx_of[x]].item = x
    <3>1. ASSUME NEW x \in Items(b)
          PROVE  b.idx_of[x] \in 1 .. m
      <4>1. x \in Items(a) /\ x # item /\ b.idx_of[x] = a.idx_of[x]
        BY <1>6, <2>1
      <4>2. a.idx_of[x] \in 1 .. n /\ a.idx_of[x] # i
        BY <1>5, <4>1
      <4> QED BY <1>7, <4>1, <4>2
    <3> QED BY <1>5, <1>6, <2>1, <2>4, <3>1
  <2>6. b.idx_of = [x \in Items(b) |-> b.idx_of[x]]
    BY <1>6, <2>1
  <2>7. IsArena(b, X, m, at2, rank2)
    BY <1>1, <1>2, <1>4, <2>1, <2>3, <2>4, <2>5, <2>6 DEF IsArena, IsList
  <2> QED BY <1>1, <1>2, <1>6, <2>1, <2>4, <2>7 DEF TailKnown
<1>8. ASSUME i # n
      PROVE  /\ IsArena(b, X, m, at2, rank2)
             /\ Items(b) = Items(a) \ {item}
             /\ TailKnown(a, n, at) => TailKnown(b, m, at2)
             /\ \A j \in 1 .. m : b.nodes[j].item = IF j = i THEN a.nodes[n].item ELSE a.nodes[j].item
  <2>1. b = Relink(d, i) /\ at2 = AtMoved(at1, m, n, i) /\ rank2 = RankMoved(rank1, S, n, i)
    BY <1>3, <1>8 DEF AtRemoved, RankRemoved, at1, rank1
  <2>2. i \in 1 .. m /\ n \in 1 .. n
    BY <1>8
  <2>3. Swapped(d, u.nodes, X, n, i, at1, rank1)
    BY <1>1, <1>2a, <1>4 DEF Swapped
  <2>4. /\ IsList(b, X, m, at2, rank2)
        /\ b.idx_of = d.idx_of
        /\ \A j \in 1 .. m : b.nodes[j].item = d.nodes[j].item
        /\ TailKnown(d, m, at1) => TailKnown(b, m, at2)
    BY <2>1, <2>2, <2>3, RelinkIs
  <2>5. TailKnown(a, n, at) => TailKnown(b, m, at2)
    BY <1>1, <1>2a, <2>4 DEF TailKnown
  <2>6. c.nodes[i].item = a.nodes[n].item
    BY <1>1, <1>2, <1>4, <2>2
  <2>7. a.nodes[n].item \in Items(a) \ {item}
    BY <1>5, <1>8, <2>2
  <2>8. /\ Items(b) = Items(a) \ {item}
        /\ \A x \in Items(b) : b.idx_of[x] = IF x = a.nodes[n].item THEN i ELSE a.idx_of[x]
        /\ b.idx_of = [x \in Items(b) |-> b.idx_of[x]]
    <3>1. b.idx_of = [x \in (DOMAIN c.idx_of) \cup {a.nodes[n].item} |->
                        IF x = a.nodes[n].item THEN i ELSE c.idx_of[x]]
      BY <1>2a, <2>4, <2>6 DEF PutIndex, idx_of2
    <3>2. DOMAIN c.idx_of = Items(a) \ {item}
      BY <1>6
    <3>3. (Items(a) \ {item}) \cup {a.nodes[n].item} = Items(a) \ {item}
      BY <2>7
    <3>4. b.idx_of = [x \in Items(a) \ {item} |->
                        IF x = a.nodes[n].item THEN i ELSE c.idx_of[x]]
      BY <3>1, <3>2, <3>3
    <3>5. Items(b) = Items(a) \ {item}
      BY <3>4 DEF Items
    <3> QED BY <1>6, <3>4, <3>5
  <2>9. \A j \in 1 .. m : b.nodes[j].item = IF j = i THEN a.nodes[n].item ELSE a.nodes[j].item
    <3>1. \A j \in 1 .. m : b.nodes[j].item = nodes[j].item
      BY <1>2a, <2>4
    <3>2. \A j \in 1 .. m : nodes[j].item = IF j = i THEN u.nodes[n].item ELSE u.nodes[j].item
      BY <1>4
    <3>3. \A j \in 1 .. n : u.nodes[j].item = a.nodes[j].item
      BY <1>1
    <3> QED BY <2>2, <3>1, <3>2, <3>3
  <2>10. \A j \in 1 .. m : b.nodes[j].item \in Items(b) /\ b.idx_of[b.nodes[j].item] = j
    <3>1. \A j \in 1 .. m : j \in 1 .. n /\ j # n
      OBVIOUS
    <3>2. ASSUME NEW j \in 1 .. m, j # i
          PROVE  b.nodes[j].item \in Items(b) /\ b.idx_of[b.nodes[j].item] = j
      <4>1. /\ a.nodes[j].item \in Items(a) /\ a.idx_of[a.nodes[j].item] = j
            /\ a.nodes[j].item # item /\ a.nodes[j].item # a.nodes[n].item
        BY <1>5, <2>2, <3>1, <3>2
      <4>2. b.nodes[j].item = a.nodes[j].item
        BY <2>9, <3>2
      <4>3. a.nodes[j].item \in Items(b)
        BY <2>8, <4>1
      <4>4. b.idx_of[a.nodes[j].item] = j
        BY <2>8, <4>1, <4>3
      <4> QED BY <4>2, <4>3, <4>4
    <3>3. b.nodes[i].item \in Items(b) /\ b.idx_of[b.nodes[i].item] = i
      BY <2>2, <2>7, <2>8, <2>9
    <3> QED BY <3>2, <3>3
  <2>11. ASSUME NEW x \in Items(b)
         PROVE  b.idx_of[x] \in 1 .. m /\ b.nodes[b.idx_of[x]].item = x
    <3>1. CASE x = a.nodes[n].item
      BY <2>2, <2>8, <2>9, <3>1
    <3>2. CASE x # a.nodes[n].item
      <4>1. x \in Items(a) /\ x # item /\ b.idx_of[x] = a.idx_of[x]
        BY <2>8, <3>2
      <4>2. /\ a.idx_of[x] \in 1 .. n /\ a.nodes[a.idx_of[x]].item = x
            /\ a.idx_of[x] # i /\ a.idx_of[x] # n
        BY <1>5, <3>2, <4>1
      <4>3. a.idx_of[x] \in 1 .. m
        BY <4>2
      <4> QED BY <2>9, <4>1, <4>2, <4>3
    <3> QED BY <3>1, <3>2
  <2>12. IsArena(b, X, m, at2, rank2)
    BY <2>4, <2>8, <2>10, <2>11 DEF IsArena, IsList
  <2> QED BY <2>5, <2>8, <2>9, <2>12
<1>9. ASSUME NEW p \in 1 .. m
      PROVE  b.nodes[at2[p]].item = IF p < r THEN Content(a, n, at)[p] ELSE Content(a, n, at)[p + 1]
  <2>1. /\ at1[p] = IF p < r THEN at[p] ELSE at[p + 1]
        /\ p \in 1 .. n /\ p + 1 \in 1 .. n
    BY DEF at1, AtWithout
  <2>2. a.nodes[at1[p]].item = IF p < r THEN Content(a, n, at)[p] ELSE Content(a, n, at)[p + 1]
    BY <2>1 DEF Content
  <2>3. at1[p] \in S
    BY <1>1 DEF Places
  <2>4. \A j \in 1 .. m : b.nodes[j].item = IF j = i THEN a.nodes[n].item ELSE a.nodes[j].item
    BY <1>7, <1>8
  <2>5. CASE i = n
    <3>1. at2 = at1 /\ at1[p] \in 1 .. m /\ at1[p] # i
      BY <2>3, <2>5 DEF AtRemoved, at1
    <3> QED BY <2>2, <2>4, <3>1
  <2>6. CASE i # n
    <3>1. at2[p] = IF at1[p] = n THEN i ELSE at1[p]
      BY <2>6 DEF AtRemoved, AtMoved, at1
    <3>2. at2[p] \in 1 .. m /\ at1[p] # i
      BY <2>3, <2>6, <3>1
    <3> QED BY <2>2, <2>4, <3>1, <3>2
  <2> QED BY <2>5, <2>6
<1>10. Content(b, m, at2) =
         [p \in 1 .. m |-> IF p < r THEN Content(a, n, at)[p] ELSE Content(a, n, at)[p + 1]]
  BY <1>9 DEF Content
<1>11. Content(b, m, at2) = Dropped(Content(a, n, at), n, r)
  BY <1>10 DEF Dropped
<1> QED BY <1>7, <1>8, <1>11

-------------------------------------------------------------------------------
(* What the policies need to know                                            *)

(* a is a list of n items of X, c[p] the one at place p.                     *)
ListOf(a, X, n, c) ==
  \E at, rank : IsArena(a, X, n, at, rank) /\ c = Content(a, n, at)

(* The tail is None only if there is no node.                                *)
HasTail(a, n) == n # 0 => a.tail # None

(* The tail is known if it is there.                                         *)
LEMMA HasTailIs ==
  ASSUME None \notin Nat, NEW X, NEW n \in Nat, NEW a, NEW at, NEW rank,
         IsArena(a, X, n, at, rank)
  PROVE  TailKnown(a, n, at) <=> HasTail(a, n)
<1>1. /\ a.tail \in {None, Last(n, at)}
      /\ n # 0 => at[n] \in 1 .. n
  <2>1. n # 0 => n \in 1 .. n
    OBVIOUS
  <2> QED BY <2>1 DEF IsArena, IsList, Places
<1>2. CASE n = 0
  BY <1>1, <1>2 DEF TailKnown, HasTail, Last
<1>3. CASE n # 0
  <2>1. at[n] # None
    BY <1>1, <1>3
  <2> QED BY <1>1, <1>3, <2>1 DEF TailKnown, HasTail, Last
<1> QED BY <1>2, <1>3

(* LinkedArena::default is the empty list.                                   *)
LEMMA NewArenaIs ==
  ASSUME NEW X
  PROVE  ListOf(NewArena, X, 0, <<>>) /\ Items(NewArena) = {}
<1> DEFINE a == NewArena
<1>1. /\ Fields(a)
      /\ a.nodes = <<>> /\ a.idx_of = <<>> /\ a.head = None /\ a.tail = None
  BY DEF NewArena, Fields
<1> HIDE DEF a
<1>2. 1 .. 0 = {} /\ DOMAIN <<>> = {} /\ <<>> \in [{} -> {}]
  OBVIOUS
<1>3. Items(a) = {}
  BY <1>1, <1>2 DEF Items
<1>4. Places(1 .. 0, 0, <<>>, <<>>)
  BY <1>2 DEF Places
<1>5. IsList(a, X, 0, <<>>, <<>>)
  BY <1>1, <1>2, <1>4 DEF IsList, Links, First, Last
<1>6. a.idx_of = [x \in Items(a) |-> a.idx_of[x]]
  BY <1>1, <1>3
<1>7. IsArena(a, X, 0, <<>>, <<>>)
  BY <1>2, <1>3, <1>5, <1>6 DEF IsArena
<1>8. Content(a, 0, <<>>) = <<>>
  BY <1>2 DEF Content
<1> QED BY <1>3, <1>7, <1>8 DEF ListOf, a

(* The items of a are those of c, each once.                                 *)
ItemsAre(a, n, c) ==
  /\ \A p, q \in 1 .. n : c[p] = c[q] => p = q
  /\ \A p \in 1 .. n : c[p] \in Items(a)
  /\ \A x \in Items(a) : \E p \in 1 .. n : x = c[p]

TailAt(a, n, c) ==
  a.tail # None => n # 0 /\ a.nodes[a.tail].item = c[n] /\ a.tail = a.idx_of[c[n]]

(* What a list is like: its items are distinct, its indices those of the     *)
(* Vec, its links and its index agree and its tail, if known, is the last.   *)
LEMMA ListIs ==
  ASSUME None \notin Nat, NEW X, NEW n \in Nat, NEW a, NEW c, ListOf(a, X, n, c)
  PROVE  /\ Items(a) \subseteq X
         /\ Len(a.nodes) = n
         /\ c \in [1 .. n -> X]
         /\ ItemsAre(a, n, c)
         /\ TailAt(a, n, c)
         /\ InBounds(a)
         /\ Indexed(a)
         /\ Linked(a)
         /\ TailIsLast(a)
<1>1. PICK at, rank : IsArena(a, X, n, at, rank) /\ c = Content(a, n, at)
  BY DEF ListOf
<1>2. /\ a.nodes \in [1 .. n -> Nodes(X)]
      /\ Places(1 .. n, n, at, rank)
      /\ Links(a.nodes, 1 .. n, n, at, rank)
      /\ a.head = First(n, at)
      /\ a.tail \in {None, Last(n, at)}
      /\ \A i \in 1 .. n : a.nodes[i].item \in Items(a) /\ a.idx_of[a.nodes[i].item] = i
      /\ \A x \in Items(a) : a.idx_of[x] \in 1 .. n /\ a.nodes[a.idx_of[x]].item = x
  BY <1>1 DEF IsArena, IsList
<1>3. Len(a.nodes) = n /\ Indices(a) = 1 .. n
  BY <1>2, VecLen DEF Indices
<1>4. \A i \in 1 .. n : a.nodes[i].item \in X
  BY <1>2 DEF Nodes
<1>5. Items(a) \subseteq X
  BY <1>2, <1>4
<1>6. /\ at \in [1 .. n -> 1 .. n]
      /\ rank \in [1 .. n -> 1 .. n]
      /\ \A i \in 1 .. n : at[rank[i]] = i
      /\ \A p \in 1 .. n : rank[at[p]] = p
  BY <1>2 DEF Places
<1>7. /\ c = [p \in 1 .. n |-> a.nodes[at[p]].item]
      /\ \A p \in 1 .. n : c[p] = a.nodes[at[p]].item
  BY <1>1 DEF Content
<1>8. c \in [1 .. n -> X] /\ \A p \in 1 .. n : c[p] \in Items(a)
  BY <1>2, <1>4, <1>6, <1>7
<1>9. ASSUME NEW p \in 1 .. n, NEW q \in 1 .. n, c[p] = c[q]
      PROVE  p = q
  <2>1. at[p] \in 1 .. n /\ at[q] \in 1 .. n /\ rank[at[p]] = p /\ rank[at[q]] = q
    BY <1>6
  <2>2. a.nodes[at[p]].item = a.nodes[at[q]].item
    BY <1>7, <1>9
  <2>3. a.idx_of[a.nodes[at[p]].item] = at[p] /\ a.idx_of[a.nodes[at[q]].item] = at[q]
    BY <1>2, <2>1
  <2> QED BY <2>1, <2>2, <2>3
<1>10. ASSUME NEW x \in Items(a)
       PROVE  \E p \in 1 .. n : x = c[p]
  <2>1. rank[a.idx_of[x]] \in 1 .. n /\ at[rank[a.idx_of[x]]] = a.idx_of[x]
    BY <1>2, <1>6
  <2> QED BY <1>2, <1>7, <2>1
<1>11. ASSUME a.tail # None
       PROVE  /\ n # 0 /\ n \in 1 .. n /\ a.tail = at[n]
              /\ a.nodes[a.tail].item = c[n] /\ a.tail = a.idx_of[c[n]]
  <2>1. n # 0 /\ a.tail = at[n]
    BY <1>2, <1>11 DEF Last
  <2>2. n \in 1 .. n /\ at[n] \in 1 .. n
    BY <1>6, <2>1
  <2> QED BY <1>2, <1>7, <2>1, <2>2
<1>12. \A i \in 1 .. n :
          /\ rank[i] # 1 => rank[i] - 1 \in 1 .. n
          /\ rank[i] # n => rank[i] + 1 \in 1 .. n
          /\ a.nodes[i].prev = IF rank[i] = 1 THEN None ELSE at[rank[i] - 1]
          /\ a.nodes[i].next = IF rank[i] = n THEN None ELSE at[rank[i] + 1]
  <2>1. \A i \in 1 .. n :
          /\ a.nodes[i].prev = IF rank[i] = 1 THEN None ELSE at[rank[i] - 1]
          /\ a.nodes[i].next = IF rank[i] = n THEN None ELSE at[rank[i] + 1]
    BY <1>2 DEF Links
  <2>2. \A q \in 1 .. n : (q # 1 => q - 1 \in 1 .. n) /\ (q # n => q + 1 \in 1 .. n)
    OBVIOUS
  <2>3. \A i \in 1 .. n : rank[i] \in 1 .. n
    BY <1>6
  <2> QED BY <2>1, <2>2, <2>3
<1>13. \A i \in 1 .. n :
          /\ a.nodes[i].prev \in (1 .. n) \cup {None} /\ (a.nodes[i].prev = None <=> rank[i] = 1)
          /\ a.nodes[i].next \in (1 .. n) \cup {None} /\ (a.nodes[i].next = None <=> rank[i] = n)
  <2> TAKE i \in 1 .. n
  <2>1. /\ rank[i] # 1 => at[rank[i] - 1] \in 1 .. n
        /\ rank[i] # n => at[rank[i] + 1] \in 1 .. n
    BY <1>6, <1>12
  <2>2. None \notin 1 .. n
    OBVIOUS
  <2> QED BY <1>12, <2>1, <2>2
<1>14. InBounds(a)
  <2>1. a.head \in (1 .. n) \cup {None}
    <3>1. CASE n = 0 BY <1>2, <3>1 DEF First
    <3>2. CASE n # 0
      <4>1. 1 \in 1 .. n
        BY <3>2
      <4> QED BY <1>2, <1>6, <3>2, <4>1 DEF First
    <3> QED BY <3>1, <3>2
  <2>2. a.tail \in (1 .. n) \cup {None}
    <3>1. CASE a.tail = None BY <3>1
    <3>2. CASE a.tail # None BY <1>6, <1>11, <3>2
    <3> QED BY <3>1, <3>2
  <2> QED BY <1>2, <1>3, <1>13, <2>1, <2>2 DEF InBounds
<1>15. Indexed(a)
  BY <1>2, <1>3 DEF Indexed
<1>16. TailIsLast(a)
  <2>1. ASSUME a.tail # None
        PROVE  a.nodes[a.tail].next = None
    <3>1. a.tail \in 1 .. n /\ rank[a.tail] = n
      BY <1>6, <1>11, <2>1
    <3> QED BY <1>13, <3>1
  <2> QED BY <2>1 DEF TailIsLast
<1>17. Linked(a)
  <2>1. a.head = None <=> a.nodes = <<>>
    <3>1. a.nodes = <<>> <=> n = 0
      BY <1>2, <1>3
    <3>2. n # 0 => at[1] \in 1 .. n
      BY <1>6
    <3> QED BY <1>2, <3>1, <3>2 DEF First
  <2>2. ASSUME NEW i \in 1 .. n
        PROVE  /\ a.nodes[i].prev = None <=> a.head = i
               /\ a.nodes[i].prev # None => a.nodes[a.nodes[i].prev].next = i
               /\ a.nodes[i].next # None => a.nodes[a.nodes[i].next].prev = i
    <3>a. n # 0 /\ 1 \in 1 .. n
      OBVIOUS
    <3>b. a.head = First(n, at)
      BY <1>2
    <3>1. a.head = at[1] /\ 1 \in 1 .. n
      BY <3>a, <3>b DEF First
    <3>2. a.nodes[i].prev = None <=> a.head = i
      BY <1>6, <1>13, <3>1
    <3>3. ASSUME a.nodes[i].prev # None
          PROVE  a.nodes[a.nodes[i].prev].next = i
      <4> DEFINE r == rank[i] - 1
                 j == at[r]
      <4>1. r \in 1 .. n /\ r # n /\ r + 1 = rank[i] /\ a.nodes[i].prev = j
        <5>1. rank[i] \in 1 .. n /\ rank[i] # 1 /\ r \in 1 .. n /\ a.nodes[i].prev = j
          BY <1>6, <1>12, <1>13, <3>3
        <5> QED BY <5>1
      <4>2. j \in 1 .. n /\ rank[j] = r
        BY <1>6, <4>1
      <4> HIDE DEF j, r
      <4>3. a.nodes[j].next = at[r + 1]
        BY <1>12, <4>1, <4>2
      <4> QED BY <1>6, <4>1, <4>3
    <3>4. ASSUME a.nodes[i].next # None
          PROVE  a.nodes[a.nodes[i].next].prev = i
      <4> DEFINE r == rank[i] + 1
                 j == at[r]
      <4>1. r \in 1 .. n /\ r # 1 /\ r - 1 = rank[i] /\ a.nodes[i].next = j
        <5>1. rank[i] \in 1 .. n /\ rank[i] # n /\ r \in 1 .. n /\ a.nodes[i].next = j
          BY <1>6, <1>12, <1>13, <3>4
        <5> QED BY <5>1
      <4>2. j \in 1 .. n /\ rank[j] = r
        BY <1>6, <4>1
      <4> HIDE DEF j, r
      <4>3. a.nodes[j].prev = at[r - 1]
        BY <1>12, <4>1, <4>2
      <4> QED BY <1>6, <4>1, <4>3
    <3> QED BY <3>2, <3>3, <3>4
  <2>3. ASSUME NEW i \in 1 .. n, NEW j \in 1 .. n,
               a.nodes[i].next = None, a.nodes[j].next = None
        PROVE  i = j
    <3>1. rank[i] = n /\ rank[j] = n
      BY <1>13, <2>3
    <3> QED BY <1>6, <3>1
  <2>4. \A i \in Indices(a) :
          /\ a.nodes[i].prev = None <=> a.head = i
          /\ a.nodes[i].prev # None => a.nodes[a.nodes[i].prev].next = i
          /\ a.nodes[i].next # None => a.nodes[a.nodes[i].next].prev = i
    BY <1>3, <2>2
  <2>5. \A i, j \in Indices(a) : a.nodes[i].next = None /\ a.nodes[j].next = None => i = j
    BY <1>3, <2>3
  <2> QED BY <2>1, <2>4, <2>5 DEF Linked
<1>18. ItemsAre(a, n, c) /\ TailAt(a, n, c)
  BY <1>8, <1>9, <1>10, <1>11 DEF ItemsAre, TailAt
<1> QED BY <1>3, <1>5, <1>8, <1>14, <1>15, <1>16, <1>17, <1>18

(* insert_head puts the item in front.                                       *)
LEMMA InsertHeadList ==
  ASSUME None \notin Nat, NEW X, NEW n \in Nat, NEW a, NEW c, ListOf(a, X, n, c),
         NEW x \in X, x \notin Items(a), NEW b, b = InsertHead(a, x)
  PROVE  /\ ListOf(b, X, n + 1, Pushed(c, n, x))
         /\ Items(b) = Items(a) \cup {x}
         /\ HasTail(a, n) => HasTail(b, n + 1)
<1>1. PICK at, rank : IsArena(a, X, n, at, rank) /\ c = Content(a, n, at)
  BY DEF ListOf
<1> DEFINE at2 == AtWith(at, n, n + 1)
           rank2 == RankWith(rank, 1 .. n, n + 1)
<1>2. /\ IsArena(b, X, n + 1, at2, rank2)
      /\ Items(b) = Items(a) \cup {x}
      /\ TailKnown(a, n, at) => TailKnown(b, n + 1, at2)
      /\ Content(b, n + 1, at2) = Pushed(c, n, x)
  <2>1. at2 = AtWith(at, n, n + 1) /\ rank2 = RankWith(rank, 1 .. n, n + 1)
    OBVIOUS
  <2> HIDE DEF at2, rank2
  <2> QED BY <1>1, <2>1, InsertHeadIs
<1> HIDE DEF at2, rank2
<1>3. HasTail(a, n) => HasTail(b, n + 1)
  <2>1. TailKnown(a, n, at) <=> HasTail(a, n)
    BY <1>1, HasTailIs
  <2>2. n + 1 \in Nat
    OBVIOUS
  <2>3. TailKnown(b, n + 1, at2) <=> HasTail(b, n + 1)
    BY <1>2, <2>2, HasTailIs
  <2> QED BY <1>2, <2>1, <2>3
<1> QED BY <1>2, <1>3 DEF ListOf

(* Where an item is.                                                         *)
LEMMA IndexIs ==
  ASSUME NEW X, NEW n \in Nat, NEW a, NEW at, NEW rank, IsArena(a, X, n, at, rank),
         NEW c, c = Content(a, n, at), NEW x \in Items(a), NEW i, i = a.idx_of[x]
  PROVE  i \in 1 .. n /\ a.nodes[i].item = x /\ rank[i] \in 1 .. n /\ c[rank[i]] = x
<1>1. i \in 1 .. n /\ a.nodes[i].item = x
  BY DEF IsArena
<1>2. rank[i] \in 1 .. n /\ at[rank[i]] = i
  BY <1>1 DEF IsArena, IsList, Places
<1> QED BY <1>1, <1>2 DEF Content

(* move_to_head puts the item in front; the tail stays known if the item was *)
(* not alone.                                                                *)
LEMMA MoveToHeadList ==
  ASSUME None \notin Nat, NEW X, NEW n \in Nat, NEW a, NEW c, ListOf(a, X, n, c),
         NEW x \in Items(a), NEW b, b = MoveToHead(a, a.idx_of[x])
  PROVE  /\ \E r \in 1 .. n : c[r] = x /\ ListOf(b, X, n, Raised(c, n, r))
         /\ Items(b) = Items(a)
         /\ n # 1 /\ HasTail(a, n) => HasTail(b, n)
<1>1. PICK at, rank : IsArena(a, X, n, at, rank) /\ c = Content(a, n, at)
  BY DEF ListOf
<1> DEFINE i == a.idx_of[x]
           r == rank[i]
           at2 == AtWith(AtWithout(at, n, rank[i]), n - 1, i)
           rank2 == RankWith(RankWithout(rank, 1 .. n, i), (1 .. n) \ {i}, i)
<1>2. i = a.idx_of[x] /\ b = MoveToHead(a, i)
  OBVIOUS
<1> HIDE DEF i, at2, rank2
<1>3. i \in 1 .. n /\ a.nodes[i].item = x /\ r \in 1 .. n /\ c[r] = x
  BY <1>1, <1>2, IndexIs
<1> USE DEF at2, rank2
<1>4. /\ IsArena(b, X, n, at2, rank2)
      /\ Items(b) = Items(a)
      /\ n # 1 /\ TailKnown(a, n, at) => TailKnown(b, n, at2)
      /\ Content(b, n, at2) = Raised(c, n, r)
  <2>1. /\ at2 = AtWith(AtWithout(at, n, rank[i]), n - 1, i)
        /\ rank2 = RankWith(RankWithout(rank, 1 .. n, i), (1 .. n) \ {i}, i)
    OBVIOUS
  <2> HIDE DEF at2, rank2
  <2> QED BY <1>1, <1>2, <1>3, <2>1, MoveToHeadIs
<1> HIDE DEF at2, rank2, r
<1>6. ListOf(b, X, n, Raised(c, n, r))
  BY <1>4 DEF ListOf
<1>7. n # 1 /\ HasTail(a, n) => HasTail(b, n)
  <2>1. TailKnown(a, n, at) <=> HasTail(a, n)
    BY <1>1, HasTailIs
  <2>2. TailKnown(b, n, at2) <=> HasTail(b, n)
    BY <1>4, HasTailIs
  <2> QED BY <1>4, <2>1, <2>2
<1> QED BY <1>3, <1>4, <1>6, <1>7

(* remove takes the item out.                                                *)
LEMMA RemoveList ==
  ASSUME None \notin Nat, NEW X, NEW n \in Nat, NEW a, NEW c, ListOf(a, X, n, c),
         NEW x \in Items(a), NEW b, b = Remove(a, a.idx_of[x])
  PROVE  /\ n \in Nat \ {0}
         /\ \E r \in 1 .. n : c[r] = x /\ ListOf(b, X, n - 1, Dropped(c, n, r))
         /\ Items(b) = Items(a) \ {x}
         /\ HasTail(a, n) => HasTail(b, n - 1)
<1>1. PICK at, rank : IsArena(a, X, n, at, rank) /\ c = Content(a, n, at)
  BY DEF ListOf
<1> DEFINE i == a.idx_of[x]
           r == rank[i]
           at2 == AtRemoved(at, n, rank, i)
           rank2 == RankRemoved(n, rank, i)
<1>2. i = a.idx_of[x] /\ b = Remove(a, i)
  OBVIOUS
<1> HIDE DEF i, at2, rank2
<1>3. i \in 1 .. n /\ a.nodes[i].item = x /\ r \in 1 .. n /\ c[r] = x
  BY <1>1, <1>2, IndexIs
<1> USE DEF at2, rank2
<1>4. /\ IsArena(b, X, n - 1, at2, rank2)
      /\ Items(b) = Items(a) \ {x}
      /\ TailKnown(a, n, at) => TailKnown(b, n - 1, at2)
      /\ Content(b, n - 1, at2) = Dropped(c, n, r)
  <2>1. at2 = AtRemoved(at, n, rank, i) /\ rank2 = RankRemoved(n, rank, i)
    OBVIOUS
  <2> HIDE DEF at2, rank2
  <2> QED BY <1>1, <1>2, <1>3, <2>1, RemoveIs
<1> HIDE DEF at2, rank2, r
<1>6. ListOf(b, X, n - 1, Dropped(c, n, r))
  BY <1>4 DEF ListOf
<1>7. HasTail(a, n) => HasTail(b, n - 1)
  <2>1. TailKnown(a, n, at) <=> HasTail(a, n)
    BY <1>1, HasTailIs
  <2>2. n - 1 \in Nat
    BY <1>3
  <2>3. TailKnown(b, n - 1, at2) <=> HasTail(b, n - 1)
    BY <1>4, <2>2, HasTailIs
  <2> QED BY <1>4, <2>1, <2>3
<1> QED BY <1>3, <1>4, <1>6, <1>7

(* A set of numbers has a smallest one.                                      *)
LEMMA SmallestIs ==
  ASSUME NEW S, S \subseteq Nat, S # {}
  PROVE  \E p \in S : \A q \in S : ~(q < p)
<1> DEFINE R == OpToRel(<, Nat)
<1>1. IsWellFoundedOn(R, Nat)
  BY NatLessThanWellFounded
<1>2. \A p, q \in Nat : q < p => <<q, p>> \in R
  BY DEF OpToRel
<1> HIDE DEF R
<1>3. \E p \in S : \A q \in S : ~(<<q, p>> \in R)
  BY <1>1, WFMin
<1> QED BY <1>2, <1>3

(* Order finds the contents by following the links from the head.            *)
LEMMA OrderIs ==
  ASSUME None \notin Nat, NEW X, NEW n \in Nat, NEW a, NEW c, ListOf(a, X, n, c)
  PROVE  Order(a) = c
<1>1. PICK at, rank : IsArena(a, X, n, at, rank) /\ c = Content(a, n, at)
  BY DEF ListOf
<1> DEFINE Follow(f) == [p \in Indices(a) |-> IF p = 1 THEN a.head
                                              ELSE IF f[p - 1] = None THEN None
                                              ELSE a.nodes[f[p - 1]].next]
           nth == Nth(a)
<1>2. /\ a.nodes \in [1 .. n -> Nodes(X)]
      /\ Places(1 .. n, n, at, rank)
      /\ Links(a.nodes, 1 .. n, n, at, rank)
      /\ a.head = First(n, at)
  BY <1>1 DEF IsArena, IsList
<1>3. Indices(a) = 1 .. n
  BY <1>2, VecLen DEF Indices
<1>4. /\ at \in [1 .. n -> 1 .. n]
      /\ \A p \in 1 .. n : rank[at[p]] = p
  BY <1>2 DEF Places
<1>5. \A p \in 1 .. n : at[p] # None
  BY <1>4
<1>6. at = Follow(at)
  <2>1. ASSUME NEW p \in 1 .. n
        PROVE  at[p] = IF p = 1 THEN a.head
                       ELSE IF at[p - 1] = None THEN None ELSE a.nodes[at[p - 1]].next
    <3>1. CASE p = 1
      BY <1>2, <3>1 DEF First
    <3>2. CASE p # 1
      <4>1. p - 1 \in 1 .. n /\ p - 1 # n /\ (p - 1) + 1 = p
        BY <3>2
      <4> DEFINE q == p - 1
      <4>2. q \in 1 .. n /\ q # n /\ q + 1 = p
        BY <4>1
      <4> HIDE DEF q
      <4>3. at[q] \in 1 .. n /\ rank[at[q]] = q
        BY <1>4, <4>2
      <4>4. a.nodes[at[q]].next = at[q + 1]
        BY <1>2, <4>2, <4>3 DEF Links
      <4>5. at[q] # None /\ a.nodes[at[q]].next = at[p]
        BY <1>5, <4>2, <4>4
      <4> QED BY <3>2, <4>5 DEF q
    <3> QED BY <3>1, <3>2
  <2> QED BY <1>3, <1>4, <2>1
<1>7. nth = Follow(nth)
  <2>1. nth = CHOOSE f : f = Follow(f)
    BY DEF Nth
  <2> HIDE DEF nth, Follow
  <2> QED BY <1>6, <2>1
<1>8. \A p \in 1 .. n : nth[p] = at[p]
  <2> DEFINE Bad == {p \in 1 .. n : nth[p] # at[p]}
  <2>1. SUFFICES ASSUME Bad # {} PROVE FALSE
    OBVIOUS
  <2>2. PICK p \in Bad : \A q \in Bad : ~(q < p)
    <3>1. Bad \subseteq Nat
      OBVIOUS
    <3> HIDE DEF Bad
    <3> QED BY <2>1, <3>1, SmallestIs
  <2>3. \A q \in 1 .. n : q < p => nth[q] = at[q]
    BY <2>2
  <2>4. nth[p] = IF p = 1 THEN a.head
                 ELSE IF nth[p - 1] = None THEN None ELSE a.nodes[nth[p - 1]].next
    BY <1>3, <1>7
  <2>5. at[p] = IF p = 1 THEN a.head
                ELSE IF at[p - 1] = None THEN None ELSE a.nodes[at[p - 1]].next
    BY <1>3, <1>6
  <2>6. p # 1 => p - 1 \in 1 .. n /\ p - 1 < p
    OBVIOUS
  <2> QED BY <2>3, <2>4, <2>5, <2>6
<1> HIDE DEF nth, Follow
<1>9. {m \in Indices(a) : \A q \in 1 .. m : nth[q] # None} = 1 .. n
  BY <1>3, <1>5, <1>8
<1>10. Order(a) = [p \in 1 .. n |-> a.nodes[nth[p]].item]
  BY <1>9 DEF Order, nth
<1> QED BY <1>1, <1>8, <1>10 DEF Content
================================================================================
