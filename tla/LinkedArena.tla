------------------------------ MODULE LinkedArena ------------------------------
(***************************************************************************)
(* src/policy/linked_arena.rs: a doubly linked list whose nodes live in a   *)
(* Vec and name each other by index, with an index of the items.  The       *)
(* operations are functions from arenas to arenas; the policies call them   *)
(* with their mutex held.  Indices count from 1 here and from 0 there.      *)
(***************************************************************************)
EXTENDS Integers, Sequences

CONSTANT None   \* Option::None

NewNode(item, prev, next) == [item |-> item, prev |-> prev, next |-> next]

NewArena == [idx_of |-> <<>>, nodes |-> <<>>, head |-> None, tail |-> None]

Items(a) == DOMAIN a.idx_of

Indices(a) == DOMAIN a.nodes

SetPrev(nodes, i, prev) == IF i = None THEN nodes ELSE [nodes EXCEPT ![i].prev = prev]

SetNext(nodes, i, next) == IF i = None THEN nodes ELSE [nodes EXCEPT ![i].next = next]

PutIndex(idx_of, item, i) ==
  [x \in DOMAIN idx_of \cup {item} |-> IF x = item THEN i ELSE idx_of[x]]

DropIndex(idx_of, item) == [x \in DOMAIN idx_of \ {item} |-> idx_of[x]]

(* For an item that is not there; the policies look it up first. *)
InsertHead(a, item) ==
  LET i == Len(a.nodes) + 1
  IN  [idx_of |-> PutIndex(a.idx_of, item, i),
       nodes  |-> Append(SetPrev(a.nodes, a.head, i), NewNode(item, None, a.head)),
       head   |-> i,
       tail   |-> IF a.head = None THEN i ELSE a.tail]

(* Mutant: only the children learn where their parent has moved. *)
RelinkChild(a, i) ==
  LET node == a.nodes[i]
  IN  [a EXCEPT !.nodes = SetPrev(@, node.next, i),
                !.head = IF node.prev = None THEN i ELSE @,
                !.tail = IF node.next = None THEN i ELSE @]

(* The neighbours of node i, or head and tail, are told where it is. *)
Relink(a, i) ==
  LET node == a.nodes[i]
  IN  [a EXCEPT !.nodes = SetPrev(SetNext(@, node.prev, i), node.next, i),
                !.head = IF node.prev = None THEN i ELSE @,
                !.tail = IF node.next = None THEN i ELSE @]

(* Mutant: the tail is left where it was. *)
UnlinkKeepingTail(a, i) ==
  LET node == a.nodes[i]
  IN  [a EXCEPT !.nodes = SetPrev(SetNext(@, node.prev, node.next), node.next, node.prev),
                !.head = IF node.prev = None THEN node.next ELSE @]

(* The neighbours of node i are joined; node i itself keeps its links. *)
Unlink(a, i) ==
  LET node == a.nodes[i]
  IN  [a EXCEPT !.nodes = SetPrev(SetNext(@, node.prev, node.next), node.next, node.prev),
                !.head = IF node.prev = None THEN node.next ELSE @,
                !.tail = IF node.next = None THEN node.prev ELSE @]

(* Mutant: the old head does not get a parent. *)
MoveToHeadOneWay(a, i) ==
  LET u == Unlink(a, i)
  IN  [u EXCEPT !.nodes = SetNext(SetPrev(@, i, None), i, u.head), !.head = i]

(* The tail that Unlink took away is not given back when node i was alone. *)
MoveToHead(a, i) ==
  LET u == Unlink(a, i)
  IN  [u EXCEPT !.nodes = SetPrev(SetNext(SetPrev(@, i, None), i, u.head), u.head, i),
                !.head = i]

(* Vec::swap_remove: the last element takes the place of element i. *)
SwapRemove(s, i) == SubSeq([s EXCEPT ![i] = s[Len(s)]], 1, Len(s) - 1)

(* Mutant: the index of the node that was moved is not updated. *)
RemoveStaleIndex(a, i) ==
  LET u       == Unlink(a, i)
      removed == [u EXCEPT !.nodes = SwapRemove(@, i),
                           !.idx_of = DropIndex(@, u.nodes[i].item)]
  IN  IF i = Len(u.nodes) THEN removed ELSE Relink(removed, i)

(* The node is unlinked and dropped; a node that was moved into its place   *)
(* gets its new index.                                                      *)
Remove(a, i) ==
  LET u       == Unlink(a, i)
      removed == [u EXCEPT !.nodes = SwapRemove(@, i),
                           !.idx_of = DropIndex(@, u.nodes[i].item)]
  IN  IF i = Len(u.nodes)
      THEN removed
      ELSE Relink([removed EXCEPT !.idx_of = PutIndex(@, removed.nodes[i].item, i)], i)

RemoveItem(a, item) == IF item \in Items(a) THEN Remove(a, a.idx_of[item]) ELSE a

-------------------------------------------------------------------------------
(* What it means that an arena is a list                                     *)

(* Every index the unsafe accesses use is an index of the Vec. *)
InBounds(a) ==
  /\ a.head \in Indices(a) \cup {None}
  /\ a.tail \in Indices(a) \cup {None}
  /\ \A i \in Indices(a) : {a.nodes[i].prev, a.nodes[i].next} \subseteq Indices(a) \cup {None}
  /\ \A item \in Items(a) : a.idx_of[item] \in Indices(a)

(* idx_of is the inverse of the nodes' items. *)
Indexed(a) ==
  /\ \A i \in Indices(a) : a.nodes[i].item \in Items(a) /\ a.idx_of[a.nodes[i].item] = i
  /\ \A item \in Items(a) : a.nodes[a.idx_of[item]].item = item

(* Parents and children agree, only the head has no parent and only one    *)
(* node has no child.                                                       *)
Linked(a) ==
  /\ a.head = None <=> a.nodes = <<>>
  /\ \A i \in Indices(a) :
       /\ a.nodes[i].prev = None <=> a.head = i
       /\ a.nodes[i].prev # None => a.nodes[a.nodes[i].prev].next = i
       /\ a.nodes[i].next # None => a.nodes[a.nodes[i].next].prev = i
  /\ \A i, j \in Indices(a) : a.nodes[i].next = None /\ a.nodes[j].next = None => i = j

(* The tail is unknown or it is the node that has no child. *)
TailIsLast(a) == a.tail # None => a.nodes[a.tail].next = None

(* The n-th node from the head, None past the end. *)
Nth(a) ==
  LET nth[n \in Indices(a)] ==
        IF n = 1 THEN a.head
        ELSE IF nth[n - 1] = None THEN None ELSE a.nodes[nth[n - 1]].next
  IN  nth

(* The items from the head on, the most recently used one first. *)
Order(a) ==
  LET nth == Nth(a)
      Reached(n) == \A m \in 1 .. n : nth[m] # None
  IN  [n \in {m \in Indices(a) : Reached(m)} |-> a.nodes[nth[n]].item]
================================================================================
