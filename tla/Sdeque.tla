------------------------------- MODULE Sdeque -------------------------------
(***************************************************************************)
(* struct sdeque (simple_deque/sdeque.c): a doubly linked list of nodes    *)
(* that are allocated by a push and freed by a pop.  An address that was   *)
(* freed keeps what it held until calloc(3) gives it out again.            *)
(***************************************************************************)
EXTENDS Integers, FiniteSets, Sequences

CONSTANTS
  Node,          \* bound: addresses of struct sdeque_node
  Value,
  None           \* the null pointer

SdequeAssumption == IsFiniteSet(Node) /\ None \notin Node

VARIABLES
  node,          \* what is at an address
  allocated,     \* the addresses in use
  head, tail, num_nodes

vars == <<node, allocated, head, tail, num_nodes>>

Link == Node \cup {None}
Nodes == [value : Value \cup {None}, next : Link, prev : Link]
Zeroed == [value |-> None, next |-> None, prev |-> None]

TypeOK ==
  /\ node \in [Node -> Nodes]
  /\ allocated \subseteq Node
  /\ head \in Link /\ tail \in Link
  /\ num_nodes \in 0..Cardinality(Node)

\* sdeque_new.
Init ==
  /\ node = [n \in Node |-> Zeroed]
  /\ allocated = {}
  /\ head = None /\ tail = None /\ num_nodes = 0

\* calloc(3) returns n.
Allocated(n) == n \notin allocated /\ allocated' = allocated \cup {n}

PushFront(n, v) ==
  /\ Allocated(n)
  /\ node' = [m \in Node |->
                IF m = n THEN [Zeroed EXCEPT !.value = v, !.next = head]
                ELSE IF m = head THEN [node[m] EXCEPT !.prev = n] ELSE node[m]]
  /\ tail' = IF head = None THEN n ELSE tail
  /\ head' = n
  /\ num_nodes' = num_nodes + 1

\* Wrong: the first node becomes the tail only.
WrongPushBack(n, v) ==
  /\ Allocated(n)
  /\ node' = [m \in Node |->
                IF m = n THEN [Zeroed EXCEPT !.value = v, !.prev = tail]
                ELSE IF m = tail THEN [node[m] EXCEPT !.next = n] ELSE node[m]]
  /\ tail' = n
  /\ num_nodes' = num_nodes + 1
  /\ UNCHANGED head

PushBack(n, v) ==
  /\ Allocated(n)
  /\ node' = [m \in Node |->
                IF m = n THEN [Zeroed EXCEPT !.value = v, !.prev = tail]
                ELSE IF m = tail THEN [node[m] EXCEPT !.next = n] ELSE node[m]]
  /\ head' = IF tail = None THEN n ELSE head
  /\ tail' = n
  /\ num_nodes' = num_nodes + 1

PopFront ==
  /\ head # None
  /\ head' = node[head].next
  /\ tail' = IF node[head].next = None THEN None ELSE tail
  /\ node' = [m \in Node |->
                IF m = node[head].next THEN [node[m] EXCEPT !.prev = None] ELSE node[m]]
  /\ allocated' = allocated \ {head}
  /\ num_nodes' = num_nodes - 1

PopBack ==
  /\ tail # None
  /\ tail' = node[tail].prev
  /\ head' = IF node[tail].prev = None THEN None ELSE head
  /\ node' = [m \in Node |->
                IF m = node[tail].prev THEN [node[m] EXCEPT !.next = None] ELSE node[m]]
  /\ allocated' = allocated \ {tail}
  /\ num_nodes' = num_nodes - 1

Next ==
  \/ \E n \in Node, v \in Value : PushFront(n, v) \/ PushBack(n, v)
  \/ PopFront \/ PopBack

Spec == Init /\ [][Next]_vars

-----------------------------------------------------------------------------
(* Properties. *)

\* No link leads to a node that was freed, the links of both directions are
\* each other's inverse, and the ends are where the links end: what one end
\* pops, the other end will not meet again.
Linked ==
  /\ {head, tail} \subseteq allocated \cup {None}
  /\ (head = None) <=> (allocated = {})
  /\ (tail = None) <=> (allocated = {})
  /\ \A n \in allocated :
       /\ IF n = tail THEN node[n].next = None
          ELSE node[n].next \in allocated /\ node[node[n].next].prev = n
       /\ IF n = head THEN node[n].prev = None
          ELSE node[n].prev \in allocated /\ node[node[n].prev].next = n
  /\ num_nodes = Cardinality(allocated)

\* The values from head to tail; no link of a list leads out of it.
Values ==
  LET from[n \in allocated \cup {None}] ==
        IF n = None THEN <<>> ELSE <<node[n].value>> \o from[node[n].next]
  IN from[head]

Contract == INSTANCE Deque WITH values <- Values

\* The list is a deque, whichever ends are pushed to and popped from,
\* and its size is the number of its values.
KeepsContract == Contract!Spec
=============================================================================
