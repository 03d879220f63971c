------------------------------ MODULE SioTimer ------------------------------
(***************************************************************************)
(* struct sio_timer_manager (simple_io/sio_timer.c): a binary heap of      *)
(* timers that know their own slot, so that any of them can be stopped.    *)
(*                                                                         *)
(* An iteration of a sifting loop is an action: between operations `sift'  *)
(* is "none", during one it names the loop that moves the timer cur.  The  *)
(* slot of cur holds an old pointer until the loop ends, as in the code.   *)
(* Slots above heap_length, the index and the expiry of a timer that is    *)
(* not in the heap are never read: they are left out, or 0.                *)
(***************************************************************************)
EXTENDS Integers, Sequences, FiniteSets

CONSTANTS
  Timer,
  Expiry,        \* the expiry times timers are started with
  None           \* the null pointer

TimerAssumption == Expiry \subseteq Nat /\ None \notin Timer /\ None \notin Nat

VARIABLES
  nodes,         \* heap_nodes[1..heap_length]
  index,         \* timer->index
  expire,        \* timer->expire
  sift,          \* the loop that runs: "none", "up" or "down"
  cur,           \* the timer it moves
  out            \* the timer popped last, None once a timer was inserted

vars == <<nodes, index, expire, sift, cur, out>>

TypeOK ==
  /\ nodes \in Seq(Timer)
  /\ index \in [Timer -> 0..Len(nodes)]
  /\ expire \in [Timer -> Nat]
  /\ sift \in {"none", "up", "down"}
  /\ cur \in Timer \cup {None}
  /\ out \in Timer \cup {None}

Init ==
  /\ nodes = <<>>
  /\ index = [t \in Timer |-> 0]
  /\ expire = [t \in Timer |-> 0]
  /\ sift = "none" /\ cur = None /\ out = None

Parent(i) == i \div 2
InHeap(t) == index[t] # 0

-----------------------------------------------------------------------------
(* The sifting loops; t is the timer to move, n, x, e the heap it starts in. *)

\* Wrong: a timer that takes a freed slot is only ever moved down.
WrongAdjust(t, n, x, e) ==
  /\ cur' = t
  /\ sift' = "down"
  /\ nodes' = n /\ index' = x /\ expire' = e

\* _sio_timer_adjust_heap.
Adjust(t, n, x, e) ==
  /\ cur' = t
  /\ sift' = IF Parent(x[t]) # 0 /\ e[t] < e[n[Parent(x[t])]] THEN "up" ELSE "down"
  /\ nodes' = n /\ index' = x /\ expire' = e

\* The timer in slot i moves to the slot of cur, and cur to slot i.
Swap(i) ==
  /\ nodes' = [nodes EXCEPT ![index[cur]] = nodes[i]]
  /\ index' = [index EXCEPT ![nodes[i]] = index[cur], ![cur] = i]
  /\ UNCHANGED <<expire, sift, cur, out>>

\* The loop ends: cur is written into its slot.
Settle ==
  /\ nodes' = [nodes EXCEPT ![index[cur]] = cur]
  /\ sift' = "none" /\ cur' = None
  /\ UNCHANGED <<index, expire, out>>

Above == LET p == Parent(index[cur]) IN
  {i \in {p} \ {0} : expire[cur] < expire[nodes[i]]}

\* An iteration of _sio_timer_upheap.
UpHeap ==
  /\ sift = "up"
  /\ IF Above # {} THEN Swap(Parent(index[cur])) ELSE Settle

\* The child that expires before cur and not after the other, the left one
\* when they expire together.
EarlierChild ==
  LET c == {i \in {2 * index[cur], 2 * index[cur] + 1} :
              i <= Len(nodes) /\ expire[nodes[i]] < expire[cur]} IN
  {i \in c : \A j \in c : \/ expire[nodes[i]] < expire[nodes[j]]
                          \/ expire[nodes[i]] = expire[nodes[j]] /\ i <= j}

\* An iteration of _sio_timer_downheap.
DownHeap ==
  /\ sift = "down"
  /\ \/ \E i \in EarlierChild : Swap(i)
     \/ EarlierChild = {} /\ Settle

-----------------------------------------------------------------------------
(* The operations, up to their loop.  The user stops or modifies only timers *)
(* that are in the heap and starts only timers that are not.                 *)

\* sio_timer_insert.
Insert(t, e) ==
  /\ sift = "none" /\ ~InHeap(t)
  /\ Adjust(t, Append(nodes, t), [index EXCEPT ![t] = Len(nodes) + 1],
            [expire EXCEPT ![t] = e])
  /\ out' = None

\* sio_timer_modify, the user having changed the expiry.
Modify(t, e) ==
  /\ sift = "none" /\ InHeap(t)
  /\ Adjust(t, nodes, index, [expire EXCEPT ![t] = e])
  /\ UNCHANGED out

Last == nodes[Len(nodes)]
Shorter == SubSeq(nodes, 1, Len(nodes) - 1)

\* t leaves the heap and the last timer takes its slot.
Take(t) ==
  \/ /\ index[t] = Len(nodes)
     /\ nodes' = Shorter
     /\ index' = [index EXCEPT ![t] = 0] /\ expire' = [expire EXCEPT ![t] = 0]
     /\ UNCHANGED <<sift, cur>>
  \/ /\ index[t] < Len(nodes)
     /\ Adjust(Last, [Shorter EXCEPT ![index[t]] = Last],
               [index EXCEPT ![Last] = index[t], ![t] = 0],
               [expire EXCEPT ![t] = 0])

\* sio_timer_remove.
Remove(t) ==
  /\ sift = "none" /\ InHeap(t)
  /\ Take(t)
  /\ UNCHANGED out

\* sio_timer_pop.
Pop ==
  /\ sift = "none" /\ nodes # <<>>
  /\ Take(nodes[1])
  /\ out' = nodes[1]

-----------------------------------------------------------------------------
Next ==
  \/ \E t \in Timer : Remove(t) \/ \E e \in Expiry : Insert(t, e) \/ Modify(t, e)
  \/ Pop \/ UpHeap \/ DownHeap

Spec == Init /\ [][Next]_vars

-----------------------------------------------------------------------------
(* Properties. *)

\* The heap as it is once cur is written into its slot.
Settled == IF cur = None THEN nodes ELSE [nodes EXCEPT ![index[cur]] = cur]

\* Every timer in the heap is in the slot it names and in no other, at every
\* step of a loop: a timer can be stopped only through its index.
IndexSound ==
  /\ \A t \in Timer : InHeap(t) => index[t] <= Len(nodes) /\ Settled[index[t]] = t
  /\ \A i \in 1..Len(nodes) : index[Settled[i]] = i

\* A timer expires no earlier than its parent, hence than the one on top, after
\* any sequence of starts, changes, stops and pops.
HeapOrder ==
  sift = "none" =>
    \A i \in 2..Len(nodes) : expire[nodes[Parent(i)]] <= expire[nodes[i]]

due == [t \in Timer |-> IF InHeap(t) THEN expire[t] ELSE None]

Contract == INSTANCE TimerQueue

\* The heap is a queue that pops a timer which expires first.
KeepsContract == Contract!Spec
=============================================================================
