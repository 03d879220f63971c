------------------------------- MODULE Deque -------------------------------
(***************************************************************************)
(* What an sdeque promises, without nodes: a sequence of values that grows *)
(* and shrinks at both ends.  Sdeque implements this module.               *)
(***************************************************************************)
EXTENDS Naturals, Sequences, SequencesExt

CONSTANT Value
VARIABLES
  values,
  num_nodes      \* what sdeque_size answers

Init == values = <<>> /\ num_nodes = 0

Becomes(s) == values' = s /\ num_nodes' = Len(s)

PushFront(v) == Becomes(<<v>> \o values)
PushBack(v) == Becomes(Append(values, v))
PopFront == values # <<>> /\ Becomes(Tail(values))
PopBack == values # <<>> /\ Becomes(Front(values))

Next == (\E v \in Value : PushFront(v) \/ PushBack(v)) \/ PopFront \/ PopBack

Spec == Init /\ [][Next]_<<values, num_nodes>>
=============================================================================
