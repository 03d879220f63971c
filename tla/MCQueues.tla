------------------------------ MODULE MCQueues ------------------------------
(* SioBuffer, SioTimer and Sdeque for TLC.  They share no state, so a          *)
(* behaviour is one of one of them.                                            *)
(*                                                                             *)
(* Buffer: from two cells, four appends of one byte double the allocation      *)
(* twice and reach the capacity at which an erase shrinks it; five bytes at    *)
(* once grow it by more than twice.  Timers: six are the least heap in which   *)
(* one that takes a freed slot must move up, and with four expiry times a      *)
(* parent below the top can have two different children that expire before it; *)
(* nothing tells timers apart.  Deque: with three addresses a freed one is in  *)
(* use again at either end of what is left.                                    *)
EXTENDS SioBuffer, TLC

CONSTANTS None, Timer, Expiry, Address, Value

VARIABLES
  component,
  nodes, index, expire, sift, cur, out,
  node, allocated, head, tail, num_nodes

timerVars == <<nodes, index, expire, sift, cur, out>>
dequeVars == <<node, allocated, head, tail, num_nodes>>

T == INSTANCE SioTimer
D == INSTANCE Sdeque WITH Node <- Address

QueuesAssumption == T!TimerAssumption /\ D!SdequeAssumption
ASSUME QueuesAssumption

SystemInit ==
  /\ component \in {"buffer", "timers", "deque"}
  /\ Init /\ T!Init /\ D!Init

BufferStep ==
  component = "buffer" /\ Next /\ UNCHANGED <<component, timerVars, dequeVars>>

TimerStep ==
  component = "timers" /\ T!Next /\ UNCHANGED <<component, vars, dequeVars>>

DequeStep ==
  component = "deque" /\ D!Next /\ UNCHANGED <<component, vars, timerVars>>

SystemNext == BufferStep \/ TimerStep \/ DequeStep

SystemSpec == SystemInit /\ [][SystemNext]_<<component, vars, timerVars, dequeVars>>

Interchangeable == Permutations(Timer)

-----------------------------------------------------------------------------
\* Any timer can be stopped through its index, and none expires before the one
\* that the loop looks at; in the deque no link leads to a freed node.
QueuesSound ==
  /\ T!TypeOK /\ T!IndexSound /\ T!HeapOrder
  /\ D!TypeOK /\ D!Linked

\* The heap implements TimerQueue and the deque Deque.
KeepsContracts == T!KeepsContract /\ D!KeepsContract
=============================================================================
