----------------------------- MODULE ByteQueue -----------------------------
(***************************************************************************)
(* What a sio_buffer promises, without memory: bytes are appended at the   *)
(* tail and erased at the head.  The bytes count up in the order they are  *)
(* appended, so that no two of them that are in the queue together are     *)
(* alike.  SioBuffer implements this module.                               *)
(***************************************************************************)
EXTENDS Naturals, Sequences

CONSTANT ByteMod     \* number of byte values
VARIABLES
  data,              \* the bytes in the queue
  next               \* the byte to be appended next

Fresh(n) == [i \in 1..n |-> (next + i - 1) % ByteMod]

Init == data = <<>> /\ next = 0

AppendBytes(n) ==
  /\ data' = data \o Fresh(n)
  /\ next' = (next + n) % ByteMod

Erase(n) ==
  /\ n <= Len(data)
  /\ data' = SubSeq(data, n + 1, Len(data))
  /\ UNCHANGED next

Next == \E n \in 0..ByteMod : AppendBytes(n) \/ Erase(n)

Spec == Init /\ [][Next]_<<data, next>>
=============================================================================
