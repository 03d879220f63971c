----------------------------- MODULE SioBuffer -----------------------------
(***************************************************************************)
(* struct sio_buffer (simple_io/sio_buffer.c), which holds the input and   *)
(* the output of every stream: data between start and end of an allocation *)
(* that is moved to the front, grown or shrunk to make room.               *)
(*                                                                         *)
(* The user appends, or reserves room and lets read(2) fill some of it,    *)
(* and erases at the head no more than there is.  Offsets are naturals:    *)
(* InBounds says that the unsigned differences of the code never wrap.     *)
(***************************************************************************)
EXTENDS Integers, Sequences

CONSTANTS
  InitCapacity,      \* SIO_BUFFER_INIT_CAPACITY
  ShrinkCapacity,    \* SIO_BUFFER_SHRINK_CAPACITY
  ByteMod,           \* number of byte values
  MaxDemand          \* bound: data in the buffer and room asked for

ASSUME BufferAssumption ==
  /\ InitCapacity \in Nat \ {0} /\ ShrinkCapacity \in Nat
  /\ ByteMod \in Nat \ {0}
  /\ MaxDemand \in Nat /\ MaxDemand <= ByteMod

VARIABLES
  buffer,            \* what the allocation holds, by offset
  capacity,          \* sbuf->capacity
  start, end,        \* sbuf->start, sbuf->end
  next,              \* history: the byte to be appended next
  peak               \* history: the most room needed since the allocation was
                     \* of InitCapacity

vars == <<buffer, capacity, start, end, next, peak>>

Byte == 0..ByteMod - 1
Junk == ByteMod      \* what malloc(3) left in a cell

length == end - start

TypeOK ==
  /\ capacity \in Nat \ {0}
  /\ buffer \in [0..capacity - 1 -> Byte \cup {Junk}]
  /\ start \in Nat /\ end \in Nat
  /\ next \in Byte /\ peak \in Nat

\* sio_buffer_new.
Init ==
  /\ capacity = InitCapacity
  /\ buffer = [i \in 0..InitCapacity - 1 |-> Junk]
  /\ start = 0 /\ end = 0
  /\ next = 0 /\ peak = 0

-----------------------------------------------------------------------------
(* sio_buffer_reserve. *)

Fits(n) == capacity - end >= n
FitsInFront(n) == capacity - end + start >= n

\* Wrong: twice the old capacity and twice what arrives.
WrongGrown(n) == 2 * (capacity + n)

\* The capacity that makes room: twice the old one, or more if n needs more.
Grown(n) ==
  IF length + n < 2 * capacity THEN 2 * capacity ELSE length + n

\* Wrong: the data is copied from the head of the allocation.
WrongFronted(c) ==
  [i \in 0..c - 1 |->
     IF i < length THEN buffer[i]
     ELSE IF c = capacity THEN buffer[i] ELSE Junk]

\* The data at the front of an allocation of size c; behind it stays what was
\* there, or is junk when the allocation is new.
Fronted(c) ==
  [i \in 0..c - 1 |->
     IF i < length THEN buffer[start + i]
     ELSE IF c = capacity THEN buffer[i] ELSE Junk]

AtFront(c) == [buffer |-> Fronted(c), capacity |-> c, start |-> 0, end |-> length]

\* Wrong: the room before the data counts, but the data stays where it is.
WrongReserved(n) ==
  IF FitsInFront(n)
    THEN [buffer |-> buffer, capacity |-> capacity, start |-> start, end |-> end]
    ELSE AtFront(Grown(n))

\* The buffer with room for n bytes behind the data.
Reserved(n) ==
  IF Fits(n)
    THEN [buffer |-> buffer, capacity |-> capacity, start |-> start, end |-> end]
    ELSE AtFront(IF FitsInFront(n) THEN capacity ELSE Grown(n))

\* The buffer b with n more bytes written behind its data.
Written(b, n) ==
  [buffer |-> [i \in DOMAIN b.buffer |->
                 IF i \in b.end..b.end + n - 1
                   THEN (next + i - b.end) % ByteMod ELSE b.buffer[i]],
   capacity |-> b.capacity, start |-> b.start, end |-> b.end + n]

Becomes(b) ==
  buffer' = b.buffer /\ capacity' = b.capacity /\ start' = b.start /\ end' = b.end

Demands(n) == peak' = IF length + n > peak THEN length + n ELSE peak

-----------------------------------------------------------------------------
(* The operations. *)

Reserve(n) ==
  /\ length + n <= MaxDemand
  /\ Becomes(Reserved(n))
  /\ Demands(n)
  /\ UNCHANGED next

AppendBytes(n) ==
  /\ length + n <= MaxDemand
  /\ Becomes(Written(Reserved(n), n))
  /\ Demands(n)
  /\ next' = (next + n) % ByteMod

\* sio_buffer_seek, after the user has written n bytes to sio_buffer_space.
Seek(n) ==
  /\ n <= capacity - end
  /\ length + n <= MaxDemand
  /\ Becomes(Written([buffer |-> buffer, capacity |-> capacity,
                      start |-> start, end |-> end], n))
  /\ Demands(n)
  /\ next' = (next + n) % ByteMod

Shrinks(n) == capacity >= ShrinkCapacity /\ length - n < InitCapacity

\* The buffer without the n bytes at its head, in a smaller allocation when a
\* large one is nearly empty.
Erased(n) ==
  IF Shrinks(n)
    THEN [buffer |-> [i \in 0..InitCapacity - 1 |->
                        IF i < length - n THEN buffer[start + n + i] ELSE Junk],
          capacity |-> InitCapacity, start |-> 0, end |-> length - n]
    ELSE [buffer |-> buffer, capacity |-> capacity, start |-> start + n, end |-> end]

Erase(n) ==
  /\ n <= length
  /\ Becomes(Erased(n))
  /\ peak' = IF Shrinks(n) THEN length - n ELSE peak
  /\ UNCHANGED next

Next == \E n \in 0..MaxDemand : Reserve(n) \/ AppendBytes(n) \/ Seek(n) \/ Erase(n)

Spec == Init /\ [][Next]_vars

-----------------------------------------------------------------------------
(* Properties. *)

\* The data lies within the allocation, in this order: no unsigned difference
\* of offsets wraps, and nothing is written or read outside.
InBounds == start <= end /\ end <= capacity

\* The memory follows the need: the buffer is less than twice as large as the
\* most it had to hold, or as it was when it was created.
MemoryFollows ==
  capacity <= InitCapacity \/ capacity < 2 * peak

\* What sio_buffer_data returns.
Data == [i \in 1..length |-> buffer[start + i - 1]]

Contract == INSTANCE ByteQueue WITH data <- Data

\* The buffer is a queue of bytes: what is read is what was appended, in this
\* order and once, however the data moves and the allocation changes.
KeepsContract == Contract!Spec
=============================================================================
