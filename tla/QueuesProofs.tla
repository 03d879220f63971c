---------------------------- MODULE QueuesProofs ----------------------------
(***************************************************************************)
(* The three queues, for every value of their constants.                   *)
(*                                                                         *)
(* SioBuffer: nothing outside the allocation is touched, memory follows    *)
(* the need, and the buffer implements a queue of bytes.  The invariant is *)
(* inductive as the run states it; what takes work is that making room     *)
(* moves no byte out of its place in the data.                             *)
(*                                                                         *)
(* Sdeque: its invariant is the list itself, the sequence of addresses     *)
(* that both directions of the links follow; it implements a deque.        *)
(*                                                                         *)
(* SioTimer is proved in SioTimerProofs; what holds of it holds of the     *)
(* system of the three as well.                                            *)
(***************************************************************************)
EXTENDS MCQueues, FiniteSetTheorems, SequenceTheorems,
        NaturalsInduction, WellFoundedInduction, TLAPS

TP == INSTANCE SioTimerProofs

IInv == TypeOK /\ InBounds /\ MemoryFollows

Cell == Byte \cup {Junk}

\* b is a buffer with the data of the present one and room for n bytes.
Keeps(b, n) ==
  /\ b.capacity \in Nat \ {0} /\ b.start \in Nat /\ b.end \in Nat
  /\ b.buffer \in [0..b.capacity - 1 -> Cell]
  /\ b.end = b.start + length
  /\ b.end + n <= b.capacity
  /\ \A i \in 0..length - 1 : b.buffer[b.start + i] = buffer[start + i]

-----------------------------------------------------------------------------
(* Making room. *)

LEMMA LengthType ==
  ASSUME TypeOK, InBounds
  PROVE  length \in Nat /\ length <= capacity
BY DEF TypeOK, InBounds, length

\* What is copied to the front of an allocation that has room for it.
LEMMA FrontedKeeps ==
  ASSUME TypeOK, InBounds, NEW n \in Nat, NEW c \in Nat \ {0},
         length + n <= c, c >= capacity
  PROVE  Keeps(AtFront(c), n)
<1>1. length \in Nat /\ length <= capacity
  BY LengthType
<1>2. \A i \in 0..length - 1 : start + i \in 0..capacity - 1
  BY <1>1 DEF TypeOK, InBounds, length
<1>3. Fronted(c) \in [0..c - 1 -> Cell]
  <2> SUFFICES ASSUME NEW i \in 0..c - 1
               PROVE  (IF i < length THEN buffer[start + i]
                       ELSE IF c = capacity THEN buffer[i] ELSE Junk) \in Cell
    BY DEF Fronted
  <2>1. CASE i < length
    <3>1. start + i \in 0..capacity - 1
      BY <1>1, <1>2, <2>1
    <3> QED
      BY <2>1, <3>1 DEF TypeOK, Cell
  <2>2. CASE ~(i < length) /\ c = capacity
    BY <2>2 DEF TypeOK, Cell
  <2>3. CASE ~(i < length) /\ c # capacity
    BY <2>3 DEF Cell
  <2> QED
    BY <2>1, <2>2, <2>3
<1>4. \A i \in 0..length - 1 : Fronted(c)[0 + i] = buffer[start + i]
  BY <1>1 DEF Fronted
<1> QED
  BY <1>1, <1>3, <1>4 DEF Keeps, AtFront

\* The new capacity makes room.
LEMMA GrownFits ==
  ASSUME TypeOK, InBounds, NEW n \in Nat, ~FitsInFront(n)
  PROVE  /\ Grown(n) \in Nat \ {0}
         /\ length + n <= Grown(n) /\ Grown(n) >= capacity
         /\ length + n > capacity
         /\ Grown(n) < 2 * (length + n)
<1>1. length \in Nat /\ capacity \in Nat \ {0} /\ length + n > capacity
  BY DEF TypeOK, InBounds, length, FitsInFront
<1> HIDE DEF length
<1> QED
  BY <1>1 DEF Grown

LEMMA ReservedKeeps ==
  ASSUME TypeOK, InBounds, NEW n \in Nat
  PROVE  Keeps(Reserved(n), n)
<1>1. CASE Fits(n)
  <2>1. Reserved(n) = [buffer |-> buffer, capacity |-> capacity,
                       start |-> start, end |-> end]
    BY <1>1 DEF Reserved
  <2> QED
    BY <1>1, <2>1 DEF Keeps, Fits, TypeOK, InBounds, length, Cell
<1>2. CASE ~Fits(n) /\ FitsInFront(n)
  <2>1. Reserved(n) = AtFront(capacity)
    BY <1>2 DEF Reserved
  <2>2. length + n <= capacity
    BY <1>2 DEF FitsInFront, TypeOK, InBounds, length
  <2> QED
    BY <2>1, <2>2, FrontedKeeps DEF TypeOK
<1>3. CASE ~Fits(n) /\ ~FitsInFront(n)
  <2>1. Reserved(n) = AtFront(Grown(n))
    BY <1>3 DEF Reserved
  <2> QED
    BY <1>3, <2>1, GrownFits, FrontedKeeps
<1> QED
  BY <1>1, <1>2, <1>3

\* Only growing changes the capacity, and it grows for a demand.
LEMMA ReservedFollows ==
  ASSUME IInv, NEW n \in Nat, Demands(n)
  PROVE  Reserved(n).capacity <= InitCapacity \/ Reserved(n).capacity < 2 * peak'
<1>1. peak' \in Nat /\ peak' >= peak /\ peak' >= length + n
  BY LengthType DEF IInv, Demands, TypeOK
<1>2. CASE Fits(n) \/ FitsInFront(n)
  <2>1. Reserved(n).capacity = capacity
    BY <1>2 DEF Reserved, AtFront
  <2>2. /\ capacity \in Nat /\ peak \in Nat /\ InitCapacity \in Nat
        /\ capacity <= InitCapacity \/ capacity < 2 * peak
    BY BufferAssumption DEF IInv, MemoryFollows, TypeOK
  <2>3. \A c, p, q \in Nat : c < 2 * p /\ q >= p => c < 2 * q
    OBVIOUS
  <2>4. capacity < 2 * peak => capacity < 2 * peak'
    BY <1>1, <2>2, <2>3
  <2> QED
    BY <2>1, <2>2, <2>4
<1>3. CASE ~Fits(n) /\ ~FitsInFront(n)
  <2>1. Reserved(n).capacity = Grown(n)
    BY <1>3 DEF Reserved, AtFront
  <2>2. Grown(n) \in Nat /\ Grown(n) < 2 * (length + n)
    BY <1>3, GrownFits DEF IInv
  <2>3. length + n \in Nat
    BY LengthType DEF IInv
  <2> QED
    BY <1>1, <2>1, <2>2, <2>3
<1> QED
  BY <1>2, <1>3

-----------------------------------------------------------------------------
(* Writing behind the data. *)

LEMMA NextByte ==
  ASSUME next \in Byte, NEW i \in Nat
  PROVE  (next + i) % ByteMod \in Byte
BY BufferAssumption DEF Byte

LEMMA WrittenKeeps ==
  ASSUME TypeOK, InBounds, NEW n \in Nat, NEW b, Keeps(b, n), Becomes(Written(b, n))
  PROVE  /\ capacity' = b.capacity /\ start' = b.start /\ end' = b.end + n
         /\ buffer' \in [0..capacity' - 1 -> Cell]
         /\ \A i \in 0..length - 1 : buffer'[start' + i] = buffer[start + i]
         /\ \A i \in 0..n - 1 : buffer'[start' + length + i] = (next + i) % ByteMod
<1> DEFINE filled ==
      [i \in 0..b.capacity - 1 |-> IF i \in b.end..b.end + n - 1
                                     THEN (next + i - b.end) % ByteMod ELSE b.buffer[i]]
<1>1. /\ b.capacity \in Nat \ {0} /\ b.start \in Nat /\ b.end \in Nat
      /\ b.buffer \in [0..b.capacity - 1 -> Cell]
      /\ b.end = b.start + length /\ b.end + n <= b.capacity
      /\ length \in Nat
  BY LengthType DEF Keeps
<1>2. Written(b, n) = [buffer |-> filled, capacity |-> b.capacity,
                       start |-> b.start, end |-> b.end + n]
  <2>1. DOMAIN b.buffer = 0..b.capacity - 1
    BY <1>1
  <2> QED
    BY <2>1 DEF Written
<1>3. /\ capacity' = b.capacity /\ start' = b.start /\ end' = b.end + n
      /\ buffer' = filled
  BY <1>2 DEF Becomes
<1>4. filled \in [0..b.capacity - 1 -> Cell]
  <2> SUFFICES ASSUME NEW i \in 0..b.capacity - 1
               PROVE  (IF i \in b.end..b.end + n - 1
                         THEN (next + i - b.end) % ByteMod ELSE b.buffer[i]) \in Cell
    OBVIOUS
  <2>1. CASE i \in b.end..b.end + n - 1
    <3>1. i - b.end \in Nat /\ next + i - b.end = next + (i - b.end)
      <4>1. next \in Int /\ b.end \in Int /\ i \in Int
        BY <1>1, BufferAssumption DEF TypeOK, Byte
      <4>2. b.end <= i
        BY <1>1, <2>1
      <4> HIDE DEF filled
      <4> QED
        BY <4>1, <4>2
    <3>2. \A k \in Nat : (next + k) % ByteMod \in Byte
      <4>1. next \in Byte
        BY DEF TypeOK
      <4> QED
        BY <4>1, NextByte
    <3> QED
      BY <2>1, <3>1, <3>2 DEF Cell
  <2>2. CASE i \notin b.end..b.end + n - 1
    BY <1>1, <2>2
  <2> QED
    BY <2>1, <2>2
<1>5. \A i \in 0..length - 1 : filled[b.start + i] = buffer[start + i]
  <2> TAKE i \in 0..length - 1
  <2>1. b.start + i \in 0..b.capacity - 1 /\ b.start + i \notin b.end..b.end + n - 1
    <3>1. /\ b.capacity \in Nat /\ b.start \in Nat /\ b.end \in Nat /\ length \in Nat
          /\ b.end = b.start + length /\ b.end + n <= b.capacity /\ i \in Nat /\ i < length
      BY <1>1
    <3> QED
      BY <3>1
  <2>2. b.buffer[b.start + i] = buffer[start + i]
    BY DEF Keeps
  <2> QED
    BY <2>1, <2>2
<1>6. \A i \in 0..n - 1 : filled[b.start + length + i] = (next + i) % ByteMod
  <2> TAKE i \in 0..n - 1
  <2>1. /\ b.end + i \in 0..b.capacity - 1
        /\ b.end + i \in b.end..b.end + n - 1
        /\ b.start + length + i = b.end + i
    <3>1. /\ b.capacity \in Nat /\ b.start \in Nat /\ b.end \in Nat /\ length \in Nat
          /\ b.end = b.start + length /\ b.end + n <= b.capacity /\ i \in Nat /\ i < n
      BY <1>1
    <3> QED
      BY <3>1
  <2>2. next \in Int /\ next + (b.end + i) - b.end = next + i
    <3>1. next \in Int /\ b.end \in Int /\ i \in Int
      BY <1>1 DEF TypeOK, Byte
    <3> QED
      BY <3>1
  <2>3. filled[b.end + i] = (next + (b.end + i) - b.end) % ByteMod
    BY <2>1
  <2> HIDE DEF filled
  <2> QED
    BY <2>1, <2>2, <2>3
<1> HIDE DEF filled
<1> QED
  BY <1>3, <1>4, <1>5, <1>6

-----------------------------------------------------------------------------
(* What each operation does, in terms of the data. *)

\* The state after a step is sound and holds the old data at its head and n
\* fresh bytes behind it.
Gains(n) ==
  /\ IInv'
  /\ length' = length + n
  /\ \A i \in 0..length - 1 : buffer'[start' + i] = buffer[start + i]
  /\ \A i \in 0..n - 1 : buffer'[start' + length + i] = (next + i) % ByteMod

LEMMA PeakType ==
  ASSUME IInv, NEW n \in Nat, Demands(n)
  PROVE  peak' \in Nat
BY LengthType DEF IInv, TypeOK, Demands

LEMMA TypeAfter ==
  ASSUME capacity' \in Nat \ {0}, buffer' \in [0..capacity' - 1 -> Cell],
         start' \in Nat, end' \in Nat, next' \in Byte, peak' \in Nat
  PROVE  TypeOK'
BY DEF TypeOK, Cell

LEMMA ReserveStep ==
  ASSUME IInv, NEW n \in Nat, Reserve(n)
  PROVE  Gains(0) /\ next' = next
<1> USE DEF IInv
<1> DEFINE b == Reserved(n)
<1>1. Keeps(b, n) /\ length \in Nat
  BY ReservedKeeps, LengthType
<1>2. /\ buffer' = b.buffer /\ capacity' = b.capacity
      /\ start' = b.start /\ end' = b.end /\ next' = next
  BY DEF Reserve, Becomes
<1>3. TypeOK'
  <2>1. capacity' \in Nat \ {0} /\ start' \in Nat /\ end' \in Nat
    BY <1>1, <1>2 DEF Keeps
  <2>2. buffer' \in [0..capacity' - 1 -> Cell]
    BY <1>1, <1>2 DEF Keeps
  <2>3. next' \in Byte /\ peak' \in Nat
    BY <1>2, PeakType DEF TypeOK, Reserve
  <2> QED
    BY <2>1, <2>2, <2>3, TypeAfter
<1>4. InBounds' /\ length' = length
  BY <1>1, <1>2 DEF Keeps, InBounds, length
<1>5. MemoryFollows'
  BY <1>2, ReservedFollows DEF MemoryFollows, Reserve
<1>6. \A i \in 0..length - 1 : buffer'[start' + i] = buffer[start + i]
  BY <1>1, <1>2 DEF Keeps
<1> QED
  BY <1>1, <1>2, <1>3, <1>4, <1>5, <1>6 DEF Gains

\* AppendBytes and Seek write behind the data of a buffer that has room.
LEMMA WriteStep ==
  ASSUME IInv, NEW n \in Nat, NEW b, Keeps(b, n), Becomes(Written(b, n)), Demands(n),
         b.capacity <= InitCapacity \/ b.capacity < 2 * peak',
         next' = (next + n) % ByteMod
  PROVE  Gains(n)
<1> USE DEF IInv
<1>1. /\ b.capacity \in Nat \ {0} /\ b.start \in Nat /\ b.end \in Nat
      /\ b.end = b.start + length /\ b.end + n <= b.capacity
      /\ length \in Nat
  BY LengthType DEF Keeps
<1>2. /\ capacity' = b.capacity /\ start' = b.start /\ end' = b.end + n
      /\ buffer' \in [0..capacity' - 1 -> Cell]
      /\ \A i \in 0..length - 1 : buffer'[start' + i] = buffer[start + i]
      /\ \A i \in 0..n - 1 : buffer'[start' + length + i] = (next + i) % ByteMod
  BY WrittenKeeps
<1>3. TypeOK'
  <2>1. next' \in Byte /\ peak' \in Nat
    BY NextByte, PeakType DEF TypeOK
  <2>2. capacity' \in Nat \ {0} /\ start' \in Nat /\ end' \in Nat
    BY <1>1, <1>2
  <2> QED
    BY <1>2, <2>1, <2>2, TypeAfter
<1>4. InBounds' /\ length' = length + n
  BY <1>1, <1>2 DEF InBounds, length
<1>5. MemoryFollows'
  BY <1>2 DEF MemoryFollows
<1> QED
  BY <1>2, <1>3, <1>4, <1>5 DEF Gains

LEMMA AppendStep ==
  ASSUME IInv, NEW n \in Nat, AppendBytes(n)
  PROVE  Gains(n) /\ next' = (next + n) % ByteMod
<1>1. Keeps(Reserved(n), n)
  BY ReservedKeeps DEF IInv
<1>2. Reserved(n).capacity <= InitCapacity \/ Reserved(n).capacity < 2 * peak'
  BY ReservedFollows DEF AppendBytes
<1> QED
  BY <1>1, <1>2, WriteStep DEF AppendBytes

LEMMA SeekStep ==
  ASSUME IInv, NEW n \in Nat, Seek(n)
  PROVE  Gains(n) /\ next' = (next + n) % ByteMod
<1> DEFINE b == [buffer |-> buffer, capacity |-> capacity, start |-> start, end |-> end]
<1>1. Fits(n)
  BY DEF Seek, Fits
<1>2. Reserved(n) = b
  BY <1>1 DEF Reserved
<1>3. Keeps(b, n)
  BY <1>2, ReservedKeeps DEF IInv
<1>4. b.capacity <= InitCapacity \/ b.capacity < 2 * peak'
  BY <1>2, ReservedFollows DEF Seek
<1> QED
  BY <1>3, <1>4, WriteStep DEF Seek

\* Erasing n bytes leaves the others in their order.
LEMMA EraseStep ==
  ASSUME IInv, NEW n \in Nat, Erase(n)
  PROVE  /\ IInv' /\ next' = next /\ length' = length - n
         /\ \A i \in 0..length - n - 1 : buffer'[start' + i] = buffer[start + n + i]
<1> USE DEF IInv
<1>1. /\ length \in Nat /\ length <= capacity /\ n <= length /\ length - n \in Nat
      /\ end = start + length /\ start \in Nat /\ end \in Nat /\ capacity \in Nat \ {0}
      /\ end <= capacity
  BY LengthType DEF Erase, TypeOK, InBounds, length
<1>2. CASE Shrinks(n)
  <2>1. /\ capacity' = InitCapacity /\ start' = 0 /\ end' = length - n
        /\ buffer' = [i \in 0..InitCapacity - 1 |->
                        IF i < length - n THEN buffer[start + n + i] ELSE Junk]
        /\ peak' = length - n /\ next' = next
    BY <1>2 DEF Erase, Erased, Becomes
  <2>2. length - n < InitCapacity /\ InitCapacity \in Nat \ {0}
    BY <1>2, BufferAssumption DEF Shrinks
  <2>3. buffer' \in [0..InitCapacity - 1 -> Cell]
    <3> SUFFICES ASSUME NEW i \in 0..InitCapacity - 1
                 PROVE  (IF i < length - n THEN buffer[start + n + i] ELSE Junk) \in Cell
      BY <2>1
    <3>1. CASE i < length - n
      <4>1. start + n + i \in 0..capacity - 1
        BY <1>1, <2>2, <3>1
      <4> QED
        BY <3>1, <4>1 DEF TypeOK, Cell
    <3>2. CASE ~(i < length - n)
      BY <3>2 DEF Cell
    <3> QED
      BY <3>1, <3>2
  <2>4. TypeOK'
    <3>1. next' \in Byte
      BY <2>1 DEF TypeOK
    <3> QED
      BY <1>1, <2>1, <2>2, <2>3, <3>1, TypeAfter
  <2>5. InBounds' /\ MemoryFollows' /\ length' = length - n
    BY <1>1, <2>1, <2>2 DEF InBounds, MemoryFollows, length
  <2>6. \A i \in 0..length - n - 1 : buffer'[start' + i] = buffer[start + n + i]
    BY <1>1, <2>1, <2>2
  <2> QED
    BY <2>1, <2>4, <2>5, <2>6
<1>3. CASE ~Shrinks(n)
  <2>1. /\ capacity' = capacity /\ start' = start + n /\ end' = end
        /\ buffer' = buffer /\ peak' = peak /\ next' = next
    BY <1>3 DEF Erase, Erased, Becomes
  <2>2. TypeOK'
    BY <1>1, <2>1 DEF TypeOK
  <2>3. InBounds' /\ MemoryFollows'
    BY <1>1, <2>1 DEF InBounds, MemoryFollows
  <2>4. length' = length - n
    BY <1>1, <2>1 DEF length
  <2> QED
    BY <1>1, <2>1, <2>2, <2>3, <2>4
<1> QED
  BY <1>2, <1>3

-----------------------------------------------------------------------------
(* The invariant. *)

LEMMA InitIInv ==
  ASSUME Init
  PROVE  IInv
BY BufferAssumption DEF Init, IInv, TypeOK, InBounds, MemoryFollows, Byte, Junk

LEMMA NextIInv ==
  ASSUME IInv, [Next]_vars
  PROVE  IInv'
<1>1. ASSUME NEW n \in 0..MaxDemand,
             Reserve(n) \/ AppendBytes(n) \/ Seek(n) \/ Erase(n)
      PROVE  IInv'
  <2>1. n \in Nat
    BY BufferAssumption
  <2> QED
    BY <1>1, <2>1, ReserveStep, AppendStep, SeekStep, EraseStep DEF Gains
<1>2. CASE UNCHANGED vars
  BY <1>2 DEF vars, IInv, TypeOK, InBounds, MemoryFollows, Byte, Junk
<1> QED
  BY <1>1, <1>2 DEF Next

\* The variables keep their types, the data lies within the allocation and the
\* memory follows the need, whatever the capacities.
THEOREM BufferInvariance == Spec => []IInv
<1> QED
  BY InitIInv, NextIInv, PTL DEF Spec

\* No unsigned difference of offsets wraps and no operation touches memory
\* outside the allocation.
THEOREM InBoundsHolds == Spec => []InBounds
<1>1. IInv => InBounds
  BY DEF IInv
<1> QED
  BY <1>1, BufferInvariance, PTL

\* The buffer is never twice as large as the most it had to hold.
THEOREM MemoryFollowsHolds == Spec => []MemoryFollows
<1>1. IInv => MemoryFollows
  BY DEF IInv
<1> QED
  BY <1>1, BufferInvariance, PTL

-----------------------------------------------------------------------------
(* The refinement. *)

\* A function over 1..l is a sequence of length l.
LEMMA IsSequence ==
  ASSUME NEW S, NEW l \in Nat, NEW d \in [1..l -> S]
  PROVE  d \in Seq(S) /\ Len(d) = l
<1>1. d \in Seq(S)
  BY SeqDef
<1>2. Len(d) \in Nat /\ DOMAIN d = 1..Len(d)
  BY <1>1, LenProperties
<1>3. 1..Len(d) = 1..l
  BY <1>2
<1> QED
  BY <1>1, <1>2, <1>3

\* What sio_buffer_data returns, when the data lies within the allocation.
LEMMA DataOf ==
  ASSUME NEW f, NEW s \in Nat, NEW l \in Nat, \A i \in 0..l - 1 : f[s + i] \in Cell
  PROVE  LET d == [i \in 1..l |-> f[s + i - 1]]
         IN  d \in Seq(Cell) /\ Len(d) = l /\ \A i \in 1..l : d[i] = f[s + (i - 1)]
<1> DEFINE d == [i \in 1..l |-> f[s + i - 1]]
<1>1. ASSUME NEW i \in 1..l PROVE d[i] = f[s + (i - 1)] /\ d[i] \in Cell
  <2>1. i - 1 \in 0..l - 1 /\ s + i - 1 = s + (i - 1)
    OBVIOUS
  <2> QED
    BY <2>1
<1>2. d \in [1..l -> Cell]
  BY <1>1
<1> HIDE DEF d
<1>3. d \in Seq(Cell) /\ Len(d) = l
  BY <1>2, IsSequence
<1>4. d \in Seq(Cell) /\ Len(d) = l /\ \A i \in 1..l : d[i] = f[s + (i - 1)]
  BY <1>1, <1>3
<1> QED
  BY <1>4 DEF d

LEMMA DataNow ==
  ASSUME IInv
  PROVE  /\ length \in Nat /\ Data \in Seq(Cell) /\ Len(Data) = length
         /\ \A i \in 1..length : Data[i] = buffer[start + (i - 1)]
<1>1. length \in Nat /\ start \in Nat
  BY LengthType DEF IInv, TypeOK
<1>2. \A i \in 0..length - 1 : buffer[start + i] \in Cell
  BY <1>1 DEF IInv, TypeOK, InBounds, length, Cell
<1>3. Data = [i \in 1..length |-> buffer[start + i - 1]]
  BY DEF Data
<1> QED
  BY <1>1, <1>2, <1>3, DataOf

LEMMA DataNext ==
  ASSUME IInv'
  PROVE  /\ length' \in Nat /\ Data' \in Seq(Cell) /\ Len(Data') = length'
         /\ \A i \in 1..length' : Data'[i] = buffer'[start' + (i - 1)]
<1>1. TypeOK' /\ InBounds'
  BY DEF IInv
<1>2. start' \in Nat /\ end' \in Nat /\ capacity' \in Nat
  BY <1>1 DEF TypeOK
<1>3. start' <= end' /\ end' <= capacity'
  BY <1>1 DEF InBounds
<1> DEFINE l == end' - start'
<1>4. \A s, e, c \in Nat : s <= e /\ e <= c =>
        e - s \in Nat /\ \A i \in 0..e - s - 1 : s + i \in 0..c - 1
  OBVIOUS
<1>5. l \in Nat /\ \A i \in 0..l - 1 : start' + i \in 0..capacity' - 1
  BY <1>2, <1>3, <1>4
<1> HIDE DEF l
<1>6. \A i \in 0..l - 1 : buffer'[start' + i] \in Cell
  BY <1>1, <1>5 DEF TypeOK, Cell
<1>7. Data' = [i \in 1..l |-> buffer'[start' + i - 1]] /\ length' = l
  BY DEF Data, length, l
<1> QED
  BY <1>2, <1>5, <1>6, <1>7, DataOf

LEMMA FreshBytes ==
  ASSUME IInv, NEW n \in Nat
  PROVE  /\ Contract!Fresh(n) \in Seq(Cell) /\ Len(Contract!Fresh(n)) = n
         /\ \A i \in 1..n : Contract!Fresh(n)[i] = (next + (i - 1)) % ByteMod
<1>1. ASSUME NEW i \in 1..n
      PROVE  /\ next + i - 1 = next + (i - 1)
             /\ (next + (i - 1)) % ByteMod \in Cell
  <2>1. next \in Byte /\ next \in Int /\ i - 1 \in Nat
    BY DEF IInv, TypeOK, Byte
  <2> QED
    BY <2>1, NextByte DEF Cell
<1>2. Contract!Fresh(n) = [i \in 1..n |-> (next + (i - 1)) % ByteMod]
  BY <1>1 DEF Contract!Fresh
<1>3. Contract!Fresh(n) \in [1..n -> Cell]
  BY <1>1, <1>2
<1> QED
  BY <1>2, <1>3, IsSequence

LEMMA DataAppended ==
  ASSUME IInv, NEW n \in Nat, Gains(n)
  PROVE  Data' = Data \o Contract!Fresh(n)
<1> DEFINE fresh == Contract!Fresh(n)
<1>1. /\ length \in Nat /\ Data \in Seq(Cell) /\ Len(Data) = length
      /\ \A i \in 1..length : Data[i] = buffer[start + (i - 1)]
  BY DataNow
<1>2. /\ length' = length + n /\ Data' \in Seq(Cell) /\ Len(Data') = length + n
      /\ \A i \in 1..length + n : Data'[i] = buffer'[start' + (i - 1)]
  BY DataNext DEF Gains
<1>3. /\ fresh \in Seq(Cell) /\ Len(fresh) = n
      /\ \A i \in 1..n : fresh[i] = (next + (i - 1)) % ByteMod
  BY FreshBytes
<1> HIDE DEF fresh
<1>4. /\ Data \o fresh \in Seq(Cell) /\ Len(Data \o fresh) = length + n
      /\ \A i \in 1..length + n :
           (Data \o fresh)[i] = IF i <= length THEN Data[i] ELSE fresh[i - length]
  BY <1>1, <1>3, ConcatProperties
<1>5. ASSUME NEW i \in 1..length + n PROVE Data'[i] = (Data \o fresh)[i]
  <2>0. i <= length \/ i > length
    BY <1>1
  <2>1. CASE i <= length
    <3>1. i - 1 \in 0..length - 1 /\ i \in 1..length
      BY <1>1, <2>1
    <3>2. buffer'[start' + (i - 1)] = buffer[start + (i - 1)]
      BY <3>1 DEF Gains
    <3> QED
      BY <1>1, <1>2, <1>4, <2>1, <3>1, <3>2
  <2>2. CASE i > length
    <3>1. /\ i - length - 1 \in 0..n - 1 /\ i - length \in 1..n
          /\ start' \in Nat /\ ~(i <= length)
          /\ start' + length + (i - length - 1) = start' + (i - 1)
      <4>1. start' \in Nat
        BY DEF Gains, IInv, TypeOK
      <4> QED
        BY <1>1, <2>2, <4>1
    <3>2. buffer'[start' + length + (i - length - 1)] = (next + (i - length - 1)) % ByteMod
      BY <3>1 DEF Gains
    <3>3. fresh[i - length] = (next + (i - length - 1)) % ByteMod
      BY <1>3, <3>1
    <3> QED
      BY <1>2, <1>4, <2>2, <3>1, <3>2, <3>3
  <2> QED
    BY <2>0, <2>1, <2>2
<1>6. Data' = Data \o fresh
  BY <1>2, <1>4, <1>5, SeqEqual
<1> QED
  BY <1>6 DEF fresh

LEMMA DataKept ==
  ASSUME IInv, Gains(0)
  PROVE  Data' = Data
<1>1. /\ length \in Nat /\ Data \in Seq(Cell) /\ Len(Data) = length
      /\ \A i \in 1..length : Data[i] = buffer[start + (i - 1)]
  BY DataNow
<1>2. /\ length' = length /\ Data' \in Seq(Cell) /\ Len(Data') = length
      /\ \A i \in 1..length : Data'[i] = buffer'[start' + (i - 1)]
  BY <1>1, DataNext DEF Gains
<1>3. ASSUME NEW i \in 1..length PROVE Data'[i] = Data[i]
  <2>1. i - 1 \in 0..length - 1
    BY <1>1
  <2>2. buffer'[start' + (i - 1)] = buffer[start + (i - 1)]
    BY <2>1 DEF Gains
  <2> QED
    BY <1>1, <1>2, <2>2
<1> QED
  BY <1>1, <1>2, <1>3, SeqEqual

LEMMA DataErased ==
  ASSUME IInv, NEW n \in Nat, Erase(n)
  PROVE  n <= Len(Data) /\ Data' = SubSeq(Data, n + 1, Len(Data))
<1>1. /\ length \in Nat /\ Data \in Seq(Cell) /\ Len(Data) = length
      /\ \A i \in 1..length : Data[i] = buffer[start + (i - 1)] /\ Data[i] \in Cell
  BY DataNow, ElementOfSeq
<1>2. n <= length
  BY DEF Erase
<1>3. /\ length' = length - n
      /\ \A i \in 0..length - n - 1 : buffer'[start' + i] = buffer[start + n + i]
      /\ Data' \in Seq(Cell) /\ Len(Data') = length - n
      /\ \A i \in 1..length - n : Data'[i] = buffer'[start' + (i - 1)]
  BY EraseStep, DataNext
<1> DEFINE rest == SubSeq(Data, n + 1, length)
<1>4. rest \in Seq(Cell) /\ Len(rest) = length - n
      /\ \A i \in 1..length - n : rest[i] = Data[n + i]
  <2>1. /\ rest \in Seq(Cell)
        /\ Len(rest) = IF n + 1 <= length THEN length - (n + 1) + 1 ELSE 0
        /\ \A i \in 1..length - (n + 1) + 1 : rest[i] = Data[n + 1 + i - 1]
    BY <1>1, SubSeqProperties
  <2>2. length - (n + 1) + 1 = length - n
    BY <1>1
  <2>3. \A i \in 1..length - n : n + 1 + i - 1 = n + i
    OBVIOUS
  <2> HIDE DEF rest
  <2> QED
    BY <1>1, <1>2, <2>1, <2>2, <2>3
<1> HIDE DEF rest
<1>5. ASSUME NEW i \in 1..length - n PROVE Data'[i] = rest[i]
  <2>1. /\ i - 1 \in 0..length - n - 1 /\ n + i \in 1..length
        /\ start + n + (i - 1) = start + (n + i - 1)
    BY <1>1, <1>2 DEF IInv, TypeOK
  <2>2. Data'[i] = buffer[start + n + (i - 1)]
    BY <1>3, <2>1
  <2> QED
    BY <1>1, <1>4, <2>1, <2>2
<1>6. Data' = rest
  BY <1>3, <1>4, <1>5, SeqEqual
<1> QED
  BY <1>1, <1>2, <1>6 DEF rest

\* Reserving room is no step of the queue; appending, also through
\* sio_buffer_space and sio_buffer_seek, and erasing are.
LEMMA ContractStep ==
  ASSUME IInv, [Next]_vars
  PROVE  [Contract!Next]_<<Data, next>>
<1>1. ASSUME NEW n \in 0..MaxDemand,
             Reserve(n) \/ AppendBytes(n) \/ Seek(n) \/ Erase(n)
      PROVE  Contract!Next \/ UNCHANGED <<Data, next>>
  <2>1. n \in Nat /\ n \in 0..ByteMod
    BY BufferAssumption
  <2>2. CASE Reserve(n)
    BY <2>1, <2>2, ReserveStep, DataKept
  <2>3. CASE AppendBytes(n) \/ Seek(n)
    <3>1. Contract!AppendBytes(n)
      BY <2>1, <2>3, AppendStep, SeekStep, DataAppended DEF Contract!AppendBytes
    <3> QED
      BY <2>1, <3>1 DEF Contract!Next
  <2>4. CASE Erase(n)
    <3>1. Contract!Erase(n)
      BY <2>1, <2>4, EraseStep, DataErased DEF Contract!Erase
    <3> QED
      BY <2>1, <3>1 DEF Contract!Next
  <2> QED
    BY <1>1, <2>2, <2>3, <2>4
<1>2. CASE UNCHANGED vars
  BY <1>2 DEF vars, Data, length
<1> QED
  BY <1>1, <1>2 DEF Next

\* The buffer implements ByteQueue: what is read is what was appended, in this
\* order and once, however the data moves and the allocation changes.
THEOREM BufferKeepsContract == Spec => KeepsContract
<1>1. Init => Contract!Init
  <2> SUFFICES ASSUME Init PROVE Data = <<>> /\ next = 0
    BY DEF Contract!Init
  <2>1. IInv /\ length = 0
    BY InitIInv DEF Init, length
  <2>2. Data \in Seq(Cell) /\ Len(Data) = 0
    BY <2>1, DataNow
  <2> QED
    BY <2>2, EmptySeq DEF Init
<1> QED
  BY <1>1, ContractStep, BufferInvariance, PTL DEF Spec, KeepsContract, Contract!Spec

\* An instance has finite sets of its own.
LEMMA SameSets ==
  \A S : (D!IsFiniteSet(S) <=> IsFiniteSet(S)) /\ D!Cardinality(S) = Cardinality(S)
BY DEF D!IsFiniteSet, IsFiniteSet, D!Cardinality, Cardinality

-----------------------------------------------------------------------------
(* The deque.  Its addresses in the order of the list are the invariant:   *)
(* both directions of the links follow them, and nothing else is in use.   *)

\* s is the list, of l nodes.
Chain(s, l) ==
  /\ s \in [1..l -> allocated]
  /\ \A n \in allocated : \E i \in 1..l : s[i] = n
  /\ \A i, j \in 1..l : s[i] = s[j] => i = j
  /\ head = IF l = 0 THEN None ELSE s[1]
  /\ tail = IF l = 0 THEN None ELSE s[l]
  /\ \A i \in 1..l : /\ node[s[i]].next = IF i = l THEN None ELSE s[i + 1]
                     /\ node[s[i]].prev = IF i = 1 THEN None ELSE s[i - 1]

DequeIInv ==
  /\ D!SdequeAssumption
  /\ node \in [Address -> D!Nodes]
  /\ allocated \subseteq Address
  /\ num_nodes \in Nat /\ num_nodes = Cardinality(allocated)
  /\ \E s : Chain(s, num_nodes)

\* The ends of a list and the neighbours of its nodes.
LEMMA ChainEnds ==
  ASSUME DequeIInv, NEW s, Chain(s, num_nodes)
  PROVE  /\ num_nodes \in Nat
         /\ None \notin Address /\ None \notin allocated
         /\ num_nodes = 0 => allocated = {} /\ head = None /\ tail = None
         /\ num_nodes > 0 => /\ head = s[1] /\ tail = s[num_nodes]
                             /\ head \in allocated /\ tail \in allocated
         /\ head = None <=> num_nodes = 0
         /\ tail = None <=> num_nodes = 0
         /\ \A i \in 1..num_nodes : s[i] \in allocated /\ s[i] \in Address
<1>1. num_nodes \in Nat /\ None \notin Address /\ allocated \subseteq Address
  BY DEF DequeIInv, D!SdequeAssumption
<1>2. \A i \in 1..num_nodes : s[i] \in allocated /\ s[i] \in Address
  BY <1>1 DEF Chain
<1>3. num_nodes > 0 => 1 \in 1..num_nodes /\ num_nodes \in 1..num_nodes
  BY <1>1
<1>4. num_nodes = 0 => 1..num_nodes = {}
  OBVIOUS
<1> QED
  BY <1>1, <1>2, <1>3, <1>4 DEF Chain

LEMMA DequeSound ==
  ASSUME DequeIInv
  PROVE  D!TypeOK /\ D!Linked
<1>1. PICK s : Chain(s, num_nodes)
  BY DEF DequeIInv
<1>2. IsFiniteSet(Address) /\ allocated \subseteq Address /\ num_nodes = Cardinality(allocated)
  BY SameSets DEF DequeIInv, D!SdequeAssumption
<1>3. num_nodes \in 0..Cardinality(Address)
  <2>1. Cardinality(allocated) <= Cardinality(Address) /\ Cardinality(Address) \in Nat
    BY <1>2, FS_Subset, FS_CardinalityType
  <2> QED
    BY <1>1, <1>2, <2>1, ChainEnds
<1>4. D!TypeOK
  BY <1>1, <1>2, <1>3, ChainEnds, SameSets DEF D!TypeOK, DequeIInv, D!Link
<1>5. {head, tail} \subseteq allocated \cup {None}
  BY <1>1, ChainEnds
<1>6. (head = None <=> allocated = {}) /\ (tail = None <=> allocated = {})
  <2>1. num_nodes = 0 => allocated = {}
    BY <1>1, ChainEnds
  <2>2. num_nodes # 0 => allocated # {}
    BY <1>1, ChainEnds
  <2> QED
    BY <1>1, <2>1, <2>2, ChainEnds
<1>7. ASSUME NEW n \in allocated
      PROVE  /\ IF n = tail THEN node[n].next = None
                ELSE node[n].next \in allocated /\ node[node[n].next].prev = n
             /\ IF n = head THEN node[n].prev = None
                ELSE node[n].prev \in allocated /\ node[node[n].prev].next = n
  <2>1. PICK i \in 1..num_nodes : s[i] = n
    BY <1>1 DEF Chain
  <2>2. num_nodes \in Nat /\ num_nodes > 0 /\ head = s[1] /\ tail = s[num_nodes]
    BY <1>1, <2>1, ChainEnds
  <2>3. (n = tail <=> i = num_nodes) /\ (n = head <=> i = 1)
    <3>1. 1 \in 1..num_nodes /\ num_nodes \in 1..num_nodes
      BY <2>2
    <3>2. \A j \in 1..num_nodes : s[i] = s[j] => i = j
      BY <1>1 DEF Chain
    <3> QED
      BY <2>1, <2>2, <3>1, <3>2
  <2>4. i # num_nodes =>
          i + 1 \in 1..num_nodes /\ i + 1 # 1 /\ (i + 1) - 1 = i /\ node[n].next = s[i + 1]
    <3>1. i # num_nodes => i + 1 \in 1..num_nodes /\ i + 1 # 1 /\ (i + 1) - 1 = i
      BY <2>2
    <3>2. i # num_nodes => node[n].next = s[i + 1]
      BY <1>1, <2>1 DEF Chain
    <3> QED
      BY <3>1, <3>2
  <2>5. i # 1 =>
          i - 1 \in 1..num_nodes /\ i - 1 # num_nodes /\ (i - 1) + 1 = i /\ node[n].prev = s[i - 1]
    <3>1. i # 1 => i - 1 \in 1..num_nodes /\ i - 1 # num_nodes /\ (i - 1) + 1 = i
      BY <2>2
    <3>2. i # 1 => node[n].prev = s[i - 1]
      BY <1>1, <2>1 DEF Chain
    <3> QED
      BY <3>1, <3>2
  <2>6. i # num_nodes => s[i + 1] \in allocated /\ node[s[i + 1]].prev = s[i]
    BY <1>1, <2>4, ChainEnds DEF Chain
  <2>7. i # 1 => s[i - 1] \in allocated /\ node[s[i - 1]].next = s[i]
    BY <1>1, <2>5, ChainEnds DEF Chain
  <2>8. (i = num_nodes => node[n].next = None) /\ (i = 1 => node[n].prev = None)
    BY <1>1, <2>1 DEF Chain
  <2> QED
    BY <2>1, <2>3, <2>4, <2>5, <2>6, <2>7, <2>8
<1> QED
  BY <1>2, <1>4, <1>5, <1>6, <1>7, SameSets DEF D!Linked

-----------------------------------------------------------------------------
\* What is left and what is new after each operation.

LEMMA DequeInit ==
  D!SdequeAssumption /\ D!Init => DequeIInv /\ Chain(<<>>, 0)
<1> SUFFICES ASSUME D!SdequeAssumption, D!Init PROVE DequeIInv /\ Chain(<<>>, 0)
  OBVIOUS
<1>1. allocated = {} /\ head = None /\ tail = None /\ num_nodes = 0
  BY DEF D!Init
<1>2. node \in [Address -> D!Nodes]
  BY DEF D!Init, D!Zeroed, D!Nodes, D!Link
<1>3. Chain(<<>>, 0)
  BY <1>1 DEF Chain
<1>4. Cardinality({}) = 0
  BY FS_EmptySet
<1> QED
  BY <1>1, <1>2, <1>3, <1>4 DEF DequeIInv

\* One address more, or one less.
LEMMA Counted ==
  ASSUME DequeIInv, NEW n \in Address
  PROVE  /\ n \notin allocated => Cardinality(allocated \cup {n}) = num_nodes + 1
         /\ n \in allocated => Cardinality(allocated \ {n}) = num_nodes - 1
<1>1. IsFiniteSet(allocated)
  BY FS_Subset, SameSets DEF DequeIInv, D!SdequeAssumption
<1> QED
  BY <1>1, FS_AddElement, FS_RemoveElement DEF DequeIInv

InFront(n, s, l) == [i \in 1..l + 1 |-> IF i = 1 THEN n ELSE s[i - 1]]
Behind(n, s, l) == [i \in 1..l + 1 |-> IF i = l + 1 THEN n ELSE s[i]]
Rest(s, l) == [i \in 1..l - 1 |-> s[i + 1]]
AllButLast(s, l) == [i \in 1..l - 1 |-> s[i]]

LEMMA PushFrontChain ==
  ASSUME DequeIInv, NEW n \in Address, NEW v \in Value, D!PushFront(n, v),
         NEW s, NEW l \in Nat, l = num_nodes, Chain(s, l)
  PROVE  /\ DequeIInv'
         /\ Chain(InFront(n, s, l), l + 1)'
         /\ node'[n].value = v
         /\ \A i \in 1..l : node'[s[i]].value = node[s[i]].value
<1> DEFINE t == InFront(n, s, l)
<1>1. /\ n \notin allocated /\ allocated' = allocated \cup {n}
      /\ head' = n /\ tail' = IF head = None THEN n ELSE tail
      /\ num_nodes' = l + 1
  BY DEF D!PushFront, D!Allocated
<1>2. /\ node'[n] = [value |-> v, next |-> head, prev |-> None]
      /\ \A m \in Address : m # n => node'[m] = IF m = head THEN [node[m] EXCEPT !.prev = n] ELSE node[m]
  BY DEF D!PushFront, D!Zeroed
<1>3. /\ l \in Nat /\ None \notin Address
      /\ \A i \in 1..l : s[i] \in allocated /\ s[i] \in Address
      /\ l > 0 => head = s[1] /\ tail = s[l]
      /\ l = 0 => head = None /\ allocated = {}
      /\ head = None <=> l = 0
  BY ChainEnds
<1>4. node' \in [Address -> D!Nodes]
  <2>1. node \in [Address -> D!Nodes] /\ head \in D!Link /\ n \in D!Link /\ None \in D!Link
    BY DequeSound DEF D!TypeOK, D!Link
  <2> QED
    BY <2>1 DEF D!PushFront, D!Zeroed, D!Nodes
<1>5. ASSUME NEW i \in 1..l
      PROVE  /\ node'[s[i]].next = node[s[i]].next
             /\ node'[s[i]].value = node[s[i]].value
             /\ node'[s[i]].prev = IF i = 1 THEN n ELSE node[s[i]].prev
  <2>1. s[i] # n /\ s[i] \in Address
    BY <1>1, <1>3
  <2>2. l > 0 /\ 1 \in 1..l /\ (s[i] = head <=> i = 1)
    BY <1>3 DEF Chain
  <2>3. node[s[i]] \in D!Nodes
    BY <2>1 DEF DequeIInv
  <2> QED
    BY <1>2, <2>1, <2>2, <2>3 DEF D!Nodes
<1>6. t[1] = n /\ \A i \in 1..l : i + 1 \in 1..l + 1 /\ t[i + 1] = s[i]
  BY <1>3 DEF InFront
<1>7. \A j \in 1..l + 1 : j = 1 \/ (j - 1 \in 1..l /\ t[j] = s[j - 1])
  BY <1>3 DEF InFront
<1>8. t \in [1..l + 1 -> allocated']
  BY <1>1, <1>3 DEF InFront
<1> HIDE DEF t
<1>9. \A m \in allocated' : \E i \in 1..l + 1 : t[i] = m
  <2> SUFFICES ASSUME NEW m \in allocated' PROVE \E i \in 1..l + 1 : t[i] = m
    OBVIOUS
  <2>1. CASE m = n
    BY <1>3, <1>6, <2>1
  <2>2. CASE m \in allocated
    <3>1. PICK i \in 1..l : s[i] = m
      BY <2>2 DEF Chain
    <3> QED
      BY <1>6, <3>1
  <2> QED
    BY <1>1, <2>1, <2>2
<1>10. \A i, j \in 1..l + 1 : t[i] = t[j] => i = j
  <2>1. \A i, j \in 1..l : s[i] = s[j] => i = j
    BY DEF Chain
  <2>2. \A j \in 1..l + 1 : j # 1 => t[j] # n
    BY <1>1, <1>3, <1>7
  <2>3. \A i, j \in 1..l + 1 : i # 1 /\ j # 1 /\ t[i] = t[j] => i - 1 = j - 1
    BY <1>7, <2>1
  <2>4. \A i, j \in 1..l + 1 : i - 1 = j - 1 => i = j
    BY <1>3
  <2> QED
    BY <1>6, <2>2, <2>3, <2>4
<1>11. tail' = t[l + 1] /\ l + 1 # 0
  <2>1. CASE l = 0
    BY <1>1, <1>3, <1>6, <2>1
  <2>2. CASE l > 0
    BY <1>1, <1>3, <1>6, <2>2
  <2> QED
    BY <1>3, <2>1, <2>2
<1>12. ASSUME NEW j \in 1..l + 1
       PROVE  /\ node'[t[j]].next = IF j = l + 1 THEN None ELSE t[j + 1]
              /\ node'[t[j]].prev = IF j = 1 THEN None ELSE t[j - 1]
  <2>1. CASE j = 1
    <3>1. node'[t[j]].next = head /\ node'[t[j]].prev = None
      BY <1>2, <1>6, <2>1
    <3>2. l > 0 => t[j + 1] = s[1]
      BY <1>3, <1>6, <2>1
    <3> QED
      BY <1>3, <2>1, <3>1, <3>2
  <2>2. CASE j # 1
    <3> DEFINE i == j - 1
    <3>1. i \in 1..l /\ j = i + 1 /\ t[j] = s[i] /\ (i = l <=> j = l + 1)
      BY <1>3, <1>7, <2>2
    <3> HIDE DEF i
    <3>2. node[s[i]].next = (IF i = l THEN None ELSE s[i + 1]) /\ node[s[i]].prev = (IF i = 1 THEN None ELSE s[i - 1])
      BY <3>1 DEF Chain
    <3>3. i # l => i + 1 \in 1..l /\ t[j + 1] = s[i + 1]
      BY <1>3, <1>6, <3>1
    <3>4. i # 1 => i - 1 \in 1..l /\ t[i] = s[i - 1]
      BY <1>3, <1>7, <3>1
    <3>5. j - 1 = i
      BY <3>1
    <3> QED
      BY <1>5, <1>6, <2>2, <3>1, <3>2, <3>3, <3>4, <3>5
  <2> QED
    BY <2>1, <2>2
<1>13. Chain(t, l + 1)'
  BY <1>1, <1>3, <1>6, <1>8, <1>9, <1>10, <1>11, <1>12 DEF Chain
<1>14. num_nodes' = Cardinality(allocated') /\ num_nodes' \in Nat
  BY <1>1, <1>3, Counted
<1>15. DequeIInv'
  BY <1>1, <1>4, <1>13, <1>14 DEF DequeIInv
<1> QED
  BY <1>2, <1>5, <1>13, <1>15 DEF t

LEMMA PushBackChain ==
  ASSUME DequeIInv, NEW n \in Address, NEW v \in Value, D!PushBack(n, v),
         NEW s, NEW l \in Nat, l = num_nodes, Chain(s, l)
  PROVE  /\ DequeIInv'
         /\ Chain(Behind(n, s, l), l + 1)'
         /\ node'[n].value = v
         /\ \A i \in 1..l : node'[s[i]].value = node[s[i]].value
<1> DEFINE t == Behind(n, s, l)
<1>1. /\ n \notin allocated /\ allocated' = allocated \cup {n}
      /\ tail' = n /\ head' = IF tail = None THEN n ELSE head
      /\ num_nodes' = l + 1
  BY DEF D!PushBack, D!Allocated
<1>2. /\ node'[n] = [value |-> v, next |-> None, prev |-> tail]
      /\ \A m \in Address : m # n => node'[m] = IF m = tail THEN [node[m] EXCEPT !.next = n] ELSE node[m]
  BY DEF D!PushBack, D!Zeroed
<1>3. /\ None \notin Address
      /\ \A i \in 1..l : s[i] \in allocated /\ s[i] \in Address
      /\ l > 0 => head = s[1] /\ tail = s[l]
      /\ l = 0 => tail = None /\ allocated = {}
      /\ tail = None <=> l = 0
  BY ChainEnds
<1>4. node' \in [Address -> D!Nodes]
  <2>1. node \in [Address -> D!Nodes] /\ tail \in D!Link /\ n \in D!Link /\ None \in D!Link
    BY DequeSound DEF D!TypeOK, D!Link
  <2> QED
    BY <2>1 DEF D!PushBack, D!Zeroed, D!Nodes
<1>5. ASSUME NEW i \in 1..l
      PROVE  /\ node'[s[i]].prev = node[s[i]].prev
             /\ node'[s[i]].value = node[s[i]].value
             /\ node'[s[i]].next = IF i = l THEN n ELSE node[s[i]].next
  <2>1. s[i] # n /\ s[i] \in Address
    BY <1>1, <1>3
  <2>2. l > 0 /\ l \in 1..l /\ (s[i] = tail <=> i = l)
    BY <1>3 DEF Chain
  <2>3. node[s[i]] \in D!Nodes
    BY <2>1 DEF DequeIInv
  <2> QED
    BY <1>2, <2>1, <2>2, <2>3 DEF D!Nodes
<1>6. t[l + 1] = n /\ \A i \in 1..l : i \in 1..l + 1 /\ i # l + 1 /\ t[i] = s[i]
  BY DEF Behind
<1>7. \A j \in 1..l + 1 : j = l + 1 \/ j \in 1..l
  OBVIOUS
<1>8. t \in [1..l + 1 -> allocated']
  BY <1>1, <1>3 DEF Behind
<1> HIDE DEF t
<1>9. \A m \in allocated' : \E i \in 1..l + 1 : t[i] = m
  <2> SUFFICES ASSUME NEW m \in allocated' PROVE \E i \in 1..l + 1 : t[i] = m
    OBVIOUS
  <2>1. CASE m = n
    BY <1>6, <2>1
  <2>2. CASE m \in allocated
    <3>1. PICK i \in 1..l : s[i] = m
      BY <2>2 DEF Chain
    <3> QED
      BY <1>6, <3>1
  <2> QED
    BY <1>1, <2>1, <2>2
<1>10. \A i, j \in 1..l + 1 : t[i] = t[j] => i = j
  <2>1. \A i, j \in 1..l : s[i] = s[j] => i = j
    BY DEF Chain
  <2>2. \A j \in 1..l : t[j] # n
    BY <1>1, <1>3, <1>6
  <2>3. \A i, j \in 1..l : t[i] = t[j] => i = j
    BY <1>6, <2>1
  <2> QED
    BY <1>6, <1>7, <2>2, <2>3
<1>11. head' = t[1] /\ l + 1 # 0
  <2>1. CASE l = 0
    BY <1>1, <1>3, <1>6, <2>1
  <2>2. CASE l > 0
    BY <1>1, <1>3, <1>6, <2>2
  <2> QED
    BY <2>1, <2>2
<1>12. ASSUME NEW j \in 1..l + 1
       PROVE  /\ node'[t[j]].next = IF j = l + 1 THEN None ELSE t[j + 1]
              /\ node'[t[j]].prev = IF j = 1 THEN None ELSE t[j - 1]
  <2>1. CASE j = l + 1
    <3>1. node'[t[j]].prev = tail /\ node'[t[j]].next = None
      BY <1>2, <1>6, <2>1
    <3>2. l > 0 => l \in 1..l /\ t[j - 1] = s[l]
      BY <1>3, <1>6, <2>1
    <3> QED
      BY <1>3, <2>1, <3>1, <3>2
  <2>2. CASE j # l + 1
    <3>1. j \in 1..l /\ t[j] = s[j]
      BY <1>6, <1>7, <2>2
    <3>2. node[s[j]].next = (IF j = l THEN None ELSE s[j + 1]) /\ node[s[j]].prev = (IF j = 1 THEN None ELSE s[j - 1])
      BY <3>1 DEF Chain
    <3>3. j # l => j + 1 \in 1..l /\ t[j + 1] = s[j + 1]
      BY <1>6, <3>1
    <3>4. j # 1 => j - 1 \in 1..l /\ t[j - 1] = s[j - 1]
      BY <1>6, <3>1
    <3>5. j = l => t[j + 1] = n
      BY <1>6
    <3> QED
      BY <1>5, <2>2, <3>1, <3>2, <3>3, <3>4, <3>5
  <2> QED
    BY <2>1, <2>2
<1>13. Chain(t, l + 1)'
  BY <1>1, <1>6, <1>8, <1>9, <1>10, <1>11, <1>12 DEF Chain
<1>14. num_nodes' = Cardinality(allocated') /\ num_nodes' \in Nat
  BY <1>1, Counted
<1>15. DequeIInv'
  BY <1>1, <1>4, <1>13, <1>14 DEF DequeIInv
<1> QED
  BY <1>2, <1>5, <1>13, <1>15 DEF t

LEMMA PopFrontChain ==
  ASSUME DequeIInv, D!PopFront, NEW s, NEW l \in Nat, l = num_nodes, Chain(s, l)
  PROVE  /\ DequeIInv'
         /\ l > 0 /\ Chain(Rest(s, l), l - 1)'
         /\ \A i \in 1..l : node'[s[i]].value = node[s[i]].value
<1> DEFINE t == Rest(s, l)
<1>1. /\ head # None /\ allocated' = allocated \ {head}
      /\ head' = node[head].next /\ tail' = IF node[head].next = None THEN None ELSE tail
      /\ num_nodes' = l - 1
  BY DEF D!PopFront
<1>2. \A m \in Address :
        node'[m] = IF m = node[head].next THEN [node[m] EXCEPT !.prev = None] ELSE node[m]
  BY DEF D!PopFront
<1>3. /\ None \notin Address /\ None \notin allocated /\ l > 0
      /\ \A i \in 1..l : s[i] \in allocated /\ s[i] \in Address
      /\ head = s[1] /\ tail = s[l] /\ l - 1 \in Nat
  BY <1>1, ChainEnds
<1>4. node' \in [Address -> D!Nodes]
  BY DEF D!PopFront, DequeIInv, D!Nodes, D!Link
<1>5. node[head].next = IF l = 1 THEN None ELSE s[2]
  BY <1>3 DEF Chain
<1>6. ASSUME NEW i \in 1..l
      PROVE  /\ node'[s[i]].next = node[s[i]].next
             /\ node'[s[i]].value = node[s[i]].value
             /\ node'[s[i]].prev = IF i = 2 THEN None ELSE node[s[i]].prev
  <2>1. s[i] # None /\ s[i] \in Address
    BY <1>3
  <2>2. s[i] = node[head].next <=> i = 2
    BY <1>5, <2>1 DEF Chain
  <2>3. node[s[i]] \in D!Nodes
    BY <2>1 DEF DequeIInv
  <2> QED
    BY <1>2, <2>1, <2>2, <2>3 DEF D!Nodes
<1>7. \A i \in 1..l - 1 : i + 1 \in 1..l /\ i + 1 # 1 /\ t[i] = s[i + 1]
  BY DEF Rest
<1>8. \A i, j \in 1..l : s[i] = s[j] => i = j
  BY DEF Chain
<1>9. t \in [1..l - 1 -> allocated']
  <2>1. \A i \in 1..l - 1 : s[i + 1] \in allocated /\ s[i + 1] # head
    BY <1>3, <1>7, <1>8
  <2> QED
    BY <1>1, <2>1 DEF Rest
<1> HIDE DEF t
<1>10. \A m \in allocated' : \E i \in 1..l - 1 : t[i] = m
  <2> SUFFICES ASSUME NEW m \in allocated' PROVE \E i \in 1..l - 1 : t[i] = m
    OBVIOUS
  <2>1. PICK i \in 1..l : s[i] = m
    BY <1>1 DEF Chain
  <2>2. i # 1
    BY <1>1, <1>3, <2>1
  <2>3. i - 1 \in 1..l - 1 /\ (i - 1) + 1 = i
    BY <2>2
  <2> QED
    BY <1>7, <2>1, <2>3
<1>11. \A i, j \in 1..l - 1 : t[i] = t[j] => i = j
  <2>1. \A i, j \in 1..l - 1 : t[i] = t[j] => i + 1 = j + 1
    BY <1>7, <1>8
  <2>2. \A i, j \in 1..l - 1 : i + 1 = j + 1 => i = j
    OBVIOUS
  <2> QED
    BY <2>1, <2>2
<1>12. /\ head' = IF l - 1 = 0 THEN None ELSE t[1]
       /\ tail' = IF l - 1 = 0 THEN None ELSE t[l - 1]
  <2>1. CASE l = 1
    BY <1>1, <1>5, <2>1
  <2>2. CASE l > 1
    <3>1. 1 \in 1..l - 1 /\ l - 1 \in 1..l - 1 /\ 2 \in 1..l /\ 1 + 1 = 2 /\ (l - 1) + 1 = l
      BY <2>2
    <3>2. t[1] = s[2] /\ t[l - 1] = s[l] /\ s[2] # None
      BY <1>3, <1>7, <3>1
    <3> QED
      BY <1>1, <1>3, <1>5, <2>2, <3>2
  <2> QED
    BY <1>3, <2>1, <2>2
<1>13. ASSUME NEW j \in 1..l - 1
       PROVE  /\ node'[t[j]].next = IF j = l - 1 THEN None ELSE t[j + 1]
              /\ node'[t[j]].prev = IF j = 1 THEN None ELSE t[j - 1]
  <2>1. PICK i \in 1..l : i = j + 1 /\ t[j] = s[i]
    BY <1>7
  <2>2. node[s[i]].next = (IF i = l THEN None ELSE s[i + 1]) /\ node[s[i]].prev = (IF i = 1 THEN None ELSE s[i - 1])
    BY DEF Chain
  <2>3. (i = l <=> j = l - 1) /\ (i = 2 <=> j = 1) /\ i # 1
    BY <2>1
  <2>4. j # l - 1 => j + 1 \in 1..l - 1 /\ t[j + 1] = s[i + 1]
    BY <1>7, <2>1
  <2>5. j # 1 => j - 1 \in 1..l - 1 /\ (j - 1) + 1 = i - 1
    BY <2>1
  <2>6. j # 1 => t[j - 1] = s[i - 1]
    BY <1>7, <2>5
  <2> QED
    BY <1>6, <2>1, <2>2, <2>3, <2>4, <2>6
<1>14. Chain(t, l - 1)'
  BY <1>1, <1>9, <1>10, <1>11, <1>12, <1>13 DEF Chain
<1>15. num_nodes' = Cardinality(allocated') /\ num_nodes' \in Nat
  <2>1. 1 \in 1..l
    BY <1>3
  <2>2. head \in allocated /\ head \in Address
    BY <1>3, <2>1
  <2> QED
    BY <1>1, <1>3, <2>2, Counted
<1>16. DequeIInv'
  BY <1>1, <1>4, <1>14, <1>15 DEF DequeIInv
<1> QED
  BY <1>3, <1>6, <1>14, <1>16 DEF t

LEMMA PopBackChain ==
  ASSUME DequeIInv, D!PopBack, NEW s, NEW l \in Nat, l = num_nodes, Chain(s, l)
  PROVE  /\ DequeIInv'
         /\ l > 0 /\ Chain(AllButLast(s, l), l - 1)'
         /\ \A i \in 1..l : node'[s[i]].value = node[s[i]].value
<1> DEFINE t == AllButLast(s, l)
<1>1. /\ tail # None /\ allocated' = allocated \ {tail}
      /\ tail' = node[tail].prev /\ head' = IF node[tail].prev = None THEN None ELSE head
      /\ num_nodes' = l - 1
  BY DEF D!PopBack
<1>2. \A m \in Address :
        node'[m] = IF m = node[tail].prev THEN [node[m] EXCEPT !.next = None] ELSE node[m]
  BY DEF D!PopBack
<1>3. /\ None \notin Address /\ None \notin allocated /\ l > 0
      /\ \A i \in 1..l : s[i] \in allocated /\ s[i] \in Address
      /\ head = s[1] /\ tail = s[l] /\ l - 1 \in Nat
  BY <1>1, ChainEnds
<1>4. node' \in [Address -> D!Nodes]
  BY DEF D!PopBack, DequeIInv, D!Nodes, D!Link
<1>5. node[tail].prev = IF l = 1 THEN None ELSE s[l - 1]
  BY <1>3 DEF Chain
<1>6. ASSUME NEW i \in 1..l
      PROVE  /\ node'[s[i]].prev = node[s[i]].prev
             /\ node'[s[i]].value = node[s[i]].value
             /\ node'[s[i]].next = IF i = l - 1 THEN None ELSE node[s[i]].next
  <2>1. s[i] # None /\ s[i] \in Address
    BY <1>3
  <2>2. s[i] = node[tail].prev <=> i = l - 1
    BY <1>5, <2>1 DEF Chain
  <2>3. node[s[i]] \in D!Nodes
    BY <2>1 DEF DequeIInv
  <2> QED
    BY <1>2, <2>1, <2>2, <2>3 DEF D!Nodes
<1>7. \A i \in 1..l - 1 : i \in 1..l /\ i # l /\ t[i] = s[i]
  BY DEF AllButLast
<1>8. \A i, j \in 1..l : s[i] = s[j] => i = j
  BY DEF Chain
<1>9. t \in [1..l - 1 -> allocated']
  <2>1. \A i \in 1..l - 1 : s[i] \in allocated /\ s[i] # tail
    BY <1>3, <1>7, <1>8
  <2> QED
    BY <1>1, <2>1 DEF AllButLast
<1> HIDE DEF t
<1>10. \A m \in allocated' : \E i \in 1..l - 1 : t[i] = m
  <2> SUFFICES ASSUME NEW m \in allocated' PROVE \E i \in 1..l - 1 : t[i] = m
    OBVIOUS
  <2>1. PICK i \in 1..l : s[i] = m
    BY <1>1 DEF Chain
  <2>2. i # l
    BY <1>1, <1>3, <2>1
  <2>3. i \in 1..l - 1
    BY <2>2
  <2> QED
    BY <1>7, <2>1, <2>3
<1>11. \A i, j \in 1..l - 1 : t[i] = t[j] => i = j
  BY <1>7, <1>8
<1>12. /\ head' = IF l - 1 = 0 THEN None ELSE t[1]
       /\ tail' = IF l - 1 = 0 THEN None ELSE t[l - 1]
  <2>1. CASE l = 1
    BY <1>1, <1>5, <2>1
  <2>2. CASE l > 1
    <3>1. 1 \in 1..l - 1 /\ l - 1 \in 1..l - 1
      BY <2>2
    <3>2. t[1] = s[1] /\ t[l - 1] = s[l - 1] /\ s[l - 1] # None
      BY <1>3, <1>7, <3>1
    <3> QED
      BY <1>1, <1>3, <1>5, <2>2, <3>2
  <2> QED
    BY <1>3, <2>1, <2>2
<1>13. ASSUME NEW j \in 1..l - 1
       PROVE  /\ node'[t[j]].next = IF j = l - 1 THEN None ELSE t[j + 1]
              /\ node'[t[j]].prev = IF j = 1 THEN None ELSE t[j - 1]
  <2>1. j \in 1..l /\ j # l /\ t[j] = s[j]
    BY <1>7
  <2>2. node[s[j]].next = s[j + 1] /\ node[s[j]].prev = (IF j = 1 THEN None ELSE s[j - 1])
    BY <2>1 DEF Chain
  <2>3. j # l - 1 => j + 1 \in 1..l - 1 /\ t[j + 1] = s[j + 1]
    BY <1>7, <2>1
  <2>4. j # 1 => j - 1 \in 1..l - 1 /\ t[j - 1] = s[j - 1]
    BY <1>7, <2>1
  <2> QED
    BY <1>6, <2>1, <2>2, <2>3, <2>4
<1>14. Chain(t, l - 1)'
  BY <1>1, <1>9, <1>10, <1>11, <1>12, <1>13 DEF Chain
<1>15. num_nodes' = Cardinality(allocated') /\ num_nodes' \in Nat
  <2>1. l \in 1..l
    BY <1>3
  <2>2. tail \in allocated /\ tail \in Address
    BY <1>3, <2>1
  <2> QED
    BY <1>1, <1>3, <2>2, Counted
<1>16. DequeIInv'
  BY <1>1, <1>4, <1>14, <1>15 DEF DequeIInv
<1> QED
  BY <1>3, <1>6, <1>14, <1>16 DEF t

LEMMA DequeNext == DequeIInv /\ D!Next => DequeIInv'
<1> SUFFICES ASSUME DequeIInv, D!Next PROVE DequeIInv'
  OBVIOUS
<1>1. PICK s : Chain(s, num_nodes)
  BY DEF DequeIInv
<1>2. num_nodes \in Nat
  BY DEF DequeIInv
<1>3. CASE \E n \in Address, v \in Value : D!PushFront(n, v)
  BY <1>1, <1>2, <1>3, PushFrontChain
<1>4. CASE \E n \in Address, v \in Value : D!PushBack(n, v)
  BY <1>1, <1>2, <1>4, PushBackChain
<1>5. CASE D!PopFront
  BY <1>1, <1>2, <1>5, PopFrontChain
<1>6. CASE D!PopBack
  BY <1>1, <1>2, <1>6, PopBackChain
<1> QED
  BY <1>3, <1>4, <1>5, <1>6 DEF D!Next

LEMMA DequeStutter == DequeIInv /\ UNCHANGED dequeVars => DequeIInv'
BY DEF DequeIInv, dequeVars, Chain

-----------------------------------------------------------------------------
(* What the links of a list spell.  from is a recursive function over the  *)
(* addresses in use; the list says in which order it descends.             *)

Spells(f, A, nd) ==
  f = [n \in A \cup {None} |-> IF n = None THEN <<>> ELSE <<nd[n].value>> \o f[nd[n].next]]

\* s is a list of l nodes from hd on, whose values are w.
Lists(s, l, hd, w, A, nd) ==
  /\ None \notin A /\ l \in Nat /\ s \in [1..l -> A]
  /\ \A n \in A : \E i \in 1..l : s[i] = n
  /\ \A i, j \in 1..l : s[i] = s[j] => i = j
  /\ \A i \in 1..l : nd[s[i]].next = IF i = l THEN None ELSE s[i + 1]
  /\ w \in Seq(Value \cup {None}) /\ Len(w) = l
  /\ \A i \in 1..l : nd[s[i]].value = w[i]
  /\ hd = IF l = 0 THEN None ELSE s[1]

LEMMA FromList ==
  ASSUME NEW s, NEW l, NEW hd, NEW w, NEW A, NEW nd, Lists(s, l, hd, w, A, nd)
  PROVE  (\E f : Spells(f, A, nd)) /\ \A f : Spells(f, A, nd) => f[hd] = w
<1> DEFINE S == A \cup {None}
           Seg(i) == SubSeq(w, i, l)
           pos == [n \in A |-> CHOOSE i \in 1..l : s[i] = n]
           At1(i) == IF i = l + 1 THEN None ELSE s[i]
           g == [n \in S |-> IF n = None THEN <<>> ELSE Seg(pos[n])]
<1>0. /\ None \notin A /\ l \in Nat /\ s \in [1..l -> A]
      /\ \A n \in A : \E i \in 1..l : s[i] = n
      /\ \A i, j \in 1..l : s[i] = s[j] => i = j
      /\ \A i \in 1..l : nd[s[i]].next = IF i = l THEN None ELSE s[i + 1]
      /\ w \in Seq(Value \cup {None}) /\ Len(w) = l
      /\ \A i \in 1..l : nd[s[i]].value = w[i]
      /\ hd = IF l = 0 THEN None ELSE s[1]
  BY DEF Lists
<1> HIDE DEF Lists
<1> USE <1>0
<1>1. \A i \in 1..l : s[i] \in A /\ pos[s[i]] = i
  OBVIOUS
<1>2. /\ Seg(l + 1) = <<>>
      /\ \A i \in 1..l : Seg(i) = <<nd[s[i]].value>> \o Seg(i + 1)
  <2>1. l + 1 \in Int /\ l \in Int /\ l < l + 1
    OBVIOUS
  <2>2. SubSeq(w, l + 1, l) = <<>>
    BY <2>1, SubSeqEmpty
  <2>3. ASSUME NEW i \in 1..l
        PROVE  SubSeq(w, i, l) = <<w[i]>> \o SubSeq(w, i + 1, l)
    <3>1. i \in 1..Len(w) /\ l \in i..Len(w)
      OBVIOUS
    <3> QED
      BY <3>1, SubSeqRecursiveFirst
  <2> QED
    BY <2>2, <2>3
<1> HIDE DEF pos, Seg
<1>3. \A i \in 1..l + 1 : At1(i) \in S /\ g[At1(i)] = Seg(i)
  <2> SUFFICES ASSUME NEW i \in 1..l + 1 PROVE At1(i) \in S /\ g[At1(i)] = Seg(i)
    OBVIOUS
  <2>1. CASE i = l + 1
    BY <1>2, <2>1
  <2>2. CASE i # l + 1
    <3>1. i \in 1..l
      BY <2>2
    <3>2. s[i] \in A /\ s[i] # None /\ pos[s[i]] = i
      BY <1>1, <3>1
    <3> QED
      BY <2>2, <3>2
  <2> QED
    BY <2>1, <2>2
<1> HIDE DEF g
<1>4. \A i \in 1..l : nd[s[i]].next = At1(i + 1) /\ i + 1 \in 1..l + 1
  OBVIOUS
<1>5. Spells(g, A, nd)
  <2>1. ASSUME NEW n \in A PROVE g[n] = <<nd[n].value>> \o g[nd[n].next]
    <3>1. PICK i \in 1..l : s[i] = n
      OBVIOUS
    <3>2. i \in 1..l + 1 /\ At1(i) = n
      BY <3>1
    <3>3. g[n] = Seg(i) /\ g[nd[n].next] = Seg(i + 1)
      BY <1>3, <1>4, <3>1, <3>2
    <3> QED
      BY <1>2, <3>1, <3>3
  <2>2. g = [n \in S |-> g[n]] /\ g[None] = <<>>
    BY DEF g
  <2>3. \A n \in S : g[n] = IF n = None THEN <<>> ELSE <<nd[n].value>> \o g[nd[n].next]
    BY <2>1, <2>2
  <2> QED
    BY <2>2, <2>3 DEF Spells
<1>6. SUFFICES ASSUME NEW from, Spells(from, A, nd) PROVE from[hd] = w
  BY <1>5
<1>7. /\ from[None] = <<>>
      /\ \A i \in 1..l : from[s[i]] = <<nd[s[i]].value>> \o from[At1(i + 1)]
  <2>1. \A n \in S : from[n] = IF n = None THEN <<>> ELSE <<nd[n].value>> \o from[nd[n].next]
    BY <1>6 DEF Spells
  <2>2. None \in S /\ \A i \in 1..l : s[i] \in S /\ s[i] # None
    OBVIOUS
  <2> HIDE DEF S
  <2>3. from[None] = <<>>
    BY <2>1, <2>2
  <2>4. ASSUME NEW i \in 1..l
        PROVE  from[s[i]] = <<nd[s[i]].value>> \o from[At1(i + 1)]
    <3>1. from[s[i]] = <<nd[s[i]].value>> \o from[nd[s[i]].next]
      BY <2>1, <2>2
    <3>2. nd[s[i]].next = At1(i + 1)
      BY <1>4
    <3> QED
      BY <3>1, <3>2
  <2> QED
    BY <2>3, <2>4
<1> DEFINE Bad == {m \in 0..l : from[At1(l + 1 - m)] # Seg(l + 1 - m)}
<1>8. Bad = {}
  <2> SUFFICES ASSUME Bad # {} PROVE FALSE
    OBVIOUS
  <2>1. Bad \subseteq Nat
    OBVIOUS
  <2>2. PICK x \in Bad : \A y \in Bad : ~(<<y, x>> \in OpToRel(<, Nat))
    BY <2>1, NatLessThanWellFounded, WFMin
  <2>3. x \in 0..l /\ \A y \in Bad : ~(y < x)
    BY <2>1, <2>2 DEF OpToRel
  <2>4. x # 0
    <3>1. l + 1 - 0 = l + 1
      OBVIOUS
    <3> QED
      BY <1>2, <1>7, <3>1
  <2>5. x - 1 \in 0..l /\ x - 1 < x /\ l + 1 - x \in 1..l /\ (l + 1 - x) + 1 = l + 1 - (x - 1)
    BY <2>3, <2>4
  <2>6. from[At1(l + 1 - (x - 1))] = Seg(l + 1 - (x - 1))
    BY <2>3, <2>5
  <2>7. from[s[l + 1 - x]] = Seg(l + 1 - x)
    <3> DEFINE i == l + 1 - x
    <3>1. from[s[i]] = <<nd[s[i]].value>> \o from[At1(i + 1)] /\ Seg(i) = <<nd[s[i]].value>> \o Seg(i + 1)
      BY <1>2, <1>7, <2>5
    <3>2. from[At1(i + 1)] = Seg(i + 1)
      BY <2>5, <2>6
    <3> QED
      BY <3>1, <3>2
  <2>8. At1(l + 1 - x) = s[l + 1 - x]
    BY <2>5
  <2> QED
    BY <2>7, <2>8
<1>9. from[At1(1)] = Seg(1)
  <2>1. l \in 0..l /\ l + 1 - l = 1
    OBVIOUS
  <2> QED
    BY <1>8, <2>1
<1>10. At1(1) = IF l = 0 THEN None ELSE s[1]
  BY <1>9
<1>11. Seg(1) = w
  BY SubSeqFull DEF Seg
<1> QED
  BY <1>9, <1>10, <1>11

Spelled(s, l) == [i \in 1..l |-> node[s[i]].value]

LEMMA ValuesAre ==
  ASSUME DequeIInv, NEW s, NEW l \in Nat, l = num_nodes, Chain(s, l)
  PROVE  /\ D!Values = Spelled(s, l)
         /\ Spelled(s, l) \in Seq(Value \cup {None}) /\ Len(Spelled(s, l)) = l
         /\ \A i \in 1..l : Spelled(s, l)[i] = node[s[i]].value
<1> DEFINE V == Value \cup {None}
           w == Spelled(s, l)
<1>1. None \notin allocated /\ \A i \in 1..l : s[i] \in Address
  BY DEF DequeIInv, Chain, D!SdequeAssumption
<1>2. w \in [1..l -> V]
  BY <1>1 DEF DequeIInv, D!Nodes, Spelled
<1>3. \A i \in 1..l : node[s[i]].value = w[i]
  BY DEF Spelled
<1> HIDE DEF V, w
<1>4. w \in Seq(V) /\ Len(w) = l
  BY <1>2, IsSequence
<1>5. /\ None \notin allocated /\ s \in [1..l -> allocated]
      /\ \A n \in allocated : \E i \in 1..l : s[i] = n
      /\ \A i, j \in 1..l : s[i] = s[j] => i = j
      /\ \A i \in 1..l : node[s[i]].next = IF i = l THEN None ELSE s[i + 1]
      /\ head = IF l = 0 THEN None ELSE s[1]
  BY <1>1 DEF Chain
<1>6. D!Values = w
  <2> DEFINE from == CHOOSE f : Spells(f, allocated, node)
  <2>1. /\ \E f : Spells(f, allocated, node)
        /\ \A f : Spells(f, allocated, node) => f[head] = w
    <3>1. Lists(s, l, head, w, allocated, node)
      BY <1>3, <1>4, <1>5 DEF Lists, V
    <3> QED
      BY <3>1, FromList
  <2>2. Spells(from, allocated, node)
    BY <2>1
  <2>3. D!Values = from[head]
    BY DEF D!Values, Spells
  <2> HIDE DEF from
  <2> QED
    BY <2>1, <2>2, <2>3
<1> QED
  BY <1>3, <1>4, <1>6 DEF V, w

LEMMA ValuesNext ==
  ASSUME DequeIInv', NEW s, NEW l \in Nat, l = num_nodes', Chain(s, l)'
  PROVE  /\ D!Values' = Spelled(s, l)'
         /\ Spelled(s, l)' \in Seq(Value \cup {None}) /\ Len(Spelled(s, l)') = l
         /\ \A i \in 1..l : Spelled(s, l)'[i] = node'[s[i]].value
<1> DEFINE V == Value \cup {None}
           w == Spelled(s, l)'
<1>1. None \notin allocated' /\ \A i \in 1..l : s[i] \in Address
  BY DEF DequeIInv, Chain, D!SdequeAssumption
<1>2. w \in [1..l -> V]
  BY <1>1 DEF DequeIInv, D!Nodes, Spelled
<1>3. \A i \in 1..l : node'[s[i]].value = w[i]
  BY DEF Spelled
<1> HIDE DEF V, w
<1>4. w \in Seq(V) /\ Len(w) = l
  BY <1>2, IsSequence
<1>5. /\ None \notin allocated' /\ s \in [1..l -> allocated']
      /\ \A n \in allocated' : \E i \in 1..l : s[i] = n
      /\ \A i, j \in 1..l : s[i] = s[j] => i = j
      /\ \A i \in 1..l : node'[s[i]].next = IF i = l THEN None ELSE s[i + 1]
      /\ head' = IF l = 0 THEN None ELSE s[1]
  BY <1>1 DEF Chain
<1>6. D!Values' = w
  <2> DEFINE from == CHOOSE f : Spells(f, allocated', node')
  <2>1. /\ \E f : Spells(f, allocated', node')
        /\ \A f : Spells(f, allocated', node') => f[head'] = w
    <3>1. Lists(s, l, head', w, allocated', node')
      BY <1>3, <1>4, <1>5 DEF Lists, V
    <3> QED
      BY <3>1, FromList
  <2>2. Spells(from, allocated', node')
    BY <2>1
  <2>3. D!Values' = from[head']
    BY DEF D!Values, Spells
  <2> HIDE DEF from
  <2> QED
    BY <2>1, <2>2, <2>3
<1> QED
  BY <1>3, <1>4, <1>6 DEF V, w

-----------------------------------------------------------------------------
\* Each operation does to the values what its contract says.

LEMMA PushFrontValues ==
  ASSUME DequeIInv, NEW n \in Address, NEW v \in Value, D!PushFront(n, v)
  PROVE  D!Contract!PushFront(v)
<1> DEFINE V == Value \cup {None}
<1>1. PICK l \in Nat : l = num_nodes
  BY DEF DequeIInv
<1>2. PICK s : Chain(s, l)
  BY <1>1 DEF DequeIInv
<1> DEFINE t == InFront(n, s, l)
           w == Spelled(s, l)
           x == Spelled(t, l + 1)'
<1>3. /\ DequeIInv' /\ Chain(t, l + 1)'
      /\ node'[n].value = v
      /\ \A i \in 1..l : node'[s[i]].value = node[s[i]].value
  BY <1>2, <1>1, PushFrontChain
<1>4. num_nodes' = l + 1
  BY <1>1 DEF D!PushFront
<1>5. D!Values = w /\ w \in Seq(V) /\ Len(w) = l /\ \A i \in 1..l : w[i] = node[s[i]].value
  BY <1>2, <1>1, ValuesAre
<1>6. D!Values' = x /\ x \in Seq(V) /\ Len(x) = l + 1 /\ \A i \in 1..l + 1 : x[i] = node'[t[i]].value
  BY <1>1, <1>3, <1>4, ValuesNext
<1>7. /\ <<v>> \o w \in Seq(V) /\ Len(<<v>> \o w) = Len(x)
      /\ (<<v>> \o w)[1] = v
      /\ \A i \in 1..l : (<<v>> \o w)[i + 1] = w[i]
  BY <1>1, <1>5, <1>6
<1>8. t[1] = n /\ \A i \in 1..l : t[i + 1] = s[i]
  BY <1>1 DEF InFront
<1> HIDE DEF w, x, t, V
<1>9. ASSUME NEW i \in 1..Len(x) PROVE x[i] = (<<v>> \o w)[i]
  <2>1. CASE i = 1
    BY <1>1, <1>3, <1>6, <1>7, <1>8, <2>1
  <2>2. CASE i # 1
    <3>1. PICK j \in 1..l : i = j + 1
      BY <1>1, <1>6, <2>2
    <3>2. x[i] = node'[s[j]].value
      BY <1>6, <1>8, <3>1
    <3> QED
      BY <1>3, <1>5, <1>7, <3>1, <3>2
  <2> QED
    BY <2>1, <2>2
<1>10. x = <<v>> \o w
  BY <1>6, <1>7, <1>9, SeqEqual
<1> QED
  BY <1>1, <1>4, <1>5, <1>6, <1>10 DEF D!Contract!PushFront, D!Contract!Becomes

LEMMA PushBackValues ==
  ASSUME DequeIInv, NEW n \in Address, NEW v \in Value, D!PushBack(n, v)
  PROVE  D!Contract!PushBack(v)
<1> DEFINE V == Value \cup {None}
<1>1. PICK l \in Nat : l = num_nodes
  BY DEF DequeIInv
<1>2. PICK s : Chain(s, l)
  BY <1>1 DEF DequeIInv
<1> DEFINE t == Behind(n, s, l)
           w == Spelled(s, l)
           x == Spelled(t, l + 1)'
<1>3. /\ DequeIInv' /\ Chain(t, l + 1)'
      /\ node'[n].value = v
      /\ \A i \in 1..l : node'[s[i]].value = node[s[i]].value
  BY <1>2, <1>1, PushBackChain
<1>4. num_nodes' = l + 1
  BY <1>1 DEF D!PushBack
<1>5. D!Values = w /\ w \in Seq(V) /\ Len(w) = l /\ \A i \in 1..l : w[i] = node[s[i]].value
  BY <1>2, <1>1, ValuesAre
<1>6. D!Values' = x /\ x \in Seq(V) /\ Len(x) = l + 1 /\ \A i \in 1..l + 1 : x[i] = node'[t[i]].value
  BY <1>1, <1>3, <1>4, ValuesNext
<1>7. /\ Append(w, v) \in Seq(V) /\ Len(Append(w, v)) = Len(x)
      /\ Append(w, v)[l + 1] = v
      /\ \A i \in 1..l : Append(w, v)[i] = w[i]
  BY <1>1, <1>5, <1>6
<1>8. t[l + 1] = n /\ \A i \in 1..l : t[i] = s[i]
  BY <1>1 DEF Behind
<1> HIDE DEF w, x, t, V
<1>9. ASSUME NEW i \in 1..Len(x) PROVE x[i] = Append(w, v)[i]
  <2>1. CASE i = l + 1
    BY <1>1, <1>3, <1>6, <1>7, <1>8, <2>1
  <2>2. CASE i # l + 1
    <3>1. i \in 1..l
      BY <1>1, <1>6, <2>2
    <3>2. x[i] = node'[s[i]].value
      BY <1>6, <1>8, <3>1
    <3> QED
      BY <1>3, <1>5, <1>7, <3>1, <3>2
  <2> QED
    BY <2>1, <2>2
<1>10. x = Append(w, v)
  BY <1>6, <1>7, <1>9, SeqEqual
<1> QED
  BY <1>1, <1>4, <1>5, <1>6, <1>10 DEF D!Contract!PushBack, D!Contract!Becomes

LEMMA PopFrontValues ==
  ASSUME DequeIInv, D!PopFront
  PROVE  D!Contract!PopFront
<1> DEFINE V == Value \cup {None}
<1>1. PICK l \in Nat : l = num_nodes
  BY DEF DequeIInv
<1>2. PICK s : Chain(s, l)
  BY <1>1 DEF DequeIInv
<1> DEFINE t == Rest(s, l)
           w == Spelled(s, l)
           x == Spelled(t, l - 1)'
<1>3. /\ DequeIInv' /\ Chain(t, l - 1)' /\ l > 0
      /\ \A i \in 1..l : node'[s[i]].value = node[s[i]].value
  BY <1>2, <1>1, PopFrontChain
<1>4. num_nodes' = l - 1 /\ l - 1 \in Nat
  BY <1>1, <1>3 DEF D!PopFront
<1>5. D!Values = w /\ w \in Seq(V) /\ Len(w) = l /\ \A i \in 1..l : w[i] = node[s[i]].value
  BY <1>2, <1>1, ValuesAre
<1>6. D!Values' = x /\ x \in Seq(V) /\ Len(x) = l - 1 /\ \A i \in 1..l - 1 : x[i] = node'[t[i]].value
  BY <1>3, <1>4, ValuesNext
<1>7. w # <<>>
  BY <1>3, <1>5
<1>8. /\ Tail(w) \in Seq(V) /\ Len(Tail(w)) = Len(x)
      /\ \A i \in 1..l - 1 : Tail(w)[i] = w[i + 1]
  BY <1>1, <1>5, <1>6, <1>7
<1>9. \A i \in 1..l - 1 : i + 1 \in 1..l /\ t[i] = s[i + 1]
  BY <1>1 DEF Rest
<1> HIDE DEF w, x, t, V
<1>10. ASSUME NEW i \in 1..Len(x) PROVE x[i] = Tail(w)[i]
  <2>1. i \in 1..l - 1
    BY <1>6
  <2>2. x[i] = node[s[i + 1]].value
    BY <1>3, <1>6, <1>9, <2>1
  <2> QED
    BY <1>5, <1>8, <1>9, <2>1, <2>2
<1>11. x = Tail(w)
  BY <1>6, <1>8, <1>10, SeqEqual
<1> QED
  BY <1>1, <1>4, <1>5, <1>6, <1>7, <1>11 DEF D!Contract!PopFront, D!Contract!Becomes

LEMMA PopBackValues ==
  ASSUME DequeIInv, D!PopBack
  PROVE  D!Contract!PopBack
<1> DEFINE V == Value \cup {None}
<1>1. PICK l \in Nat : l = num_nodes
  BY DEF DequeIInv
<1>2. PICK s : Chain(s, l)
  BY <1>1 DEF DequeIInv
<1> DEFINE t == AllButLast(s, l)
           w == Spelled(s, l)
           x == Spelled(t, l - 1)'
<1>3. /\ DequeIInv' /\ Chain(t, l - 1)' /\ l > 0
      /\ \A i \in 1..l : node'[s[i]].value = node[s[i]].value
  BY <1>2, <1>1, PopBackChain
<1>4. num_nodes' = l - 1 /\ l - 1 \in Nat
  BY <1>1, <1>3 DEF D!PopBack
<1>5. D!Values = w /\ w \in Seq(V) /\ Len(w) = l /\ \A i \in 1..l : w[i] = node[s[i]].value
  BY <1>2, <1>1, ValuesAre
<1>6. D!Values' = x /\ x \in Seq(V) /\ Len(x) = l - 1 /\ \A i \in 1..l - 1 : x[i] = node'[t[i]].value
  BY <1>3, <1>4, ValuesNext
<1>7. w # <<>>
  BY <1>3, <1>5
<1>8. /\ D!Contract!Front(w) \in Seq(V) /\ Len(D!Contract!Front(w)) = Len(x)
      /\ \A i \in 1..l - 1 : D!Contract!Front(w)[i] = w[i]
  <2>1. D!Contract!Front(w) = SubSeq(w, 1, l - 1)
    BY <1>5 DEF D!Contract!Front
  <2>2. \A i \in 1..l - 1 : w[i] \in V
    BY <1>1, <1>5
  <2> HIDE DEF w, x, V
  <2>3. 1 \in Int /\ l - 1 \in Int
    BY <1>1
  <2> QED
    BY <1>4, <1>6, <2>1, <2>2, <2>3, SubSeqProperties
<1>9. \A i \in 1..l - 1 : i \in 1..l /\ t[i] = s[i]
  BY <1>1 DEF AllButLast
<1> HIDE DEF w, x, t, V
<1>10. ASSUME NEW i \in 1..Len(x) PROVE x[i] = D!Contract!Front(w)[i]
  <2>1. i \in 1..l - 1
    BY <1>6
  <2>2. x[i] = node[s[i]].value
    BY <1>3, <1>6, <1>9, <2>1
  <2> QED
    BY <1>5, <1>8, <1>9, <2>1, <2>2
<1>11. x = D!Contract!Front(w)
  BY <1>6, <1>8, <1>10, SeqEqual
<1> QED
  BY <1>1, <1>4, <1>5, <1>6, <1>7, <1>11 DEF D!Contract!PopBack, D!Contract!Becomes

\* With nothing allocated the value is the empty sequence.
LEMMA DequeInitValues == D!SdequeAssumption /\ D!Init => D!Contract!Init
<1> SUFFICES ASSUME D!SdequeAssumption, D!Init PROVE D!Contract!Init
  OBVIOUS
<1>1. DequeIInv /\ Chain(<<>>, 0) /\ num_nodes = 0
  BY DequeInit DEF D!Init
<1>2. D!Values = Spelled(<<>>, 0) /\ Spelled(<<>>, 0) \in Seq(Value \cup {None})
      /\ Len(Spelled(<<>>, 0)) = 0
  BY <1>1, ValuesAre
<1>3. Spelled(<<>>, 0) = <<>>
  BY <1>2, EmptySeq
<1> QED
  BY <1>1, <1>2, <1>3 DEF D!Contract!Init

LEMMA DequeContract ==
  DequeIInv /\ [D!Next]_dequeVars => [D!Contract!Next]_<<D!Values, num_nodes>>
<1> SUFFICES ASSUME DequeIInv, [D!Next]_dequeVars
             PROVE  [D!Contract!Next]_<<D!Values, num_nodes>>
  OBVIOUS
<1>1. CASE UNCHANGED dequeVars
  BY <1>1 DEF dequeVars, D!Values
<1>2. CASE \E n \in Address, v \in Value : D!PushFront(n, v)
  BY <1>2, PushFrontValues DEF D!Contract!Next
<1>3. CASE \E n \in Address, v \in Value : D!PushBack(n, v)
  BY <1>3, PushBackValues DEF D!Contract!Next
<1>4. CASE D!PopFront
  BY <1>4, PopFrontValues DEF D!Contract!Next
<1>5. CASE D!PopBack
  BY <1>5, PopBackValues DEF D!Contract!Next
<1> QED
  BY <1>1, <1>2, <1>3, <1>4, <1>5 DEF D!Next

-----------------------------------------------------------------------------
(* The system of the three.  What is proved of the timers where they stand  *)
(* alone is said of an instance of its own: its definitions are those of T. *)

LEMMA SameTakes ==
  /\ \A t : TP!Remove(t) <=> T!Remove(t)
  /\ TP!Pop <=> T!Pop
BY DEF TP!Remove, T!Remove, TP!Pop, T!Pop, TP!Take, T!Take, TP!Adjust, T!Adjust,
       TP!Parent, T!Parent, TP!InHeap, T!InHeap, TP!Shorter, T!Shorter, TP!Last, T!Last

LEMMA SameStarts ==
  \A t, e : (TP!Insert(t, e) <=> T!Insert(t, e)) /\ (TP!Modify(t, e) <=> T!Modify(t, e))
BY DEF TP!Insert, T!Insert, TP!Modify, T!Modify, TP!Adjust, T!Adjust,
       TP!Parent, T!Parent, TP!InHeap, T!InHeap

LEMMA SameLoops == (TP!UpHeap <=> T!UpHeap) /\ (TP!DownHeap <=> T!DownHeap)
<1>1. TP!UpHeap <=> T!UpHeap
  BY DEF TP!UpHeap, T!UpHeap, TP!Above, T!Above, TP!Parent, T!Parent,
         TP!Swap, T!Swap, TP!Settle, T!Settle
<1>2. TP!DownHeap <=> T!DownHeap
  BY DEF TP!DownHeap, T!DownHeap, TP!EarlierChild, T!EarlierChild,
         TP!Swap, T!Swap, TP!Settle, T!Settle
<1> QED
  BY <1>1, <1>2

LEMMA SameTimers == T!TimerAssumption /\ T!Spec => TP!TimerAssumption /\ TP!Spec
<1>1. T!TimerAssumption => TP!TimerAssumption
  BY DEF TP!TimerAssumption, T!TimerAssumption
<1>2. T!Init => TP!Init
  BY DEF TP!Init, T!Init
<1>3. [T!Next]_(T!vars) => [TP!Next]_(TP!vars)
  BY SameTakes, SameStarts, SameLoops DEF TP!Next, T!Next, TP!vars, T!vars
<1> QED
  BY <1>1, <1>2, <1>3, PTL DEF TP!Spec, T!Spec

LEMMA SameTimerContract == TP!Contract!Spec => T!Contract!Spec
<1>1. TP!due = T!due
  BY DEF TP!due, T!due, TP!InHeap, T!InHeap
<1>2. TP!Contract!Init => T!Contract!Init
  BY <1>1 DEF TP!Contract!Init, T!Contract!Init
<1>3. [TP!Contract!Next]_<<TP!due, out>> => [T!Contract!Next]_<<T!due, out>>
  BY DEF TP!due, T!due, TP!InHeap, T!InHeap, TP!Contract!Next, T!Contract!Next,
         TP!Contract!Insert, T!Contract!Insert, TP!Contract!Modify, T!Contract!Modify,
         TP!Contract!Remove, T!Contract!Remove, TP!Contract!Pop, T!Contract!Pop,
         TP!Contract!Keeps, T!Contract!Keeps, TP!Contract!Queued, T!Contract!Queued
<1> QED
  BY <1>2, <1>3, PTL DEF TP!Contract!Spec, T!Contract!Spec

LEMMA TimersRun == SystemSpec => T!TimerAssumption /\ T!Spec
<1>1. T!TimerAssumption
  BY QueuesAssumption DEF QueuesAssumption
<1>2. SystemInit => T!Init
  BY DEF SystemInit
<1>3. [SystemNext]_<<component, vars, timerVars, dequeVars>> => [T!Next]_(T!vars)
  BY DEF SystemNext, BufferStep, TimerStep, DequeStep, timerVars, T!vars
<1> QED
  BY <1>1, <1>2, <1>3, PTL DEF SystemSpec, T!Spec

LEMMA TimersSound ==
  SystemSpec => [](T!TypeOK /\ T!IndexSound /\ T!HeapOrder)
<1>1. SystemSpec => TP!TimerAssumption /\ TP!Spec
  BY TimersRun, SameTimers
<1>2. TP!IInv /\ TP!IndexSound /\ TP!HeapOrder => T!TypeOK /\ T!IndexSound /\ T!HeapOrder
  <2>1. TP!IInv => T!TypeOK
    BY DEF TP!IInv, TP!TypeOK, T!TypeOK
  <2>2. TP!IndexSound => T!IndexSound
    BY DEF TP!IndexSound, T!IndexSound, TP!InHeap, T!InHeap, TP!Settled, T!Settled
  <2>3. TP!HeapOrder => T!HeapOrder
    BY DEF TP!HeapOrder, T!HeapOrder, TP!Parent, T!Parent
  <2> QED
    BY <2>1, <2>2, <2>3
<1> QED
  BY <1>1, <1>2, TP!HeapInvariance, TP!IndexSoundHolds, TP!HeapOrderHolds, PTL

LEMMA DequeRuns == SystemSpec => []DequeIInv /\ D!KeepsContract
<1>1. SystemInit => DequeIInv /\ D!Contract!Init
  BY QueuesAssumption, DequeInit, DequeInitValues DEF QueuesAssumption, SystemInit
<1>2. [SystemNext]_<<component, vars, timerVars, dequeVars>> => [D!Next]_dequeVars
  BY DEF SystemNext, BufferStep, TimerStep, DequeStep
<1>3. DequeIInv /\ [D!Next]_dequeVars => DequeIInv'
  BY DequeNext, DequeStutter
<1> QED
  BY <1>1, <1>2, <1>3, DequeContract, PTL
     DEF SystemSpec, D!KeepsContract, D!Contract!Spec

\* Timers and slots of the heap agree and its order holds; no link of the
\* deque leads to a node that was freed, and what one end pops the other end
\* will not meet again: for any timers, expiry times, addresses and values.
THEOREM QueuesSoundHolds == SystemSpec => []QueuesSound
<1>1. DequeIInv => D!TypeOK /\ D!Linked
  BY DequeSound
<1> QED
  BY <1>1, TimersSound, DequeRuns, PTL DEF QueuesSound

\* The heap implements TimerQueue and the deque Deque: whichever ends are
\* pushed to and popped from and however addresses are used again, the values
\* are those of a sequence that grows and shrinks at both ends.
THEOREM KeepsContractsHolds == SystemSpec => KeepsContracts
<1>1. SystemSpec => T!KeepsContract
  BY TimersRun, SameTimers, TP!HeapKeepsContract, SameTimerContract
     DEF TP!KeepsContract, T!KeepsContract
<1> QED
  BY <1>1, DequeRuns DEF KeepsContracts
=============================================================================
