---------------------------- MODULE SioTimerProofs ----------------------------
(***************************************************************************)
(* The heap of SioTimer is sound, ordered and a TimerQueue for every set   *)
(* of timers and expiry times.  While a loop moves a timer the heap has a  *)
(* hole in its order at the timer's slot; the proofs about holes are about *)
(* the function of the expiry times by slot, apart from the timers.        *)
(***************************************************************************)
EXTENDS SioTimer, SequenceTheorems, NaturalsInduction, WellFoundedInduction, TLAPS

-----------------------------------------------------------------------------
(* Slots. *)

LEMMA ParentFacts ==
  /\ Parent(1) = 0
  /\ \A i \in Nat \ {0, 1} : Parent(i) \in Nat \ {0} /\ Parent(i) < i
  /\ \A i, k \in Nat : Parent(i) = k <=> i = 2 * k \/ i = 2 * k + 1
BY DEF Parent

-----------------------------------------------------------------------------
(* Orders with a hole.  v is what expires at which slot of a heap with n.  *)

Sorted(v, n) == \A i \in 2..n : v[Parent(i)] <= v[i]

\* Slots around k: its children follow its parent.
Bridged(v, n, k) ==
  k > 1 => \A i \in 2..n : Parent(i) = k => v[Parent(k)] <= v[i]

Hole(v, n, k) ==
  /\ \A i \in 2..n : i # k /\ Parent(i) # k => v[Parent(i)] <= v[i]
  /\ Bridged(v, n, k)

UpHole(v, n, k) ==
  /\ \A i \in 2..n : i # k => v[Parent(i)] <= v[i]
  /\ Bridged(v, n, k)

DownHole(v, n, k) ==
  /\ \A i \in 2..n : Parent(i) # k => v[Parent(i)] <= v[i]
  /\ Bridged(v, n, k)

Swapped(v, i, k) == [v EXCEPT ![i] = v[k], ![k] = v[i]]

LEMMA HoleSplits ==
  ASSUME NEW n \in Nat, NEW v \in [1..n -> Nat], NEW k \in 1..n, Hole(v, n, k)
  PROVE  /\ k > 1 /\ v[k] < v[Parent(k)] => UpHole(v, n, k)
         /\ ~(k > 1 /\ v[k] < v[Parent(k)]) => DownHole(v, n, k)
BY ParentFacts DEF Hole, UpHole, DownHole, Bridged

LEMMA UpSwap ==
  ASSUME NEW n \in Nat, NEW v \in [1..n -> Nat], NEW k \in 2..n,
         UpHole(v, n, k), v[k] < v[Parent(k)]
  PROVE  UpHole(Swapped(v, k, Parent(k)), n, Parent(k))
<1> DEFINE p == Parent(k)
           w == Swapped(v, k, p)
<1>1. p \in 1..n /\ p < k /\ \A i \in 2..n : Parent(i) \in 1..n /\ Parent(i) < i
  BY ParentFacts
<1>2. w[k] = v[p] /\ w[p] = v[k] /\ \A i \in 1..n : i # k /\ i # p => w[i] = v[i]
  BY <1>1 DEF Swapped
<1>3. \A i \in 2..n : i # k => v[Parent(i)] <= v[i]
  BY DEF UpHole
<1>4. \A i \in 2..n : Parent(i) = k => v[p] <= v[i]
  BY DEF UpHole, Bridged
<1> HIDE DEF w, p
<1>5. ASSUME NEW i \in 2..n, i # p PROVE w[Parent(i)] <= w[i]
  <2>1. CASE i = k
    BY <1>1, <1>2, <2>1 DEF p
  <2>2. CASE i # k /\ Parent(i) = k
    BY <1>1, <1>2, <1>4, <1>5, <2>2
  <2>3. CASE i # k /\ Parent(i) = p
    <3>1. v[p] <= v[i] /\ v[k] < v[p] /\ w[i] = v[i] /\ w[Parent(i)] = v[k]
      BY <1>1, <1>2, <1>3, <1>5, <2>3 DEF p
    <3>2. v[p] \in Nat /\ v[i] \in Nat /\ v[k] \in Nat
      BY <1>1
    <3> QED
      BY <3>1, <3>2
  <2>4. CASE i # k /\ Parent(i) # k /\ Parent(i) # p
    <3>1. w[i] = v[i]
      BY <1>2, <1>5, <2>4
    <3>2. Parent(i) \in 1..n
      BY <1>1
    <3>3. w[Parent(i)] = v[Parent(i)]
      BY <1>2, <2>4, <3>2
    <3> QED
      BY <1>3, <2>4, <3>1, <3>3
  <2> QED
    BY <2>1, <2>2, <2>3, <2>4
<1>6. ASSUME p > 1, NEW i \in 2..n, Parent(i) = p PROVE w[Parent(p)] <= w[i]
  <2>1. Parent(p) \in 1..n /\ Parent(p) < p /\ v[Parent(p)] <= v[p] /\ w[Parent(p)] = v[Parent(p)]
    BY <1>1, <1>2, <1>3, <1>6
  <2>2. i # p
    BY <1>1, <1>6
  <2>3. CASE i = k
    BY <1>2, <2>1, <2>3
  <2>4. CASE i # k
    <3>1. v[p] <= v[i] /\ w[i] = v[i]
      BY <1>2, <1>3, <1>6, <2>2, <2>4
    <3>2. v[p] \in Nat /\ v[i] \in Nat /\ v[Parent(p)] \in Nat
      BY <1>1, <2>1
    <3> QED
      BY <2>1, <3>1, <3>2
  <2> QED
    BY <2>3, <2>4
<1>7. UpHole(w, n, p)
  BY <1>5, <1>6 DEF UpHole, Bridged
<1> QED
  BY <1>7 DEF w, p

LEMMA UpDone ==
  ASSUME NEW n \in Nat, NEW v \in [1..n -> Nat], NEW k \in 1..n,
         UpHole(v, n, k), k > 1 => v[Parent(k)] <= v[k]
  PROVE  Sorted(v, n)
BY DEF UpHole, Sorted

LEMMA DownSwap ==
  ASSUME NEW n \in Nat, NEW v \in [1..n -> Nat], NEW k \in 1..n, NEW c \in 2..n,
         DownHole(v, n, k), Parent(c) = k, v[c] < v[k],
         \A i \in 2..n : Parent(i) = k => v[c] <= v[i]
  PROVE  DownHole(Swapped(v, k, c), n, c)
<1> DEFINE w == Swapped(v, k, c)
<1>1. k < c /\ \A i \in 2..n : Parent(i) \in 1..n /\ Parent(i) < i
  BY ParentFacts
<1>2. w[k] = v[c] /\ w[c] = v[k] /\ \A i \in 1..n : i # k /\ i # c => w[i] = v[i]
  BY <1>1 DEF Swapped
<1>3. \A i \in 2..n : Parent(i) # k => v[Parent(i)] <= v[i]
  BY DEF DownHole
<1>4. k > 1 => \A i \in 2..n : Parent(i) = k => v[Parent(k)] <= v[i]
  BY DEF DownHole, Bridged
<1> HIDE DEF w
<1>5. ASSUME NEW i \in 2..n, Parent(i) # c PROVE w[Parent(i)] <= w[i]
  <2>1. CASE i = k
    <3>1. v[Parent(k)] <= v[c] /\ Parent(k) # k /\ Parent(k) # c
      BY <1>1, <1>4, <2>1
    <3>2. Parent(k) \in 1..n /\ w[Parent(k)] = v[Parent(k)]
      BY <1>1, <1>2, <2>1, <3>1
    <3> QED
      BY <1>2, <2>1, <3>1, <3>2
  <2>2. CASE i = c
    BY <1>1, <1>2, <2>2
  <2>3. CASE i # k /\ i # c /\ Parent(i) = k
    BY <1>1, <1>2, <2>3
  <2>4. CASE i # k /\ i # c /\ Parent(i) # k
    <3>1. Parent(i) \in 1..n
      BY <1>1
    <3>2. w[Parent(i)] = v[Parent(i)]
      BY <1>2, <1>5, <2>4, <3>1
    <3>3. w[i] = v[i]
      BY <1>2, <2>4
    <3> QED
      BY <1>3, <2>4, <3>2, <3>3
  <2> QED
    BY <2>1, <2>2, <2>3, <2>4
<1>6. ASSUME NEW i \in 2..n, Parent(i) = c PROVE w[Parent(c)] <= w[i]
  <2>1. i # k /\ i # c /\ Parent(i) # k
    BY <1>1, <1>6
  <2>2. w[Parent(c)] = v[c] /\ w[i] = v[i]
    BY <1>2, <2>1
  <2>3. v[Parent(i)] <= v[i]
    BY <1>3, <2>1
  <2> QED
    BY <1>6, <2>2, <2>3
<1>7. DownHole(w, n, c)
  BY <1>5, <1>6 DEF DownHole, Bridged
<1> QED
  BY <1>7 DEF w

LEMMA DownDone ==
  ASSUME NEW n \in Nat, NEW v \in [1..n -> Nat], NEW k \in 1..n,
         DownHole(v, n, k), \A i \in 2..n : Parent(i) = k => v[k] <= v[i]
  PROVE  Sorted(v, n)
BY DEF DownHole, Sorted

\* A sorted heap of which slot k is filled anew, the slot after its last
\* included, or of which last slots are left out.
LEMMA Refilled ==
  ASSUME NEW n \in Nat, NEW v \in [1..n -> Nat], Sorted(v, n),
         NEW m \in Nat, NEW w \in [1..m -> Nat], NEW k \in 1..m,
         \A i \in 1..m : i # k => i <= n /\ w[i] = v[i]
  PROVE  Hole(w, m, k)
<1>1. \A i \in 2..m : Parent(i) \in 1..m /\ Parent(i) < i
  BY ParentFacts
<1>2. ASSUME NEW i \in 2..m, i # k, Parent(i) # k PROVE w[Parent(i)] <= w[i]
  <2>1. Parent(i) \in 1..m /\ i \in 1..m
    BY <1>1
  <2>2. w[Parent(i)] = v[Parent(i)] /\ w[i] = v[i] /\ i <= n
    BY <1>2, <2>1
  <2>3. i \in 2..n
    BY <2>2
  <2> QED
    BY <2>2, <2>3 DEF Sorted
<1>3. ASSUME k > 1, NEW i \in 2..m, Parent(i) = k PROVE w[Parent(k)] <= w[i]
  <2>1. k < i /\ i <= n /\ k \in 2..n /\ i \in 2..n /\ Parent(k) \in 1..m /\ Parent(k) # k
    BY <1>1, <1>3
  <2>2. v[Parent(k)] <= v[k] /\ v[k] <= v[i] /\ w[Parent(k)] = v[Parent(k)] /\ w[i] = v[i]
    <3>1. v[Parent(k)] <= v[k] /\ v[Parent(i)] <= v[i]
      BY <2>1 DEF Sorted
    <3>2. w[Parent(k)] = v[Parent(k)]
      BY <2>1
    <3>3. i \in 1..m /\ i # k
      BY <2>1
    <3> QED
      BY <1>3, <3>1, <3>2, <3>3
  <2>3. v[Parent(k)] \in Nat /\ v[k] \in Nat /\ v[i] \in Nat
    BY <2>1
  <2> QED
    BY <2>2, <2>3
<1> QED
  BY <1>2, <1>3 DEF Hole, Bridged

\* Nothing expires before the top.
LEMMA TopIsLeast ==
  ASSUME NEW n \in Nat, NEW v \in [1..n -> Nat], Sorted(v, n), NEW i \in 1..n
  PROVE  v[1] <= v[i]
<1> DEFINE S == {j \in 1..n : v[j] < v[1]}
<1>1. SUFFICES ASSUME S # {} PROVE FALSE
  BY <1>1
<1>2. S \subseteq Nat
  OBVIOUS
<1>3. PICK x \in S : \A y \in S : ~(<<y, x>> \in OpToRel(<, Nat))
  BY <1>1, <1>2, NatLessThanWellFounded, WFMin
<1>4. \A y \in S : ~(y < x)
  BY <1>2, <1>3 DEF OpToRel
<1>5. x \in 2..n /\ v[x] < v[1]
  <2>1. x \in 1..n /\ v[x] < v[1] /\ v[1] \in Nat
    OBVIOUS
  <2>2. x # 1
    BY <2>1
  <2> QED
    BY <2>1, <2>2
<1>6. Parent(x) \in 1..n /\ Parent(x) < x /\ v[Parent(x)] <= v[x]
  BY <1>5, ParentFacts DEF Sorted
<1>7. v[Parent(x)] \in Nat /\ v[x] \in Nat /\ v[1] \in Nat
  BY <1>5, <1>6
<1>8. Parent(x) \in S
  BY <1>5, <1>6, <1>7
<1> QED
  BY <1>4, <1>6, <1>8

-----------------------------------------------------------------------------
(* The inductive invariant. *)

\* Timers and slots agree.
Sound(n, x) ==
  /\ \A t \in Timer : x[t] # 0 => x[t] <= Len(n) /\ n[x[t]] = t
  /\ \A i \in 1..Len(n) : x[n[i]] = i

\* What expires at which slot.
At(n, e) == [i \in 1..Len(n) |-> e[n[i]]]

\* What a loop knows of the timer it moves and of the order around it.
Order ==
  /\ sift = "none" => cur = None /\ Sorted(At(nodes, expire), Len(nodes))
  /\ sift # "none" => cur \in Timer /\ InHeap(cur)
  /\ sift = "up" => UpHole(At(Settled, expire), Len(nodes), index[cur])
  /\ sift = "down" => DownHole(At(Settled, expire), Len(nodes), index[cur])

IInv ==
  /\ TimerAssumption
  /\ TypeOK
  /\ Sound(Settled, index)
  /\ Order

LEMMA AtType ==
  ASSUME NEW n \in Seq(Timer), NEW e \in [Timer -> Nat]
  PROVE  At(n, e) \in [1..Len(n) -> Nat]
BY DEF At

LEMMA AtSlot ==
  ASSUME NEW n \in Seq(Timer), NEW e \in [Timer -> Nat], NEW i \in 1..Len(n)
  PROVE  n[i] \in Timer /\ At(n, e)[i] = e[n[i]]
BY DEF At

\* The timer that is moved, its slot, and the heap with it in its slot.
LEMMA Moving ==
  ASSUME IInv, sift # "none"
  PROVE  /\ cur \in Timer /\ index[cur] \in 1..Len(nodes)
         /\ Settled = [nodes EXCEPT ![index[cur]] = cur]
         /\ Settled \in Seq(Timer) /\ Len(Settled) = Len(nodes)
         /\ Settled[index[cur]] = cur
         /\ \A i \in 1..Len(nodes) : i # index[cur] => Settled[i] = nodes[i]
<1>1. cur \in Timer /\ index[cur] \in 1..Len(nodes) /\ nodes \in Seq(Timer)
  BY DEF IInv, Order, InHeap, TypeOK
<1>2. Settled = [nodes EXCEPT ![index[cur]] = cur]
  BY <1>1 DEF IInv, TimerAssumption, Settled
<1>3. Settled \in Seq(Timer) /\ Len(Settled) = Len(nodes)
  BY <1>1, <1>2, ExceptSeq
<1> QED
  BY <1>1, <1>2, <1>3

LEMMA Resting ==
  ASSUME IInv, sift = "none"
  PROVE  /\ cur = None /\ Settled = nodes /\ nodes \in Seq(Timer)
         /\ Sound(nodes, index) /\ Sorted(At(nodes, expire), Len(nodes))
BY DEF IInv, Order, Settled, TypeOK

-----------------------------------------------------------------------------
(* The operations. *)

\* An operation that leaves t in its slot begins a loop with one hole at it.
LEMMA AdjustSound ==
  ASSUME IInv, NEW t \in Timer,
         NEW n \in Seq(Timer), NEW x \in [Timer -> 0..Len(n)],
         NEW e \in [Timer -> Nat],
         Sound(n, x), x[t] # 0, Hole(At(n, e), Len(n), x[t]),
         Adjust(t, n, x, e), out' \in Timer \cup {None}
  PROVE  IInv'
<1> DEFINE v == At(n, e)
           k == x[t]
<1>1. k \in 1..Len(n) /\ n[k] = t /\ t # None
  BY DEF Sound, IInv, TimerAssumption
<1>2. v \in [1..Len(n) -> Nat]
  BY AtType
<1>3. nodes' = n /\ index' = x /\ expire' = e /\ cur' = t /\ sift' \in {"up", "down"}
  BY DEF Adjust
<1>4. [n EXCEPT ![k] = t] = n
  BY <1>1
<1>5. Settled' = n
  BY <1>1, <1>3, <1>4 DEF Settled
<1>6. v[k] = e[t] /\ (k > 1 => Parent(k) \in 1..Len(n) /\ v[Parent(k)] = e[n[Parent(k)]])
  BY <1>1, ParentFacts DEF At
<1>7. k > 1 <=> Parent(k) # 0
  BY <1>1, ParentFacts
<1>8. sift' = IF k > 1 /\ v[k] < v[Parent(k)] THEN "up" ELSE "down"
  BY <1>6, <1>7 DEF Adjust
<1>9. /\ sift' = "up" => UpHole(v, Len(n), k)
      /\ sift' = "down" => DownHole(v, Len(n), k)
  <2>1. Len(n) \in Nat /\ Hole(v, Len(n), k)
    OBVIOUS
  <2> HIDE DEF v, k
  <2>2. /\ k > 1 /\ v[k] < v[Parent(k)] => UpHole(v, Len(n), k)
        /\ ~(k > 1 /\ v[k] < v[Parent(k)]) => DownHole(v, Len(n), k)
    BY <1>1, <1>2, <2>1, HoleSplits
  <2> QED
    BY <1>8, <2>2
<1>10. Order'
  BY <1>1, <1>3, <1>5, <1>9 DEF Order, InHeap
<1>11. TypeOK'
  BY <1>3 DEF TypeOK
<1>12. TimerAssumption' /\ Sound(Settled, index)'
  BY <1>3, <1>5 DEF IInv, TimerAssumption, Sound
<1> QED
  BY <1>10, <1>11, <1>12 DEF IInv

LEMMA InsertSound ==
  ASSUME IInv, NEW t \in Timer, NEW e \in Expiry, Insert(t, e)
  PROVE  IInv'
<1> DEFINE n == Append(nodes, t)
           x == [index EXCEPT ![t] = Len(nodes) + 1]
           f == [expire EXCEPT ![t] = e]
<1>1. sift = "none" /\ index[t] = 0 /\ e \in Nat
  BY DEF Insert, InHeap, IInv, TimerAssumption
<1>2. /\ nodes \in Seq(Timer) /\ index \in [Timer -> 0..Len(nodes)]
      /\ expire \in [Timer -> Nat] /\ Len(nodes) \in Nat
      /\ Sound(nodes, index) /\ Sorted(At(nodes, expire), Len(nodes))
  BY <1>1, Resting DEF IInv, TypeOK
<1>3. /\ n \in Seq(Timer) /\ Len(n) = Len(nodes) + 1 /\ n[Len(n)] = t
      /\ \A i \in 1..Len(nodes) : n[i] = nodes[i]
  BY <1>2
<1>4. x \in [Timer -> 0..Len(n)] /\ f \in [Timer -> Nat] /\ x[t] = Len(n)
  BY <1>1, <1>2, <1>3
<1>5. \A i \in 1..Len(nodes) : nodes[i] \in Timer /\ nodes[i] # t
  BY <1>1, <1>2 DEF Sound
<1>6. Sound(n, x)
  <2>1. ASSUME NEW s \in Timer, x[s] # 0 PROVE x[s] <= Len(n) /\ n[x[s]] = s
    BY <1>2, <1>3, <1>4, <2>1 DEF Sound
  <2>2. ASSUME NEW i \in 1..Len(n) PROVE x[n[i]] = i
    BY <1>2, <1>3, <1>4, <1>5 DEF Sound
  <2> QED
    BY <2>1, <2>2 DEF Sound
<1>7. \A i \in 1..Len(n) : i # Len(n) => i <= Len(nodes) /\ At(n, f)[i] = At(nodes, expire)[i]
  BY <1>2, <1>3, <1>4, <1>5 DEF At
<1>8. Hole(At(n, f), Len(n), x[t])
  <2>1. At(n, f) \in [1..Len(n) -> Nat] /\ At(nodes, expire) \in [1..Len(nodes) -> Nat]
    BY <1>2, <1>3, <1>4, AtType
  <2>2. Len(n) \in Nat /\ x[t] \in 1..Len(n)
    BY <1>2, <1>3, <1>4
  <2> QED
    BY <1>2, <1>4, <1>7, <2>1, <2>2, Refilled
<1>9. Adjust(t, n, x, f) /\ out' \in Timer \cup {None}
  BY DEF Insert
<1> HIDE DEF n, x, f
<1>10. x[t] # 0
  BY <1>2, <1>3, <1>4
<1> QED
  BY <1>3, <1>4, <1>6, <1>8, <1>9, <1>10, AdjustSound

LEMMA ModifySound ==
  ASSUME IInv, NEW t \in Timer, NEW e \in Expiry, Modify(t, e)
  PROVE  IInv'
<1> DEFINE f == [expire EXCEPT ![t] = e]
           k == index[t]
<1>1. sift = "none" /\ k # 0 /\ e \in Nat
  BY DEF Modify, InHeap, IInv, TimerAssumption
<1>2. /\ nodes \in Seq(Timer) /\ index \in [Timer -> 0..Len(nodes)]
      /\ expire \in [Timer -> Nat] /\ Len(nodes) \in Nat
      /\ Sound(nodes, index) /\ Sorted(At(nodes, expire), Len(nodes))
  BY <1>1, Resting DEF IInv, TypeOK
<1>3. f \in [Timer -> Nat] /\ k \in 1..Len(nodes)
  BY <1>1, <1>2
<1>4. \A i \in 1..Len(nodes) : i # k => At(nodes, f)[i] = At(nodes, expire)[i]
  <2>1. \A i \in 1..Len(nodes) : i # k => nodes[i] \in Timer /\ nodes[i] # t
    BY <1>2 DEF Sound
  <2> QED
    BY <1>2, <2>1 DEF At
<1>5. Hole(At(nodes, f), Len(nodes), k)
  <2> DEFINE v == At(nodes, expire)
             w == At(nodes, f)
             len == Len(nodes)
  <2>1. w \in [1..len -> Nat] /\ v \in [1..len -> Nat]
    BY <1>2, <1>3, AtType
  <2>2. len \in Nat /\ Sorted(v, len) /\ k \in 1..len
    BY <1>2, <1>3
  <2>3. \A i \in 1..len : i # k => i <= len /\ w[i] = v[i]
    <3>1. \A i \in 1..len : i # k => w[i] = v[i]
      BY <1>4
    <3> HIDE DEF v, w
    <3> QED
      BY <2>2, <3>1
  <2> HIDE DEF k, v, w, len
  <2>4. Hole(w, len, k)
    BY <2>1, <2>2, <2>3, Refilled
  <2> QED
    BY <2>4 DEF w, len
<1>6. Adjust(t, nodes, index, f) /\ out' \in Timer \cup {None}
  BY DEF Modify, IInv, TypeOK
<1> HIDE DEF f
<1> QED
  BY <1>1, <1>2, <1>3, <1>5, <1>6, AdjustSound

LEMMA TakeSound ==
  ASSUME IInv, sift = "none", NEW t \in Timer, InHeap(t), Take(t),
         out' \in Timer \cup {None}
  PROVE  IInv'
<1> DEFINE k == index[t]
           m == Len(nodes) - 1
           f == [expire EXCEPT ![t] = 0]
<1>1. /\ nodes \in Seq(Timer) /\ index \in [Timer -> 0..Len(nodes)]
      /\ expire \in [Timer -> Nat] /\ Len(nodes) \in Nat
      /\ Sound(nodes, index) /\ Sorted(At(nodes, expire), Len(nodes))
      /\ cur = None
  BY Resting DEF IInv, TypeOK
<1>2. k \in 1..Len(nodes) /\ nodes[k] = t /\ m \in Nat
  BY <1>1 DEF InHeap, Sound
<1>3. /\ Shorter \in Seq(Timer) /\ Len(Shorter) = m
      /\ \A i \in 1..m : Shorter[i] = nodes[i]
  <2>1. m \in Int /\ m \in Nat /\ m - 1 + 1 = m /\ \A i \in 1..m : nodes[i] \in Timer
    BY <1>1, <1>2
  <2> HIDE DEF m
  <2>2. /\ SubSeq(nodes, 1, m) \in Seq(Timer)
        /\ Len(SubSeq(nodes, 1, m)) = IF 1 <= m THEN m - 1 + 1 ELSE 0
        /\ \A i \in 1..m - 1 + 1 : SubSeq(nodes, 1, m)[i] = nodes[1 + i - 1]
    BY <2>1, SubSeqProperties
  <2>3. \A i \in 1..m : 1 + i - 1 = i
    BY <2>1
  <2>4. /\ SubSeq(nodes, 1, m) \in Seq(Timer) /\ Len(SubSeq(nodes, 1, m)) = m
        /\ \A i \in 1..m : SubSeq(nodes, 1, m)[i] = nodes[i]
    BY <2>1, <2>2, <2>3
  <2> QED
    BY <2>4 DEF Shorter, m
<1>4. f \in [Timer -> Nat]
  BY <1>1
<1>5. \A i \in 1..Len(nodes) : nodes[i] \in Timer /\ (i # k => nodes[i] # t)
  BY <1>1, <1>2 DEF Sound
<1> HIDE DEF k, m, f
<1>6. CASE k = Len(nodes)
  <2> DEFINE x == [index EXCEPT ![t] = 0]
  <2>1. /\ nodes' = Shorter /\ index' = x /\ expire' = f
        /\ sift' = "none" /\ cur' = None
    BY <1>1, <1>6 DEF Take, Adjust, k, f
  <2>2. x \in [Timer -> 0..m]
    <3>1. ASSUME NEW s \in Timer, s # t PROVE index[s] \in 0..m
      <4>1. index[s] # Len(nodes)
        BY <1>1, <1>2, <1>6, <3>1 DEF Sound
      <4> QED
        BY <1>1, <4>1 DEF m
    <3>2. 0 \in 0..m
      BY <1>2
    <3> QED
      BY <1>1, <3>1, <3>2
  <2>3. Sound(Shorter, x)
    <3>1. ASSUME NEW s \in Timer, x[s] # 0 PROVE x[s] <= Len(Shorter) /\ Shorter[x[s]] = s
      <4>1. s # t /\ x[s] = index[s] /\ x[s] \in 1..m
        BY <1>1, <1>2, <2>2, <3>1
      <4>2. index[s] # 0 /\ nodes[index[s]] = s
        BY <1>1, <3>1, <4>1 DEF Sound
      <4>3. x[s] <= m /\ Shorter[x[s]] = s
        BY <1>2, <1>3, <4>1, <4>2
      <4> QED
        BY <1>3, <4>3
    <3>2. ASSUME NEW i \in 1..Len(Shorter) PROVE x[Shorter[i]] = i
      <4>0. i \in 1..m /\ Shorter[i] = nodes[i]
        BY <1>3
      <4>1. i \in 1..Len(nodes) /\ i # k /\ Shorter[i] = nodes[i]
        BY <1>1, <1>6, <4>0 DEF m
      <4> QED
        BY <1>1, <1>5, <4>1 DEF Sound
    <3> QED
      BY <3>1, <3>2 DEF Sound
  <2>4. Sorted(At(Shorter, f), m)
    <3>1. \A i \in 1..m : /\ i \in 1..Len(nodes) /\ i # k
                          /\ At(Shorter, f)[i] = At(nodes, expire)[i]
      <4>1. ASSUME NEW i \in 1..m PROVE i \in 1..Len(nodes) /\ i # k
        BY <1>1, <1>6 DEF m
      <4>2. ASSUME NEW i \in 1..m PROVE f[Shorter[i]] = expire[nodes[i]]
        BY <1>1, <1>3, <1>5, <4>1 DEF f
      <4> QED
        BY <1>3, <4>1, <4>2 DEF At
    <3>2. \A i \in 2..m : Parent(i) \in 1..m /\ i \in 2..Len(nodes)
      <4>1. ASSUME NEW i \in 2..m PROVE Parent(i) \in 1..m
        <5>1. i \in Nat \ {0, 1} /\ i <= m
          OBVIOUS
        <5> QED
          BY <1>2, <5>1, ParentFacts
      <4>2. ASSUME NEW i \in 2..m PROVE i \in 2..Len(nodes)
        BY <1>1 DEF m
      <4> QED
        BY <4>1, <4>2
    <3> DEFINE v == At(nodes, expire)
               w == At(Shorter, f)
               len == Len(nodes)
    <3>3. /\ \A i \in 1..m : w[i] = v[i]
          /\ \A i \in 2..m : Parent(i) \in 1..m /\ i \in 2..len /\ i \in 1..m
          /\ Sorted(v, len)
      BY <1>1, <3>1, <3>2
    <3> HIDE DEF v, w, len
    <3>4. Sorted(w, m)
      BY <3>3 DEF Sorted
    <3> QED
      BY <3>4 DEF w
  <2>5. Settled' = Shorter
    BY <2>1 DEF Settled
  <2>6. TypeOK'
    BY <1>3, <1>4, <2>1, <2>2 DEF TypeOK
  <2>7. Order' /\ Sound(Settled, index)' /\ TimerAssumption'
    BY <1>3, <2>1, <2>3, <2>4, <2>5 DEF Order, Sound, IInv, TimerAssumption
  <2> QED
    BY <2>6, <2>7 DEF IInv
<1>7. CASE k < Len(nodes)
  <2> DEFINE n == [Shorter EXCEPT ![k] = Last]
             x == [index EXCEPT ![Last] = k, ![t] = 0]
  <2>1. Adjust(Last, n, x, f)
    BY <1>1, <1>2, <1>7 DEF Take, k, f
  <2>2. Last \in Timer /\ Last # t /\ index[Last] = Len(nodes) /\ k \in 1..m
    BY <1>1, <1>2, <1>5, <1>7 DEF Last, Sound, m
  <2>3. /\ n \in Seq(Timer) /\ Len(n) = m /\ n[k] = Last
        /\ \A i \in 1..m : i # k => n[i] = nodes[i] /\ nodes[i] # Last /\ nodes[i] # t
    <3>1. n \in Seq(Timer) /\ Len(n) = m
      BY <1>3, <2>2, ExceptSeq
    <3>2. \A i \in 1..m : i \in 1..Len(nodes) /\ i # Len(nodes)
      BY <1>1 DEF m
    <3> QED
      BY <1>1, <1>3, <1>5, <2>2, <3>1, <3>2 DEF Sound
  <2>4. /\ x \in [Timer -> 0..m] /\ x[Last] = k /\ x[t] = 0
        /\ \A s \in Timer : s # Last /\ s # t => x[s] = index[s] /\ index[s] \in 0..m
    <3>1. ASSUME NEW s \in Timer, s # Last PROVE index[s] \in 0..m
      <4>1. index[s] # Len(nodes)
        <5>1. Len(nodes) # 0
          BY <1>2
        <5>2. index[s] # 0 => nodes[index[s]] = s
          BY <1>1, <3>1 DEF Sound
        <5> QED
          BY <3>1, <5>1, <5>2 DEF Last
      <4> QED
        BY <1>1, <4>1 DEF m
    <3>2. 0 \in 0..m /\ k \in 0..m
      BY <1>2, <2>2
    <3> QED
      BY <1>1, <2>2, <3>1, <3>2
  <2>5. Sound(n, x)
    <3>1. ASSUME NEW s \in Timer, x[s] # 0 PROVE x[s] <= Len(n) /\ n[x[s]] = s
      <4>1. CASE s = Last
        BY <1>2, <2>2, <2>3, <2>4, <4>1
      <4>2. CASE s # Last
        <5>1. x[s] = index[s] /\ s # t /\ index[s] \in 1..m
          BY <1>2, <2>4, <3>1, <4>2
        <5>2. index[s] # k
          BY <1>1, <1>2, <5>1 DEF Sound
        <5>3. nodes[index[s]] = s /\ n[index[s]] = nodes[index[s]]
          <6>1. index[s] # 0 => nodes[index[s]] = s
            BY <1>1 DEF Sound
          <6>2. index[s] # 0
            BY <3>1, <5>1
          <6>3. n[index[s]] = nodes[index[s]]
            BY <2>3, <5>1, <5>2
          <6> QED
            BY <6>1, <6>2, <6>3
        <5> QED
          BY <1>2, <2>3, <5>1, <5>3
      <4> QED
        BY <4>1, <4>2
    <3>2. ASSUME NEW i \in 1..Len(n) PROVE x[n[i]] = i
      <4>1. CASE i = k
        BY <2>3, <2>4, <4>1
      <4>2. CASE i # k
        <5>0. i \in 1..m
          BY <2>3
        <5>1. i \in 1..m /\ i \in 1..Len(nodes)
          BY <1>1, <5>0 DEF m
        <5>2. n[i] = nodes[i] /\ nodes[i] \in Timer /\ nodes[i] # Last /\ nodes[i] # t
          BY <1>5, <2>3, <4>2, <5>1
        <5> QED
          BY <1>1, <2>4, <5>1, <5>2 DEF Sound
      <4> QED
        BY <4>1, <4>2
    <3> QED
      BY <3>1, <3>2 DEF Sound
  <2>6. \A i \in 1..m : i # k => i <= Len(nodes) /\ At(n, f)[i] = At(nodes, expire)[i]
    <3>1. \A i \in 1..m : i \in 1..Len(nodes)
      BY <1>1 DEF m
    <3>2. ASSUME NEW i \in 1..m, i # k PROVE f[n[i]] = expire[nodes[i]]
      BY <1>1, <1>5, <2>3, <3>1, <3>2 DEF f
    <3>3. \A i \in 1..m : At(n, f)[i] = f[n[i]]
      BY <2>3 DEF At
    <3>4. \A i \in 1..m : At(nodes, expire)[i] = expire[nodes[i]]
      BY <3>1 DEF At
    <3>5. \A i \in 1..m : i <= Len(nodes)
      BY <1>1, <3>1
    <3> HIDE DEF n, x
    <3> QED
      BY <3>2, <3>3, <3>4, <3>5
  <2>7. Hole(At(n, f), Len(n), x[Last])
    <3> DEFINE v == At(nodes, expire)
               w == At(n, f)
               len == Len(nodes)
    <3>1. w \in [1..m -> Nat] /\ v \in [1..len -> Nat]
      BY <1>1, <1>4, <2>3, AtType
    <3>2. len \in Nat /\ Sorted(v, len) /\ k \in 1..m /\ m \in Nat
      BY <1>1, <1>2, <2>2
    <3>3. \A i \in 1..m : i # k => i <= len /\ w[i] = v[i]
      BY <2>6
    <3> HIDE DEF v, w, len, n, x
    <3>4. Hole(w, m, k)
      BY <3>1, <3>2, <3>3, Refilled
    <3> QED
      BY <2>3, <2>4, <3>4 DEF w
  <2> HIDE DEF n, x
  <2>8. x[Last] # 0
    BY <2>2, <2>4
  <2> QED
    BY <1>4, <2>1, <2>2, <2>3, <2>4, <2>5, <2>7, <2>8, AdjustSound
<1> QED
  BY <1>1, <1>2, <1>6, <1>7

-----------------------------------------------------------------------------
(* The loops. *)

\* The timer in slot i and the one that is moved change places.
LEMMA SwapSound ==
  ASSUME IInv, sift # "none", NEW i \in 1..Len(nodes), i # index[cur], Swap(i),
         NEW v, v = At(Settled, expire), NEW w, w = Swapped(v, index[cur], i),
         sift = "up" => UpHole(w, Len(nodes), i),
         sift = "down" => DownHole(w, Len(nodes), i)
  PROVE  IInv'
<1> DEFINE k == index[cur]
           s == nodes[i]
           x == [index EXCEPT ![s] = k, ![cur] = i]
           h == [Settled EXCEPT ![k] = s, ![i] = cur]
           len == Len(nodes)
<1>1. /\ cur \in Timer /\ k \in 1..len /\ Settled = [nodes EXCEPT ![k] = cur]
      /\ Settled \in Seq(Timer) /\ Len(Settled) = len /\ Settled[k] = cur
      /\ \A j \in 1..len : j # k => Settled[j] = nodes[j]
  BY Moving
<1>2. /\ nodes \in Seq(Timer) /\ index \in [Timer -> 0..len]
      /\ expire \in [Timer -> Nat] /\ len \in Nat /\ Sound(Settled, index)
      /\ sift \in {"up", "down"} /\ out \in Timer \cup {None} /\ cur # None
  <2>1. TypeOK /\ Sound(Settled, index) /\ None \notin Timer
    BY DEF IInv, TimerAssumption
  <2>2. cur # None
    BY <1>1, <2>1
  <2> QED
    BY <2>1, <2>2 DEF TypeOK
<1>3. s \in Timer /\ s = Settled[i] /\ index[s] = i /\ s # cur
  BY <1>1, <1>2 DEF Sound
<1>4. /\ nodes' = [nodes EXCEPT ![k] = s] /\ index' = x
      /\ expire' = expire /\ sift' = sift /\ cur' = cur /\ out' = out
  BY DEF Swap
<1>5. /\ nodes' \in Seq(Timer) /\ Len(nodes') = len
      /\ x \in [Timer -> 0..len] /\ x[cur] = i /\ x[s] = k
      /\ \A t \in Timer : t # cur /\ t # s => x[t] = index[t]
  <2>1. nodes' \in Seq(Timer) /\ Len(nodes') = len
    BY <1>1, <1>2, <1>3, <1>4, ExceptSeq
  <2>2. k \in 0..len /\ i \in 0..len
    BY <1>1, <1>2
  <2> QED
    BY <1>1, <1>2, <1>3, <2>1, <2>2
<1>6. /\ h \in Seq(Timer) /\ Len(h) = len /\ h[k] = s /\ h[i] = cur
      /\ \A j \in 1..len : j # k /\ j # i => h[j] = Settled[j]
  <2> DEFINE g == [Settled EXCEPT ![k] = s]
  <2>1. g \in Seq(Timer) /\ Len(g) = len
    BY <1>1, <1>3, ExceptSeq
  <2>2. h = [g EXCEPT ![i] = cur]
    OBVIOUS
  <2> HIDE DEF g, h
  <2>3. h \in Seq(Timer) /\ Len(h) = len
    BY <1>1, <2>1, <2>2, ExceptSeq
  <2> QED
    BY <1>1, <1>2, <2>3 DEF h
<1>7. Settled' = h
  <2>1. Settled' = [nodes' EXCEPT ![i] = cur]
    BY <1>2, <1>4, <1>5 DEF Settled
  <2>2. /\ Settled' \in Seq(Timer) /\ Len(Settled') = len /\ Settled'[i] = cur
        /\ \A j \in 1..len : j # i => Settled'[j] = nodes'[j]
    BY <1>1, <1>5, <2>1, ExceptSeq
  <2>3. nodes'[k] = s /\ \A j \in 1..len : j # k => nodes'[j] = nodes[j]
    BY <1>1, <1>2, <1>4
  <2>4. \A j \in 1..len : Settled'[j] = h[j]
    BY <1>1, <1>6, <2>2, <2>3
  <2> HIDE DEF h
  <2> QED
    BY <1>6, <2>2, <2>4, SeqEqual
<1> HIDE DEF h, x
<1>8. Sound(h, x)
  <2>1. ASSUME NEW t \in Timer, x[t] # 0 PROVE x[t] <= Len(h) /\ h[x[t]] = t
    <3>1. CASE t = cur
      BY <1>2, <1>5, <1>6, <3>1
    <3>2. CASE t = s
      BY <1>1, <1>2, <1>5, <1>6, <3>2
    <3>3. CASE t # cur /\ t # s
      <4>1. x[t] = index[t] /\ Settled[index[t]] = t /\ index[t] \in 1..len
        <5>1. x[t] = index[t] /\ index[t] # 0
          BY <1>5, <2>1, <3>3
        <5>2. Settled[index[t]] = t
          BY <1>2, <5>1 DEF Sound
        <5>3. index[t] \in 0..len
          BY <1>2
        <5> QED
          BY <1>2, <5>1, <5>2, <5>3
      <4>2. index[t] # k /\ index[t] # i
        BY <1>1, <1>3, <3>3, <4>1
      <4>3. index[t] <= len
        BY <1>2, <4>1
      <4>4. h[index[t]] = Settled[index[t]]
        BY <1>6, <4>1, <4>2
      <4> QED
        BY <1>6, <4>1, <4>3, <4>4
    <3> QED
      BY <3>1, <3>2, <3>3
  <2>2. ASSUME NEW j \in 1..Len(h) PROVE x[h[j]] = j
    <3>1. CASE j = k
      BY <1>5, <1>6, <3>1
    <3>2. CASE j = i
      BY <1>5, <1>6, <3>2
    <3>3. CASE j # k /\ j # i
      <4>0. j \in 1..len
        BY <1>6
      <4>1. h[j] = Settled[j] /\ Settled[j] \in Timer /\ index[Settled[j]] = j
        <5>1. h[j] = Settled[j] /\ Settled[j] \in Timer
          BY <1>1, <1>6, <3>3, <4>0
        <5>2. index[Settled[j]] = j
          BY <1>1, <1>2, <4>0 DEF Sound
        <5> QED
          BY <5>1, <5>2
      <4>2. Settled[j] # cur /\ Settled[j] # s
        BY <1>3, <3>3, <4>1
      <4> QED
        BY <1>5, <4>1, <4>2
    <3> QED
      BY <3>1, <3>2, <3>3
  <2> QED
    BY <2>1, <2>2 DEF Sound
<1>9. At(h, expire) = w
  <2>1. v \in [1..len -> Nat] /\ \A j \in 1..len : v[j] = expire[Settled[j]]
    BY <1>1, <1>2 DEF At
  <2>2. /\ w = [v EXCEPT ![k] = v[i], ![i] = v[k]]
        /\ v[i] = expire[s] /\ v[k] = expire[cur]
    BY <1>1, <1>3, <2>1 DEF Swapped
  <2>3. w \in [1..len -> Nat] /\ At(h, expire) \in [1..len -> Nat]
    <3>1. v[i] \in Nat /\ v[k] \in Nat
      BY <1>1, <2>1
    <3>2. w \in [1..len -> Nat]
      BY <2>1, <2>2, <3>1
    <3>3. At(h, expire) \in [1..Len(h) -> Nat]
      BY <1>2, <1>6, AtType
    <3> QED
      BY <1>6, <3>2, <3>3
  <2>4. ASSUME NEW j \in 1..len PROVE At(h, expire)[j] = w[j]
    <3>1. At(h, expire)[j] = expire[h[j]]
      BY <1>6 DEF At
    <3>2. CASE j = i
      BY <1>1, <1>6, <2>1, <2>2, <3>1, <3>2
    <3>3. CASE j = k
      BY <1>1, <1>6, <2>1, <2>2, <3>1, <3>3
    <3>4. CASE j # i /\ j # k
      BY <1>6, <2>1, <2>2, <3>1, <3>4
    <3> QED
      BY <3>2, <3>3, <3>4
  <2> QED
    BY <2>3, <2>4
<1>10. TypeOK'
  BY <1>2, <1>4, <1>5 DEF TypeOK, IInv
<1>11. Order'
  <2>1. index'[cur'] = i /\ Len(nodes') = len /\ At(Settled', expire') = w
    BY <1>4, <1>5, <1>7, <1>9
  <2>2. i # 0
    BY <1>2
  <2> QED
    BY <1>1, <1>2, <1>4, <2>1, <2>2 DEF Order, InHeap
<1>12. Sound(Settled, index)' /\ TimerAssumption'
  BY <1>4, <1>7, <1>8 DEF Sound, IInv, TimerAssumption
<1> QED
  BY <1>10, <1>11, <1>12 DEF IInv

\* The timer is written into its slot where the order has no hole any more.
LEMMA SettleSound ==
  ASSUME IInv, sift # "none", Settle, Sorted(At(Settled, expire), Len(nodes))
  PROVE  IInv'
<1>1. /\ Settled = [nodes EXCEPT ![index[cur]] = cur]
      /\ Settled \in Seq(Timer) /\ Len(Settled) = Len(nodes)
  BY Moving
<1>2. /\ nodes' = Settled /\ sift' = "none" /\ cur' = None
      /\ index' = index /\ expire' = expire /\ out' = out
  BY <1>1 DEF Settle
<1>3. Settled' = Settled
  BY <1>2 DEF Settled
<1>4. TypeOK'
  BY <1>1, <1>2 DEF TypeOK, IInv
<1>5. Order'
  BY <1>1, <1>2 DEF Order
<1>6. Sound(Settled, index)' /\ TimerAssumption'
  BY <1>2, <1>3 DEF Sound, IInv, TimerAssumption
<1> QED
  BY <1>4, <1>5, <1>6 DEF IInv

\* The loops see the order around the slot of the timer.
LEMMA Around ==
  ASSUME IInv, sift # "none", NEW v, v = At(Settled, expire)
  PROVE  /\ v \in [1..Len(nodes) -> Nat] /\ v[index[cur]] = expire[cur]
         /\ \A i \in 1..Len(nodes) : i # index[cur] => expire[nodes[i]] = v[i]
<1>1. expire \in [Timer -> Nat]
  BY DEF IInv, TypeOK
<1>2. /\ Settled \in Seq(Timer) /\ Len(Settled) = Len(nodes)
      /\ index[cur] \in 1..Len(nodes) /\ Settled[index[cur]] = cur
      /\ \A i \in 1..Len(nodes) : i # index[cur] => Settled[i] = nodes[i]
  BY Moving
<1>3. v \in [1..Len(nodes) -> Nat]
  BY <1>1, <1>2, AtType
<1>4. \A i \in 1..Len(nodes) : v[i] = expire[Settled[i]]
  BY <1>2 DEF At
<1> QED
  BY <1>2, <1>3, <1>4

LEMMA UpHeapSound ==
  ASSUME IInv, UpHeap
  PROVE  IInv'
<1> DEFINE k == index[cur]
           p == Parent(k)
           n == Len(nodes)
           v == At(Settled, expire)
<1>1. sift = "up" /\ UpHole(v, n, k) /\ n \in Nat /\ k \in 1..n
  BY Moving DEF UpHeap, IInv, Order, TypeOK
<1>2. /\ v \in [1..n -> Nat] /\ v[k] = expire[cur]
      /\ \A i \in 1..n : i # k => expire[nodes[i]] = v[i]
  BY <1>1, Around
<1>3. k = 1 => p = 0
  BY ParentFacts
<1>4. k > 1 => p \in 1..n /\ p < k
  BY <1>1, ParentFacts
<1>5. Above # {} <=> k > 1 /\ v[k] < v[p]
  <2>1. Above = {i \in {p} \ {0} : expire[cur] < expire[nodes[i]]}
    BY DEF Above
  <2>2. Above # {} <=> p # 0 /\ expire[cur] < expire[nodes[p]]
    BY <2>1
  <2>3. CASE k = 1
    BY <1>3, <2>2, <2>3
  <2>4. CASE k > 1
    <3>1. p \in 1..n /\ p # k /\ p # 0
      BY <1>1, <1>4, <2>4
    <3>2. expire[nodes[p]] = v[p]
      BY <1>2, <3>1
    <3> QED
      BY <1>2, <2>2, <2>4, <3>1, <3>2
  <2> QED
    BY <1>1, <2>3, <2>4
<1> HIDE DEF v
<1>6. CASE k > 1 /\ v[k] < v[p]
  <2>1. Swap(p)
    BY <1>5, <1>6 DEF UpHeap
  <2>2. p \in 1..n /\ p # k /\ k \in 2..n
    BY <1>1, <1>4, <1>6
  <2> HIDE DEF p, k, n
  <2>3. UpHole(Swapped(v, k, p), n, p)
    BY <1>1, <1>2, <1>6, <2>2, UpSwap DEF p
  <2> QED
    BY <1>1, <2>1, <2>2, <2>3, SwapSound DEF v, k, n
<1>7. CASE ~(k > 1 /\ v[k] < v[p])
  <2>1. Settle
    BY <1>5, <1>7 DEF UpHeap
  <2>2. k > 1 => v[p] <= v[k]
    BY <1>1, <1>2, <1>4, <1>7
  <2>3. Sorted(v, n)
    <3> HIDE DEF k, n
    <3> QED
      BY <1>1, <1>2, <2>2, UpDone
  <2> QED
    BY <1>1, <2>1, <2>3, SettleSound DEF v
<1> QED
  BY <1>6, <1>7

LEMMA DownHeapSound ==
  ASSUME IInv, DownHeap
  PROVE  IInv'
<1> DEFINE k == index[cur]
           n == Len(nodes)
           v == At(Settled, expire)
           children == {i \in {2 * k, 2 * k + 1} : i <= n /\ expire[nodes[i]] < expire[cur]}
<1>1. sift = "down" /\ DownHole(v, n, k) /\ n \in Nat /\ k \in 1..n
  BY Moving DEF DownHeap, IInv, Order, TypeOK
<1>2. /\ v \in [1..n -> Nat] /\ v[k] = expire[cur]
      /\ \A i \in 1..n : i # k => expire[nodes[i]] = v[i]
  BY <1>1, Around
<1>3. ASSUME NEW i \in 2..n, Parent(i) = k PROVE i \in {2 * k, 2 * k + 1}
  <2>1. i \in Nat /\ k \in Nat
    BY <1>1
  <2> HIDE DEF k
  <2>2. i = 2 * k \/ i = 2 * k + 1
    BY <1>3, <2>1, ParentFacts
  <2> QED
    BY <2>2
<1>4. ASSUME NEW i \in {2 * k, 2 * k + 1}, i <= n PROVE i \in 2..n /\ i # k /\ Parent(i) = k
  <2>1. i \in Nat /\ k \in Nat /\ i \in 2..n /\ i # k
    BY <1>1, <1>4
  <2> QED
    BY <2>1, ParentFacts
<1> HIDE DEF v
<1>5. \A i : i \in children <=> i \in 2..n /\ Parent(i) = k /\ v[i] < v[k]
  <2>1. ASSUME NEW i \in children PROVE i \in 2..n /\ Parent(i) = k /\ v[i] < v[k]
    <3>1. i \in 2..n /\ i # k /\ Parent(i) = k
      BY <1>4
    <3> QED
      BY <1>2, <3>1
  <2>2. ASSUME NEW i \in 2..n, Parent(i) = k, v[i] < v[k] PROVE i \in children
    <3>1. i \in {2 * k, 2 * k + 1} /\ i <= n
      BY <1>3, <2>2
    <3>2. i \in 1..n /\ i # k
      BY <1>4, <3>1
    <3> QED
      BY <1>2, <2>2, <3>1, <3>2
  <2> QED
    BY <2>1, <2>2
<1>6. EarlierChild = {i \in children : \A j \in children :
                       \/ expire[nodes[i]] < expire[nodes[j]]
                       \/ expire[nodes[i]] = expire[nodes[j]] /\ i <= j}
  BY DEF EarlierChild
<1>7. \A i \in children : /\ expire[nodes[i]] = v[i] /\ v[i] \in Nat
                          /\ i \in Nat /\ i \in {2 * k, 2 * k + 1}
  <2>1. ASSUME NEW i \in children PROVE i \in 1..n /\ i # k
    BY <1>4
  <2>2. \A i \in 1..n : v[i] \in Nat /\ i \in Nat
    BY <1>1, <1>2
  <2> QED
    BY <1>2, <2>1, <2>2
<1> HIDE DEF children
<1>8. ASSUME NEW i \in EarlierChild, Swap(i) PROVE IInv'
  <2>1. /\ i \in 2..n /\ Parent(i) = k /\ v[i] < v[k] /\ v[i] \in Nat
        /\ \A j \in children : v[i] <= v[j]
    BY <1>5, <1>6, <1>7
  <2>2. ASSUME NEW j \in 2..n, Parent(j) = k PROVE v[i] <= v[j]
    <3>1. CASE j \in children
      BY <2>1, <3>1
    <3>2. CASE j \notin children
      <4>1. ~(v[j] < v[k]) /\ v[j] \in Nat /\ v[k] \in Nat
        BY <1>1, <1>2, <1>5, <2>2, <3>2
      <4> QED
        BY <2>1, <4>1
    <3> QED
      BY <3>1, <3>2
  <2>3. i \in 1..n /\ i # k
    BY <1>1, <2>1, ParentFacts
  <2> HIDE DEF k, n
  <2>4. DownHole(Swapped(v, k, i), n, i)
    BY <1>1, <1>2, <2>1, <2>2, DownSwap
  <2> QED
    BY <1>1, <1>8, <2>3, <2>4, SwapSound DEF v, k, n
<1>9. CASE EarlierChild = {} /\ Settle
  <2>1. children = {}
    <3> SUFFICES ASSUME NEW i \in children PROVE FALSE
      OBVIOUS
    <3>1. PICK j \in children : v[i] > v[j] \/ (v[i] = v[j] /\ i > j)
      BY <1>6, <1>7, <1>9
    <3>2. PICK l \in children : v[j] > v[l] \/ (v[j] = v[l] /\ j > l)
      BY <1>6, <1>7, <1>9
    <3>3. /\ v[i] \in Nat /\ v[j] \in Nat /\ v[l] \in Nat
          /\ i \in Nat /\ j \in Nat /\ l \in Nat
      BY <1>7
    <3>4. i # j /\ j # l /\ i # l
      BY <3>1, <3>2, <3>3
    <3>5. i \in {2 * k, 2 * k + 1} /\ j \in {2 * k, 2 * k + 1} /\ l \in {2 * k, 2 * k + 1}
      BY <1>7
    <3> QED
      BY <3>4, <3>5
  <2>2. ASSUME NEW i \in 2..n, Parent(i) = k PROVE v[k] <= v[i]
    BY <1>1, <1>2, <1>5, <2>1, <2>2
  <2>3. Sorted(v, n)
    <3> HIDE DEF k, n
    <3> QED
      BY <1>1, <1>2, <2>2, DownDone
  <2> QED
    BY <1>1, <1>9, <2>3, SettleSound DEF v
<1> QED
  BY <1>8, <1>9 DEF DownHeap

-----------------------------------------------------------------------------
(* The invariant is inductive. *)

LEMMA PopSound ==
  ASSUME IInv, Pop
  PROVE  /\ nodes[1] \in Timer /\ InHeap(nodes[1]) /\ index[nodes[1]] = 1
         /\ IInv'
<1>1. nodes \in Seq(Timer) /\ Len(nodes) \in Nat /\ 1 \in 1..Len(nodes) /\ sift = "none"
  BY DEF Pop, IInv, TypeOK
<1>2. Sound(nodes, index)
  BY <1>1, Resting
<1>3. nodes[1] \in Timer /\ index[nodes[1]] = 1
  BY <1>1, <1>2 DEF Sound
<1>4. InHeap(nodes[1]) /\ Take(nodes[1]) /\ out' \in Timer \cup {None}
  BY <1>3 DEF InHeap, Pop
<1> QED
  BY <1>1, <1>3, <1>4, TakeSound

LEMMA RemoveSound ==
  ASSUME IInv, NEW t \in Timer, Remove(t)
  PROVE  IInv'
<1>1. out' \in Timer \cup {None}
  BY DEF Remove, IInv, TypeOK
<1> QED
  BY <1>1, TakeSound DEF Remove

LEMMA NextIInv == IInv /\ Next => IInv'
<1> SUFFICES ASSUME IInv, Next PROVE IInv'
  OBVIOUS
<1>1. ASSUME NEW t \in Timer, Remove(t) PROVE IInv'
  BY <1>1, RemoveSound
<1>2. ASSUME NEW t \in Timer, NEW e \in Expiry, Insert(t, e) PROVE IInv'
  BY <1>2, InsertSound
<1>3. ASSUME NEW t \in Timer, NEW e \in Expiry, Modify(t, e) PROVE IInv'
  BY <1>3, ModifySound
<1>4. CASE Pop
  BY <1>4, PopSound
<1>5. CASE UpHeap
  BY <1>5, UpHeapSound
<1>6. CASE DownHeap
  BY <1>6, DownHeapSound
<1> QED
  BY <1>1, <1>2, <1>3, <1>4, <1>5, <1>6 DEF Next

LEMMA StutterIInv == IInv /\ UNCHANGED vars => IInv'
<1> SUFFICES ASSUME IInv, UNCHANGED vars PROVE IInv'
  OBVIOUS
<1>1. /\ nodes' = nodes /\ index' = index /\ expire' = expire
      /\ sift' = sift /\ cur' = cur /\ out' = out
  BY DEF vars
<1>2. Settled' = Settled
  BY <1>1 DEF Settled
<1>3. TypeOK' /\ TimerAssumption'
  BY <1>1 DEF IInv, TypeOK, TimerAssumption
<1>4. Sound(Settled, index)'
  BY <1>1, <1>2 DEF IInv, Sound
<1>5. Order'
  BY <1>1, <1>2 DEF IInv, Order, InHeap
<1> QED
  BY <1>3, <1>4, <1>5 DEF IInv

LEMMA InitIInv == TimerAssumption /\ Init => IInv
<1> SUFFICES ASSUME TimerAssumption, Init PROVE IInv
  OBVIOUS
<1>1. TypeOK
  BY DEF Init, TypeOK
<1>2. Len(nodes) = 0 /\ Settled = nodes
  BY DEF Init, Settled
<1>3. Sound(Settled, index)
  BY <1>2 DEF Init, Sound
<1>4. Order
  BY <1>2 DEF Init, Order, Sorted
<1> QED
  BY <1>1, <1>3, <1>4 DEF IInv

-----------------------------------------------------------------------------
\* Timers and slots agree and the order has at most the hole that a loop is
\* about to close, for any timers and expiry times.
THEOREM HeapInvariance == TimerAssumption /\ Spec => []IInv
<1>1. IInv /\ [Next]_vars => IInv'
  BY NextIInv, StutterIInv
<1> QED
  BY <1>1, InitIInv, PTL DEF Spec

\* Any timer in the heap can be stopped through its index, at every step of a
\* sifting loop too.
THEOREM IndexSoundHolds == TimerAssumption /\ Spec => []IndexSound
<1>1. IInv => IndexSound
  <2> SUFFICES ASSUME IInv PROVE IndexSound
    OBVIOUS
  <2>1. Len(Settled) = Len(nodes)
    <3>1. CASE sift = "none"
      BY <3>1, Resting
    <3>2. CASE sift # "none"
      BY <3>2, Moving
    <3> QED
      BY <3>1, <3>2
  <2> QED
    BY <2>1 DEF IInv, Sound, IndexSound, InHeap
<1> QED
  BY <1>1, HeapInvariance, PTL

\* No timer expires before its parent once an operation is over.
THEOREM HeapOrderHolds == TimerAssumption /\ Spec => []HeapOrder
<1>1. IInv => HeapOrder
  <2> SUFFICES ASSUME IInv, sift = "none", NEW i \in 2..Len(nodes)
               PROVE  expire[nodes[Parent(i)]] <= expire[nodes[i]]
    BY DEF HeapOrder
  <2>1. /\ nodes \in Seq(Timer) /\ Len(nodes) \in Nat
        /\ Sorted(At(nodes, expire), Len(nodes))
    BY Resting DEF IInv, TypeOK
  <2>2. Parent(i) \in 1..Len(nodes) /\ i \in 1..Len(nodes)
    BY <2>1, ParentFacts
  <2>3. At(nodes, expire)[Parent(i)] <= At(nodes, expire)[i]
    BY <2>1 DEF Sorted
  <2> QED
    BY <2>1, <2>2, <2>3 DEF At
<1> QED
  BY <1>1, HeapInvariance, PTL

-----------------------------------------------------------------------------
(* The heap implements TimerQueue. *)

\* A timer that is taken is not queued any more, and no other changes.
LEMMA TakeDue ==
  ASSUME IInv, sift = "none", NEW t \in Timer, InHeap(t), Take(t)
  PROVE  due' = [due EXCEPT ![t] = None]
<1>1. /\ index \in [Timer -> 0..Len(nodes)] /\ expire \in [Timer -> Nat]
      /\ nodes \in Seq(Timer) /\ Len(nodes) \in Nat /\ Sound(nodes, index)
  BY Resting DEF IInv, TypeOK
<1>2. due = [s \in Timer |-> IF index[s] # 0 THEN expire[s] ELSE None]
  BY DEF due, InHeap
<1>3. due' = [s \in Timer |-> IF index'[s] # 0 THEN expire'[s] ELSE None]
  BY DEF due, InHeap
<1>4. index[t] \in 1..Len(nodes)
  BY <1>1 DEF InHeap
<1>5. /\ expire' = [expire EXCEPT ![t] = 0] /\ index'[t] = 0
      /\ \A s \in Timer : s # t => (index'[s] # 0 <=> index[s] # 0)
  <2>1. CASE index[t] = Len(nodes)
    BY <1>1, <2>1 DEF Take
  <2>2. CASE index[t] < Len(nodes)
    <3>1. /\ index' = [index EXCEPT ![Last] = index[t], ![t] = 0]
          /\ expire' = [expire EXCEPT ![t] = 0]
      BY <1>4, <2>2 DEF Take, Adjust
    <3>2. Last \in Timer /\ index[Last] = Len(nodes) /\ Last # t
      BY <1>1, <1>4, <2>2 DEF Last, Sound
    <3> QED
      BY <1>1, <1>4, <3>1, <3>2
  <2> QED
    BY <1>1, <1>4, <2>1, <2>2
<1>6. ASSUME NEW s \in Timer, s # t PROVE expire'[s] = expire[s]
  BY <1>1, <1>5, <1>6
<1> QED
  BY <1>2, <1>3, <1>5, <1>6

\* A timer that is started or changed is due at its new time.
LEMMA AdjustDue ==
  ASSUME IInv, NEW t \in Timer, NEW e \in Expiry, NEW n, NEW x,
         Adjust(t, n, x, [expire EXCEPT ![t] = e]), x[t] # 0,
         \A s \in Timer : s # t => x[s] = index[s]
  PROVE  due'[t] = e /\ e \in Nat /\ due' = [due EXCEPT ![t] = due'[t]]
<1>1. expire \in [Timer -> Nat] /\ e \in Nat
  BY DEF IInv, TypeOK, TimerAssumption
<1>2. due = [s \in Timer |-> IF index[s] # 0 THEN expire[s] ELSE None]
  BY DEF due, InHeap
<1>3. due' = [s \in Timer |-> IF index'[s] # 0 THEN expire'[s] ELSE None]
  BY DEF due, InHeap
<1>4. index' = x /\ expire' = [expire EXCEPT ![t] = e]
  BY DEF Adjust
<1>5. due'[t] = e
  BY <1>1, <1>3, <1>4
<1>6. \A s \in Timer : s # t => due'[s] = due[s]
  BY <1>1, <1>2, <1>3, <1>4
<1> HIDE DEF due
<1> QED
  BY <1>1, <1>2, <1>3, <1>5, <1>6

\* The loops are invisible.
LEMMA SiftDue ==
  ASSUME IInv, UpHeap \/ DownHeap
  PROVE  due' = due /\ out' = out
<1>1. sift # "none"
  BY DEF UpHeap, DownHeap
<1>2. /\ cur \in Timer /\ index[cur] \in 1..Len(nodes) /\ Len(nodes) \in Nat
      /\ index \in [Timer -> 0..Len(nodes)] /\ nodes \in Seq(Timer)
      /\ Sound(Settled, index)
      /\ \A i \in 1..Len(nodes) : i # index[cur] => Settled[i] = nodes[i]
      /\ Len(Settled) = Len(nodes)
  <2>1. /\ cur \in Timer /\ index[cur] \in 1..Len(nodes)
        /\ \A i \in 1..Len(nodes) : i # index[cur] => Settled[i] = nodes[i]
        /\ Len(Settled) = Len(nodes)
    BY <1>1, Moving
  <2>2. /\ Len(nodes) \in Nat /\ index \in [Timer -> 0..Len(nodes)]
        /\ nodes \in Seq(Timer) /\ Sound(Settled, index)
    BY DEF IInv, TypeOK
  <2> QED
    BY <2>1, <2>2
<1>3. ASSUME NEW i \in 1..Len(nodes), i # index[cur], Swap(i)
      PROVE  due' = due /\ out' = out
  <2>1. nodes[i] \in Timer /\ index[nodes[i]] = i /\ nodes[i] # cur
    BY <1>2, <1>3 DEF Sound
  <2>2. index' = [index EXCEPT ![nodes[i]] = index[cur], ![cur] = i]
        /\ expire' = expire /\ out' = out
    BY <1>3 DEF Swap
  <2>3. \A s \in Timer : index'[s] # 0 <=> index[s] # 0
    BY <1>2, <2>1, <2>2
  <2> QED
    BY <2>2, <2>3 DEF due, InHeap
<1>4. ASSUME Settle PROVE due' = due /\ out' = out
  BY <1>4 DEF Settle, due, InHeap
<1>5. CASE UpHeap
  <2>1. CASE Above # {}
    <3>1. Parent(index[cur]) # 0 /\ Swap(Parent(index[cur]))
      BY <1>5, <2>1 DEF UpHeap, Above
    <3>2. Parent(index[cur]) \in 1..Len(nodes) /\ Parent(index[cur]) # index[cur]
      BY <1>2, <3>1, ParentFacts
    <3> QED
      BY <1>3, <3>1, <3>2
  <2>2. CASE Above = {}
    BY <1>4, <1>5, <2>2 DEF UpHeap
  <2> QED
    BY <2>1, <2>2
<1>6. CASE DownHeap
  <2>1. ASSUME NEW i \in EarlierChild, Swap(i) PROVE due' = due /\ out' = out
    <3>1. i \in {2 * index[cur], 2 * index[cur] + 1} /\ i <= Len(nodes)
      BY DEF EarlierChild
    <3>2. i \in 1..Len(nodes) /\ i # index[cur]
      BY <1>2, <3>1
    <3> QED
      BY <1>3, <2>1, <3>2
  <2> QED
    BY <1>4, <1>6, <2>1 DEF DownHeap
<1> QED
  BY <1>5, <1>6

\* The heap pops a timer that expires first, whatever was started, changed and
\* stopped before: it implements TimerQueue.
THEOREM HeapKeepsContract == TimerAssumption /\ Spec => KeepsContract
<1>1. Init => Contract!Init
  BY DEF Init, Contract!Init, due, InHeap
<1>2. IInv /\ [Next]_vars => [Contract!Next]_<<due, out>>
  <2> SUFFICES ASSUME IInv, [Next]_vars PROVE [Contract!Next]_<<due, out>>
    OBVIOUS
  <2>0. \A t \in Timer : due[t] # None <=> InHeap(t)
    BY DEF due, IInv, TypeOK, TimerAssumption
  <2>1. ASSUME NEW t \in Timer, Remove(t) PROVE Contract!Next
    <3>1. due' = [due EXCEPT ![t] = None] /\ due[t] # None /\ out' = out
      BY <2>0, <2>1, TakeDue DEF Remove
    <3> QED
      BY <3>1 DEF Contract!Next, Contract!Remove, Contract!Queued
  <2>2. ASSUME NEW t \in Timer, NEW e \in Expiry, Insert(t, e) PROVE Contract!Next
    <3>1. /\ index \in [Timer -> 0..Len(nodes)] /\ Len(nodes) \in Nat
          /\ due[t] = None /\ out' = None
      BY <2>0, <2>2 DEF Insert, IInv, TypeOK
    <3> DEFINE x == [index EXCEPT ![t] = Len(nodes) + 1]
    <3>2. x[t] # 0 /\ \A s \in Timer : s # t => x[s] = index[s]
      BY <3>1
    <3>3. Adjust(t, Append(nodes, t), x, [expire EXCEPT ![t] = e])
      BY <2>2 DEF Insert
    <3> HIDE DEF x
    <3>4. due'[t] \in Nat /\ due' = [due EXCEPT ![t] = due'[t]]
      BY <3>2, <3>3, AdjustDue
    <3> QED
      BY <3>1, <3>4 DEF Contract!Next, Contract!Insert, Contract!Keeps, Contract!Queued
  <2>3. ASSUME NEW t \in Timer, NEW e \in Expiry, Modify(t, e) PROVE Contract!Next
    <3>1. index[t] # 0 /\ due[t] # None /\ out' = out
      BY <2>0, <2>3 DEF Modify, InHeap
    <3>2. Adjust(t, nodes, index, [expire EXCEPT ![t] = e])
      BY <2>3 DEF Modify
    <3>3. due'[t] \in Nat /\ due' = [due EXCEPT ![t] = due'[t]]
      BY <3>1, <3>2, AdjustDue
    <3> QED
      BY <3>1, <3>3 DEF Contract!Next, Contract!Modify, Contract!Keeps, Contract!Queued
  <2>4. ASSUME Pop PROVE Contract!Next
    <3> DEFINE t == nodes[1]
    <3>1. t \in Timer /\ InHeap(t) /\ index[t] = 1 /\ sift = "none" /\ Take(t) /\ out' = t
      BY <2>4, PopSound DEF Pop
    <3>2. due' = [due EXCEPT ![t] = None] /\ due[t] # None
      BY <2>0, <3>1, TakeDue
    <3>3. ASSUME NEW s \in Timer, due[s] # None PROVE due[t] <= due[s]
      <4>1. /\ nodes \in Seq(Timer) /\ Len(nodes) \in Nat /\ expire \in [Timer -> Nat]
            /\ Sound(nodes, index) /\ Sorted(At(nodes, expire), Len(nodes))
            /\ index \in [Timer -> 0..Len(nodes)]
        BY <3>1, Resting DEF IInv, TypeOK
      <4>2. InHeap(s) /\ due[s] = expire[s] /\ due[t] = expire[t]
        BY <2>0, <3>1, <3>3 DEF due
      <4>3. index[s] \in 1..Len(nodes) /\ nodes[index[s]] = s /\ 1 \in 1..Len(nodes)
        BY <4>1, <4>2 DEF Sound, InHeap
      <4> DEFINE v == At(nodes, expire)
      <4>4. v \in [1..Len(nodes) -> Nat] /\ v[1] = expire[t] /\ v[index[s]] = expire[s]
        <5>1. v \in [1..Len(nodes) -> Nat]
          BY <4>1, AtType
        <5>2. v[1] = expire[nodes[1]] /\ v[index[s]] = expire[nodes[index[s]]]
          BY <4>3 DEF At
        <5> QED
          BY <4>3, <5>1, <5>2
      <4>5. v[1] <= v[index[s]]
        <5> HIDE DEF v
        <5>1. Sorted(v, Len(nodes))
          BY <4>1 DEF v
        <5> QED
          BY <4>1, <4>3, <4>4, <5>1, TopIsLeast
      <4> QED
        BY <4>2, <4>4, <4>5
    <3> HIDE DEF t
    <3> QED
      BY <3>1, <3>2, <3>3 DEF Contract!Next, Contract!Pop, Contract!Queued
  <2>5. ASSUME UpHeap \/ DownHeap PROVE UNCHANGED <<due, out>>
    BY <2>5, SiftDue
  <2>6. ASSUME UNCHANGED vars PROVE UNCHANGED <<due, out>>
    BY <2>6 DEF vars, due, InHeap
  <2> QED
    BY <2>1, <2>2, <2>3, <2>4, <2>5, <2>6 DEF Next
<1> QED
  BY <1>1, <1>2, HeapInvariance, PTL DEF Spec, KeepsContract, Contract!Spec
=============================================================================
