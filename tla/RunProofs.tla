------------------------------ MODULE RunProofs ------------------------------
(***************************************************************************)
(* Rounds of sio_run for any timers, threads, timeouts and pipe: a wake-up *)
(* is not lost and the loop does not sleep past the expiry of a timer.     *)
(*                                                                         *)
(* The second needs that the first timer of the heap expires first however *)
(* timers were started, stopped and served meanwhile, the first that no    *)
(* byte is read between the requests' being taken and the wait.            *)
(*                                                                         *)
(* Datagram sockets, for any sockets and addresses: an event reaches the   *)
(* socket it was polled for or nobody, and registrations and sockets are   *)
(* each other's.                                                           *)
(***************************************************************************)
EXTENDS MCRun, SequenceTheorems, TLAPS

Sorted(h, l) == \A i, j \in 1..Len(h) : i < j => l[h[i]] <= l[h[j]]
Single(h) == \A i, j \in 1..Len(h) : h[i] = h[j] => i = j

\* g is h with e in slot i, where it expires in d.
Inserts(g, h, i, e) ==
  /\ Len(g) = Len(h) + 1
  /\ \A k \in 1..Len(h) + 1 : g[k] = IF k < i THEN h[k] ELSE IF k = i THEN e ELSE h[k - 1]
Fits(h, l, i, d) == \A j \in 1..Len(h) : IF j < i THEN l[h[j]] <= d ELSE d <= l[h[j]]

Types ==
  /\ at \in {"fetch", "timers", "timer", "wait", "events", "event"}
  /\ heap \in Seq(Timer) /\ left \in [Timer -> Int]
  /\ waitLeft \in Nat /\ pipe \in Nat

Order == Sorted(heap, left) /\ Single(heap)

\* A byte announces what was pushed since the requests were taken.
Announced ==
  at \in {"timers", "timer", "wait"} /\ queue \ pushed # {} => pipe > 0

IInv == Types /\ Order /\ Announced /\ WakesInTime

-----------------------------------------------------------------------------
(* Sequences of timers. *)

\* SubSeq from the front, and to the end.
LEMMA FirstPart ==
  ASSUME NEW S, NEW h \in Seq(S), NEW n \in 0..Len(h)
  PROVE  /\ SubSeq(h, 1, n) \in Seq(S) /\ Len(SubSeq(h, 1, n)) = n
         /\ \A k \in 1..n : SubSeq(h, 1, n)[k] = h[k]
<1>1. Len(h) \in Nat /\ n \in Int /\ n >= 0 /\ n <= Len(h)
  BY LenProperties
<1>2. \A k \in 1..n : h[k] \in S
  <2>1. \A k \in 1..Len(h) : h[k] \in S
    BY ElementOfSeq
  <2> QED
    BY <1>1, <2>1
<1> DEFINE f == SubSeq(h, 1, n)
<1>3. /\ f \in Seq(S) /\ Len(f) = (IF 1 <= n THEN n - 1 + 1 ELSE 0)
      /\ \A k \in 1..n - 1 + 1 : f[k] = h[1 + k - 1]
  BY <1>1, <1>2, SubSeqProperties
<1> HIDE DEF f
<1>4. n - 1 + 1 = n /\ \A k \in 1..n : 1 + k - 1 = k
  BY <1>1
<1>5. Len(f) = n /\ \A k \in 1..n : f[k] = h[k]
  BY <1>1, <1>3, <1>4
<1> QED
  BY <1>3, <1>5 DEF f

LEMMA LastPart ==
  ASSUME NEW S, NEW h \in Seq(S), NEW m \in 1..Len(h) + 1
  PROVE  /\ SubSeq(h, m, Len(h)) \in Seq(S) /\ Len(SubSeq(h, m, Len(h))) = Len(h) - m + 1
         /\ \A k \in 1..Len(h) - m + 1 : SubSeq(h, m, Len(h))[k] = h[m + k - 1]
<1>1. Len(h) \in Nat /\ m \in Int /\ m >= 1 /\ m <= Len(h) + 1
  BY LenProperties
<1>2. \A k \in m..Len(h) : h[k] \in S
  <2>1. \A k \in 1..Len(h) : h[k] \in S
    BY ElementOfSeq
  <2> QED
    BY <1>1, <2>1
<1> DEFINE f == SubSeq(h, m, Len(h))
<1>3. /\ f \in Seq(S) /\ Len(f) = (IF m <= Len(h) THEN Len(h) - m + 1 ELSE 0)
      /\ \A k \in 1..Len(h) - m + 1 : f[k] = h[m + k - 1]
  BY <1>1, <1>2, SubSeqProperties
<1> HIDE DEF f
<1>4. Len(f) = Len(h) - m + 1
  BY <1>1, <1>3
<1> QED
  BY <1>3, <1>4 DEF f

LEMMA Removed ==
  ASSUME NEW S, NEW h \in Seq(S), NEW i \in 1..Len(h)
  PROVE  /\ RemoveAt(h, i) \in Seq(S) /\ Len(RemoveAt(h, i)) = Len(h) - 1
         /\ \A k \in 1..Len(h) - 1 : RemoveAt(h, i)[k] = h[IF k < i THEN k ELSE k + 1]
<1> DEFINE a == SubSeq(h, 1, i - 1)
           b == SubSeq(h, i + 1, Len(h))
           n == Len(h)
<1>1. n \in Nat /\ i \in Int /\ 1 <= i /\ i <= n
  BY LenProperties
<1>2. a \in Seq(S) /\ Len(a) = i - 1 /\ \A k \in 1..i - 1 : a[k] = h[k]
  <2>1. i - 1 \in 0..n
    BY <1>1
  <2> QED
    BY <2>1, FirstPart
<1>3. b \in Seq(S) /\ Len(b) = n - i /\ \A k \in 1..n - i : b[k] = h[i + k]
  <2>1. i + 1 \in 1..n + 1
    BY <1>1
  <2>2. /\ b \in Seq(S) /\ Len(b) = n - (i + 1) + 1
        /\ \A k \in 1..n - (i + 1) + 1 : b[k] = h[(i + 1) + k - 1]
    BY <2>1, LastPart
  <2> HIDE DEF b, n
  <2>3. n - (i + 1) + 1 = n - i /\ \A k \in 1..n - i : (i + 1) + k - 1 = i + k
    BY <1>1
  <2> QED
    BY <2>2, <2>3
<1> HIDE DEF a, b, n
<1> DEFINE r == a \o b
<1>4. /\ r \in Seq(S) /\ Len(r) = Len(a) + Len(b)
      /\ \A k \in 1..Len(a) + Len(b) : r[k] = IF k <= Len(a) THEN a[k] ELSE b[k - Len(a)]
  BY <1>2, <1>3, ConcatProperties
<1> HIDE DEF r
<1>5. Len(a) + Len(b) = n - 1
  BY <1>1, <1>2, <1>3
<1>6. ASSUME NEW k \in 1..n - 1 PROVE r[k] = h[IF k < i THEN k ELSE k + 1]
  <2>1. CASE k < i
    <3>1. k \in 1..i - 1 /\ k <= Len(a)
      BY <1>1, <1>2, <2>1
    <3> QED
      BY <1>2, <1>4, <1>5, <2>1, <3>1
  <2>2. CASE ~(k < i)
    <3>1. k - Len(a) \in 1..n - i /\ ~(k <= Len(a)) /\ i + (k - Len(a)) = k + 1
      BY <1>1, <1>2, <2>2
    <3>2. r[k] = b[k - Len(a)]
      BY <1>4, <1>5, <3>1
    <3>3. b[k - Len(a)] = h[i + (k - Len(a))]
      BY <1>3, <3>1
    <3> QED
      BY <2>2, <3>1, <3>2, <3>3
  <2> QED
    BY <2>1, <2>2
<1>7. r = RemoveAt(h, i)
  BY DEF r, a, b, RemoveAt
<1> QED
  BY <1>4, <1>5, <1>6, <1>7 DEF n

LEMMA Inserted ==
  ASSUME NEW S, NEW h \in Seq(S), NEW e \in S, NEW i \in 1..Len(h) + 1
  PROVE  InsertAt(h, i, e) \in Seq(S) /\ Inserts(InsertAt(h, i, e), h, i, e)
<1> DEFINE a == SubSeq(h, 1, i - 1)
           b == SubSeq(h, i, Len(h))
           n == Len(h)
           c == <<e>>
<1>1. n \in Nat /\ i \in Int /\ 1 <= i /\ i <= n + 1
  BY LenProperties
<1>2. a \in Seq(S) /\ Len(a) = i - 1 /\ \A k \in 1..i - 1 : a[k] = h[k]
  <2>1. i - 1 \in 0..n
    BY <1>1
  <2> QED
    BY <2>1, FirstPart
<1>3. b \in Seq(S) /\ Len(b) = n - i + 1 /\ \A k \in 1..n - i + 1 : b[k] = h[i + k - 1]
  BY <1>1, LastPart
<1>4. c \in Seq(S) /\ Len(c) = 1 /\ c[1] = e
  OBVIOUS
<1> HIDE DEF a, b, n, c
<1> DEFINE p == a \o c
           r == p \o b
<1>5. /\ p \in Seq(S) /\ Len(p) = Len(a) + Len(c)
      /\ \A k \in 1..Len(a) + Len(c) : p[k] = IF k <= Len(a) THEN a[k] ELSE c[k - Len(a)]
  BY <1>2, <1>4, ConcatProperties
<1> HIDE DEF p
<1>6. /\ r \in Seq(S) /\ Len(r) = Len(p) + Len(b)
      /\ \A k \in 1..Len(p) + Len(b) : r[k] = IF k <= Len(p) THEN p[k] ELSE b[k - Len(p)]
  <2>1. p \in Seq(S) /\ b \in Seq(S)
    BY <1>3, <1>5
  <2> QED
    BY <2>1, ConcatProperties
<1> HIDE DEF r
<1>7. Len(p) = i /\ Len(a) + Len(c) = i /\ Len(p) + Len(b) = n + 1
  BY <1>1, <1>2, <1>3, <1>4, <1>5
<1>8. ASSUME NEW k \in 1..n + 1
      PROVE  r[k] = IF k < i THEN h[k] ELSE IF k = i THEN e ELSE h[k - 1]
  <2>1. CASE k < i
    <3>1. k \in 1..i - 1 /\ k \in 1..i /\ k <= i /\ k <= Len(a)
      BY <1>1, <1>2, <2>1
    <3>2. r[k] = p[k] /\ p[k] = a[k] /\ a[k] = h[k]
      BY <1>2, <1>5, <1>6, <1>7, <3>1
    <3> QED
      BY <2>1, <3>2
  <2>2. CASE k = i
    <3>1. ~(i <= Len(a)) /\ i - Len(a) = 1 /\ i \in 1..i /\ i <= i
      BY <1>1, <1>2
    <3>2. r[k] = p[i] /\ p[i] = c[1]
      BY <1>5, <1>6, <1>7, <2>2, <3>1
    <3> QED
      BY <1>1, <1>4, <2>2, <3>2
  <2>3. CASE k > i
    <3>1. ~(k <= i) /\ k - i \in 1..n - i + 1 /\ i + (k - i) - 1 = k - 1 /\ ~(k < i) /\ k # i
      BY <1>1, <2>3
    <3>2. r[k] = b[k - i]
      BY <1>6, <1>7, <3>1
    <3>3. b[k - i] = h[i + (k - i) - 1]
      BY <1>3, <3>1
    <3> QED
      BY <3>1, <3>2, <3>3
  <2> QED
    BY <1>1, <2>1, <2>2, <2>3
<1>9. r = InsertAt(h, i, e)
  BY DEF r, p, a, b, c, InsertAt
<1> QED
  BY <1>6, <1>7, <1>8, <1>9 DEF n, Inserts

\* A timer started where the heap has it expire keeps the order.
LEMMA OrderInserted ==
  ASSUME NEW T, NEW h \in Seq(T), NEW l \in [T -> Int], NEW t \in T, NEW d \in Int,
         NEW i \in 1..Len(h) + 1,
         Sorted(h, l), Single(h), \A j \in 1..Len(h) : h[j] # t, Fits(h, l, i, d),
         NEW g \in Seq(T), Inserts(g, h, i, t)
  PROVE  Sorted(g, [l EXCEPT ![t] = d]) /\ Single(g)
<1> DEFINE m == [l EXCEPT ![t] = d]
           n == Len(h)
<1>1. n \in Nat /\ i \in Int /\ 1 <= i /\ i <= n + 1
  BY LenProperties
<1>2. /\ g \in Seq(T) /\ Len(g) = n + 1
      /\ \A k \in 1..n + 1 : g[k] = IF k < i THEN h[k] ELSE IF k = i THEN t ELSE h[k - 1]
  BY DEF Inserts
<1>3. \A k \in 1..n : h[k] \in T
  BY ElementOfSeq
<1>4. m[t] = d /\ \A u \in T : u # t => m[u] = l[u]
  OBVIOUS
<1>5. \A u \in T : l[u] \in Int
  OBVIOUS
<1>6. /\ \A j, k \in 1..n : j < k => l[h[j]] <= l[h[k]]
      /\ \A j, k \in 1..n : h[j] = h[k] => j = k
  BY DEF Sorted, Single
<1> HIDE DEF m, n
<1>7. \A k \in 1..n : h[k] # t /\ m[h[k]] = l[h[k]] /\ l[h[k]] \in Int
  BY <1>3, <1>4, <1>5 DEF n
<1>8. \A k \in 1..n : IF k < i THEN l[h[k]] <= d ELSE d <= l[h[k]]
  BY DEF n, Fits
<1>9. ASSUME NEW j \in 1..n + 1, NEW k \in 1..n + 1, j < k
      PROVE  m[g[j]] <= m[g[k]] /\ g[j] # g[k]
  <2>1. CASE k < i
    <3>1. j \in 1..n /\ k \in 1..n /\ j < i /\ j # k
      BY <1>1, <1>9, <2>1
    <3>2. g[j] = h[j] /\ g[k] = h[k]
      BY <1>2, <2>1, <3>1
    <3> QED
      BY <1>6, <1>7, <1>9, <3>1, <3>2
  <2>2. CASE k = i
    <3>1. j \in 1..n /\ j < i /\ g[j] = h[j] /\ g[k] = t
      BY <1>1, <1>2, <1>9, <2>2
    <3> QED
      BY <1>4, <1>7, <1>8, <3>1
  <2>3. CASE k > i /\ j = i
    <3>1. k - 1 \in 1..n /\ ~(k - 1 < i) /\ ~(k < i) /\ k # i /\ ~(j < i)
      BY <1>1, <2>3
    <3>2. g[k] = h[k - 1] /\ g[j] = t
      BY <1>2, <2>3, <3>1
    <3> QED
      BY <1>4, <1>7, <1>8, <3>1, <3>2
  <2>4. CASE k > i /\ j < i
    <3>1. j \in 1..n /\ k - 1 \in 1..n /\ j < k - 1 /\ j # k - 1 /\ ~(k < i) /\ k # i
      BY <1>1, <1>9, <2>4
    <3>2. g[j] = h[j] /\ g[k] = h[k - 1]
      BY <1>2, <2>4, <3>1
    <3>3. l[h[j]] <= l[h[k - 1]] /\ h[j] # h[k - 1]
      BY <1>6, <3>1
    <3>4. m[h[j]] = l[h[j]] /\ m[h[k - 1]] = l[h[k - 1]]
      BY <1>7, <3>1
    <3> QED
      BY <3>2, <3>3, <3>4
  <2>5. CASE k > i /\ j > i
    <3>1. /\ j - 1 \in 1..n /\ k - 1 \in 1..n /\ j - 1 < k - 1 /\ j - 1 # k - 1
          /\ ~(j < i) /\ j # i /\ ~(k < i) /\ k # i
      BY <1>1, <1>9, <2>5
    <3>2. g[j] = h[j - 1] /\ g[k] = h[k - 1]
      BY <1>2, <3>1
    <3>3. l[h[j - 1]] <= l[h[k - 1]] /\ h[j - 1] # h[k - 1]
      BY <1>6, <3>1
    <3>4. m[h[j - 1]] = l[h[j - 1]] /\ m[h[k - 1]] = l[h[k - 1]]
      BY <1>7, <3>1
    <3> QED
      BY <3>2, <3>3, <3>4
  <2> QED
    BY <1>1, <2>1, <2>2, <2>3, <2>4, <2>5
<1>10. \A j, k \in 1..n + 1 : j < k => m[g[j]] <= m[g[k]]
  BY <1>9
<1>11. \A j, k \in 1..n + 1 : g[j] = g[k] => j = k
  <2> SUFFICES ASSUME NEW j \in 1..n + 1, NEW k \in 1..n + 1, g[j] = g[k], j # k PROVE FALSE
    OBVIOUS
  <2>1. j < k \/ k < j
    BY <1>1
  <2> QED
    BY <1>9, <2>1
<1> QED
  BY <1>2, <1>10, <1>11 DEF Sorted, Single, m

\* Whichever timer leaves, the others keep theirs.
LEMMA OrderRemoved ==
  ASSUME NEW T, NEW h \in Seq(T), NEW l \in [T -> Int], NEW i \in 1..Len(h),
         Sorted(h, l), Single(h), NEW g \in Seq(T), Len(g) = Len(h) - 1,
         \A k \in 1..Len(h) - 1 : g[k] = h[IF k < i THEN k ELSE k + 1]
  PROVE  Sorted(g, [l EXCEPT ![h[i]] = 0]) /\ Single(g)
<1> DEFINE m == [l EXCEPT ![h[i]] = 0]
           n == Len(h)
<1>1. n \in Nat /\ i \in Int /\ 1 <= i /\ i <= n
  BY LenProperties
<1>2. \A k \in 1..n : h[k] \in T
  BY ElementOfSeq
<1>3. \A u \in T : u # h[i] => m[u] = l[u]
  OBVIOUS
<1>4. /\ \A j, k \in 1..n : j < k => l[h[j]] <= l[h[k]]
      /\ \A j, k \in 1..n : h[j] = h[k] => j = k
  BY DEF Sorted, Single
<1>5. Len(g) = n - 1 /\ \A k \in 1..n - 1 : g[k] = h[IF k < i THEN k ELSE k + 1]
  OBVIOUS
<1> HIDE DEF m, n
<1> DEFINE s(k) == IF k < i THEN k ELSE k + 1
<1>6. \A k \in 1..n - 1 : s(k) \in 1..n /\ s(k) # i /\ g[k] = h[s(k)]
  <2>1. \A k \in 1..n - 1 : s(k) \in 1..n /\ s(k) # i
    BY <1>1
  <2> QED
    BY <1>5, <2>1
<1>7. \A j, k \in 1..n - 1 : j < k => s(j) < s(k)
  BY <1>1
<1>8. \A j, k \in 1..n - 1 : s(j) = s(k) => j = k
  BY <1>1
<1> HIDE DEF s
<1>9. ASSUME NEW k \in 1..n - 1 PROVE m[g[k]] = l[h[s(k)]]
  <2>1. s(k) \in 1..n /\ i \in 1..n /\ s(k) # i /\ g[k] = h[s(k)]
    BY <1>1, <1>6
  <2>2. h[s(k)] \in T /\ h[s(k)] # h[i]
    BY <1>2, <1>4, <2>1
  <2> QED
    BY <1>3, <2>1, <2>2
<1>10. ASSUME NEW j \in 1..n - 1, NEW k \in 1..n - 1, j < k PROVE m[g[j]] <= m[g[k]]
  <2>1. s(j) \in 1..n /\ s(k) \in 1..n /\ s(j) < s(k)
    BY <1>6, <1>7, <1>10
  <2>2. m[g[j]] = l[h[s(j)]] /\ m[g[k]] = l[h[s(k)]]
    BY <1>9
  <2> QED
    BY <1>4, <2>1, <2>2
<1>11. ASSUME NEW j \in 1..n - 1, NEW k \in 1..n - 1, g[j] = g[k] PROVE j = k
  <2>1. s(j) \in 1..n /\ s(k) \in 1..n /\ h[s(j)] = h[s(k)]
    BY <1>6, <1>11
  <2>2. s(j) = s(k)
    BY <1>4, <2>1
  <2> QED
    BY <1>8, <2>2
<1> QED
  BY <1>5, <1>10, <1>11 DEF Sorted, Single, m

-----------------------------------------------------------------------------
(* What a step does to the queue of timers. *)

LEMMA Indices ==
  ASSUME Types
  PROVE  /\ Len(heap) \in Nat /\ DOMAIN heap = 1..Len(heap)
         /\ \A i \in 1..Len(heap) : heap[i] \in Timer /\ left[heap[i]] \in Int
         /\ \A t : Started(t) <=> \E i \in 1..Len(heap) : heap[i] = t
<1>1. heap \in Seq(Timer) /\ left \in [Timer -> Int]
  BY DEF Types
<1>2. Len(heap) \in Nat /\ DOMAIN heap = 1..Len(heap)
  BY <1>1, LenProperties
<1>3. \A i \in 1..Len(heap) : heap[i] \in Timer
  BY <1>1, ElementOfSeq
<1> QED
  BY <1>1, <1>2, <1>3 DEF Started, ToSet

\* Started timers expire in the same order a tick later.
LEMMA TickKeepsOrder ==
  ASSUME Types, Order, Tick
  PROVE  left' \in [Timer -> Int] /\ Order'
<1>1. /\ heap' = heap
      /\ left' = [t \in Timer |-> IF Started(t) THEN Later(left[t]) ELSE 0]
  BY DEF Tick
<1>2. /\ left \in [Timer -> Int]
      /\ \A i \in 1..Len(heap) : heap[i] \in Timer /\ left[heap[i]] \in Int /\ Started(heap[i])
  BY Indices DEF Types
<1>3. MaxElapsed \in Nat
  BY RunAssumption
<1>4. \A d \in Int : Later(d) \in Int
  BY <1>3 DEF Later
<1>5. left' \in [Timer -> Int]
  BY <1>1, <1>2, <1>4
<1>6. \A d, e \in Int : d <= e => Later(d) <= Later(e)
  BY <1>3 DEF Later
<1>7. \A i \in 1..Len(heap) : left'[heap[i]] = Later(left[heap[i]])
  BY <1>1, <1>2
<1>8. \A i, j \in 1..Len(heap) : i < j => left[heap[i]] <= left[heap[j]]
  BY DEF Order, Sorted
<1>9. \A i, j \in 1..Len(heap) : i < j => left'[heap[i]] <= left'[heap[j]]
  <2> TAKE i, j \in 1..Len(heap)
  <2> HAVE i < j
  <2>1. left[heap[i]] <= left[heap[j]] /\ left[heap[i]] \in Int /\ left[heap[j]] \in Int
    BY <1>2, <1>8
  <2> QED
    BY <1>6, <1>7, <2>1
<1>10. Sorted(heap, left')
  BY <1>9 DEF Sorted
<1> QED
  BY <1>1, <1>5, <1>10 DEF Order

LEMMA StartKeepsOrder ==
  ASSUME Types, Order, NEW t \in Timer, NEW d \in Timeout, Start(t, d)
  PROVE  heap' \in Seq(Timer) /\ left' \in [Timer -> Int] /\ Order'
<1>1. /\ heap \in Seq(Timer) /\ left \in [Timer -> Int] /\ d \in Int
      /\ Sorted(heap, left) /\ Single(heap)
  BY RunAssumption DEF Types, Order
<1>2. PICK i \in 1..Len(heap) + 1 :
        /\ \A j \in DOMAIN heap : IF j < i THEN left[heap[j]] <= d ELSE d <= left[heap[j]]
        /\ heap' = InsertAt(heap, i, t)
  BY DEF Start
<1>3. left' = [left EXCEPT ![t] = d]
  BY DEF Start
<1> DEFINE g == InsertAt(heap, i, t)
<1>4. g \in Seq(Timer) /\ Inserts(g, heap, i, t)
  BY <1>1, Inserted
<1> HIDE DEF g
<1>5. (\A j \in 1..Len(heap) : heap[j] # t) /\ Fits(heap, left, i, d)
  BY <1>2, Indices DEF Start, Fits
<1>6. Sorted(g, [left EXCEPT ![t] = d]) /\ Single(g)
  BY <1>1, <1>4, <1>5, OrderInserted
<1>7. heap' = g
  BY <1>2 DEF g
<1>8. left' \in [Timer -> Int]
  BY <1>1, <1>3
<1> QED
  BY <1>3, <1>4, <1>6, <1>7, <1>8 DEF Order

\* The timer in a slot goes.
LEMMA Goes ==
  ASSUME Types, Order, NEW i \in 1..Len(heap), heap' = RemoveAt(heap, i),
         left' = [left EXCEPT ![heap[i]] = 0]
  PROVE  heap' \in Seq(Timer) /\ left' \in [Timer -> Int] /\ Order'
<1>1. /\ heap \in Seq(Timer) /\ left \in [Timer -> Int]
      /\ Sorted(heap, left) /\ Single(heap)
  BY DEF Types, Order
<1> DEFINE g == RemoveAt(heap, i)
<1>2. /\ g \in Seq(Timer) /\ Len(g) = Len(heap) - 1
      /\ \A k \in 1..Len(heap) - 1 : g[k] = heap[IF k < i THEN k ELSE k + 1]
  BY <1>1, Removed
<1> HIDE DEF g
<1>3. Sorted(g, [left EXCEPT ![heap[i]] = 0]) /\ Single(g)
  BY <1>1, <1>2, OrderRemoved
<1>4. heap' = g
  BY DEF g
<1>5. left' \in [Timer -> Int]
  BY <1>1, Indices
<1> QED
  BY <1>2, <1>3, <1>4, <1>5 DEF Order

LEMMA StopKeepsOrder ==
  ASSUME Types, Order, NEW t \in Timer, Stop(t)
  PROVE  heap' \in Seq(Timer) /\ left' \in [Timer -> Int] /\ Order'
<1>1. PICK i \in DOMAIN heap : heap[i] = t /\ heap' = RemoveAt(heap, i)
  BY DEF Stop
<1>2. i \in 1..Len(heap)
  BY Indices
<1>3. left' = [left EXCEPT ![heap[i]] = 0]
  BY <1>1 DEF Stop
<1> QED
  BY <1>1, <1>2, <1>3, Goes

LEMMA TimerFiresKeepsOrder ==
  ASSUME Types, Order, TimerFires
  PROVE  heap' \in Seq(Timer) /\ left' \in [Timer -> Int] /\ Order'
<1>1. heap # <<>> /\ heap' = Tail(heap) /\ left' = [left EXCEPT ![heap[1]] = 0]
  BY DEF TimerFires, Serves
<1>2. /\ heap \in Seq(Timer) /\ left \in [Timer -> Int]
      /\ Sorted(heap, left) /\ Single(heap)
  BY DEF Types, Order
<1>3. Len(heap) \in Nat /\ 1 \in 1..Len(heap)
  BY <1>1, <1>2, EmptySeq, LenProperties
<1> DEFINE g == Tail(heap)
<1>4. /\ g \in Seq(Timer) /\ Len(g) = Len(heap) - 1
      /\ \A k \in 1..Len(heap) - 1 : g[k] = heap[k + 1]
  BY <1>1, <1>2, HeadTailProperties
<1> HIDE DEF g
<1>5. \A k \in 1..Len(heap) - 1 : g[k] = heap[IF k < 1 THEN k ELSE k + 1]
  BY <1>3, <1>4
<1>6. Sorted(g, [left EXCEPT ![heap[1]] = 0]) /\ Single(g)
  BY <1>2, <1>3, <1>4, <1>5, OrderRemoved
<1>7. heap' = g
  BY <1>1 DEF g
<1>8. left' \in [Timer -> Int]
  BY <1>1, <1>2, <1>3, Indices
<1> QED
  BY <1>1, <1>4, <1>6, <1>7, <1>8 DEF Order

-----------------------------------------------------------------------------
(* Every step keeps IInv. *)

LEMMA InitIInv == ASSUME Init PROVE IInv
<1>1. heap = <<>> /\ heap \in Seq(Timer) /\ Len(heap) = 0
  BY EmptySeq DEF Init
<1>2. Types
  BY <1>1 DEF Init, Types
<1>3. Order
  BY <1>1 DEF Order, Sorted, Single
<1>4. Announced /\ WakesInTime
  BY DEF Init, Announced, WakesInTime
<1> QED
  BY <1>2, <1>3, <1>4 DEF IInv

\* Steps that leave the timers alone and end no wait.
LEMMA OrderUnchanged ==
  ASSUME Types, Order, UNCHANGED timers
  PROVE  heap' \in Seq(Timer) /\ left' \in [Timer -> Int] /\ Order'
BY DEF Types, Order, timers

LEMMA TickStep == ASSUME IInv, Tick PROVE IInv'
<1> USE DEF IInv
<1>1. left' \in [Timer -> Int] /\ Order'
  BY TickKeepsOrder
<1>2. Types'
  BY <1>1 DEF Types, Tick, others
<1>3. Announced'
  BY DEF Announced, Tick, others
<1>4. WakesInTime'
  <2> SUFFICES ASSUME at' = "wait", NEW t \in ToSet(heap)', left'[t] >= 0
               PROVE  waitLeft' <= left'[t]
    BY DEF WakesInTime
  <2>1. /\ heap' = heap /\ at = "wait"
        /\ left' = [u \in Timer |-> IF Started(u) THEN Later(left[u]) ELSE 0]
        /\ waitLeft' = IF waitLeft > 0 THEN waitLeft - 1 ELSE 0
    BY DEF Tick
  <2>2. t \in ToSet(heap) /\ t \in Timer /\ Started(t) /\ left[t] \in Int
    BY <2>1, Indices DEF Started, Types
  <2>3. left'[t] = Later(left[t])
    BY <2>1, <2>2
  <2>4. left[t] >= 0 => waitLeft <= left[t]
    BY <2>1, <2>2 DEF WakesInTime
  <2>5. \A d \in Int, w \in Nat, m \in Nat \ {0} :
          /\ (IF d > -m THEN d - 1 ELSE d) >= 0
          /\ d >= 0 => w <= d
          => (IF w > 0 THEN w - 1 ELSE 0) <= (IF d > -m THEN d - 1 ELSE d)
    OBVIOUS
  <2>6. waitLeft \in Nat /\ MaxElapsed \in Nat \ {0}
    BY RunAssumption DEF Types
  <2> DEFINE d == left[t]
  <2>7. (IF d > -MaxElapsed THEN d - 1 ELSE d) >= 0
    BY <2>3 DEF Later
  <2>8. (IF waitLeft > 0 THEN waitLeft - 1 ELSE 0) <= (IF d > -MaxElapsed THEN d - 1 ELSE d)
    BY <2>2, <2>4, <2>5, <2>6, <2>7
  <2> QED
    BY <2>1, <2>3, <2>8 DEF Later
<1> QED
  BY <1>1, <1>2, <1>3, <1>4

LEMMA UserStep ==
  ASSUME IInv,
         (\E t \in Timer : Stop(t) \/ \E d \in Timeout : Start(t, d)) \/ Return
  PROVE  IInv'
<1> USE DEF IInv
<1>1. heap' \in Seq(Timer) /\ left' \in [Timer -> Int] /\ Order'
  BY StartKeepsOrder, StopKeepsOrder, OrderUnchanged DEF Return
<1>2. /\ UserRuns /\ UNCHANGED <<waitLeft, pipe, queue, pushed>>
      /\ at' = at \/ (at' = IF at = "timer" THEN "timers" ELSE "events")
  BY DEF Start, Stop, Return, round, others
<1>3. Types'
  BY <1>1, <1>2 DEF Types
<1>4. Announced'
  BY <1>2 DEF Announced, UserRuns
<1>5. WakesInTime'
  BY <1>2 DEF WakesInTime, UserRuns
<1> QED
  BY <1>1, <1>3, <1>4, <1>5

LEMMA FetchStep == ASSUME IInv, Fetch PROVE IInv'
<1> USE DEF IInv
<1>1. heap' \in Seq(Timer) /\ left' \in [Timer -> Int] /\ Order'
  BY OrderUnchanged DEF Fetch
<1>2. Types'
  BY <1>1 DEF Types, Fetch
<1>3. Announced' /\ WakesInTime'
  BY DEF Announced, WakesInTime, Fetch
<1> QED
  BY <1>1, <1>2, <1>3

LEMMA TimerFiresStep == ASSUME IInv, TimerFires PROVE IInv'
<1> USE DEF IInv
<1>1. heap' \in Seq(Timer) /\ left' \in [Timer -> Int] /\ Order'
  BY TimerFiresKeepsOrder
<1>2. Types'
  BY <1>1 DEF Types, TimerFires, others
<1>3. Announced' /\ WakesInTime'
  BY DEF Announced, WakesInTime, TimerFires, others
<1> QED
  BY <1>1, <1>2, <1>3

\* The wait is as long as the first timer has left, or shorter, and no other
\* timer has less.
LEMMA TimersOverStep == ASSUME IInv, TimersOver PROVE IInv'
<1> USE DEF IInv
<1>1. heap' \in Seq(Timer) /\ left' \in [Timer -> Int] /\ Order'
  BY OrderUnchanged DEF TimersOver
<1>2. /\ heap' = heap /\ left' = left /\ at = "timers" /\ at' = "wait"
      /\ waitLeft' = CalcTimeout /\ UNCHANGED <<pipe, queue, pushed>>
  BY DEF TimersOver, timers, others
<1>3. MaxWait \in Nat
  BY RunAssumption
<1>4. heap # <<>> => 1 \in 1..Len(heap) /\ left[heap[1]] \in Int
  BY Indices, EmptySeq DEF Types
<1>5. CalcTimeout \in Nat
  BY <1>3, <1>4 DEF CalcTimeout
<1>6. Types'
  BY <1>1, <1>2, <1>5 DEF Types
<1>7. Announced'
  BY <1>2 DEF Announced
<1>8. ASSUME NEW t \in ToSet(heap), left[t] >= 0 PROVE CalcTimeout <= left[t]
  <2>1. PICK i \in 1..Len(heap) : heap[i] = t
    BY Indices DEF Started
  <2>2. left[t] \in Int /\ heap # <<>> /\ 1 \in 1..Len(heap) /\ left[heap[1]] \in Int
    BY <1>4, <2>1, Indices, EmptySeq
  <2>3. left[heap[1]] <= left[t]
    <3>1. CASE i = 1
      BY <2>1, <2>2, <3>1
    <3>2. CASE i # 1
      <4>1. 1 < i
        BY <3>2
      <4> QED
        BY <2>1, <2>2, <4>1 DEF Order, Sorted
    <3> QED
      BY <3>1, <3>2
  <2> QED
    BY <1>3, <1>8, <2>2, <2>3 DEF CalcTimeout
<1>9. WakesInTime'
  BY <1>2, <1>8 DEF WakesInTime
<1> QED
  BY <1>1, <1>6, <1>7, <1>9

LEMMA EventsStep ==
  ASSUME IInv, WaitOver \/ Interrupted \/ Drain \/ Event \/ EventsOver
  PROVE  IInv'
<1> USE DEF IInv
<1>1. heap' \in Seq(Timer) /\ left' \in [Timer -> Int] /\ Order'
  BY OrderUnchanged DEF WaitOver, Interrupted, Drain, Event, EventsOver
<1>2. at' \in {"fetch", "events", "event"} /\ waitLeft' \in Nat
  BY DEF Types, WaitOver, Interrupted, Drain, Event, EventsOver, round
<1>3. pipe' \in Nat
  <2>1. ReadSize \in Nat /\ pipe \in Nat
    BY RunAssumption DEF Types
  <2> QED
    BY <2>1 DEF WaitOver, Interrupted, Drain, Event, EventsOver, others
<1>4. Types'
  BY <1>1, <1>2, <1>3 DEF Types
<1>5. Announced' /\ WakesInTime'
  BY <1>2 DEF Announced, WakesInTime
<1> QED
  BY <1>1, <1>4, <1>5

\* Only what was announced is in the queue and no longer pushed.
LEMMA OutsideStep ==
  ASSUME IInv, Arrives \/ \E p \in Producer : Push(p) \/ Wakeup(p)
  PROVE  IInv'
<1> USE DEF IInv
<1>1. heap' \in Seq(Timer) /\ left' \in [Timer -> Int] /\ Order'
  BY OrderUnchanged DEF Arrives, Push, Wakeup
<1>2. UNCHANGED <<at, heap, left, waitLeft>>
  BY DEF Arrives, Push, Wakeup, timers, round
<1>3. PipeSize \in Nat \ {0} /\ pipe \in Nat
  BY RunAssumption DEF Types
<1>4. Written \in Nat /\ Written > 0
  BY <1>3 DEF Written
<1>5. pipe' = pipe \/ pipe' = Written
  BY DEF Arrives, Push, Wakeup
<1>6. Types'
  BY <1>1, <1>2, <1>3, <1>4, <1>5 DEF Types
<1>7. Announced'
  <2>1. pipe' = Written => pipe' > 0
    BY <1>4
  <2>2. CASE \E p \in Producer : Wakeup(p)
    BY <2>1, <2>2 DEF Wakeup, Announced
  <2>3. CASE Arrives \/ \E p \in Producer : Push(p)
    <3>1. pipe' = pipe /\ queue' \ pushed' \subseteq queue \ pushed
      BY <2>3 DEF Arrives, Push
    <3> QED
      BY <1>2, <3>1 DEF Announced
  <2> QED
    BY <2>2, <2>3
<1>8. WakesInTime'
  BY <1>2 DEF WakesInTime
<1> QED
  BY <1>1, <1>6, <1>7, <1>8

LEMMA NextStep == IInv /\ [Next]_vars => IInv'
<1> SUFFICES ASSUME IInv, [Next]_vars PROVE IInv'
  OBVIOUS
<1>1. CASE Tick
  BY <1>1, TickStep
<1>2. CASE (\E t \in Timer : Stop(t) \/ \E d \in Timeout : Start(t, d)) \/ Return
  BY <1>2, UserStep
<1>3. CASE Fetch
  BY <1>3, FetchStep
<1>4. CASE TimerFires
  BY <1>4, TimerFiresStep
<1>5. CASE TimersOver
  BY <1>5, TimersOverStep
<1>6. CASE WaitOver \/ Interrupted \/ Drain \/ Event \/ EventsOver
  BY <1>6, EventsStep
<1>7. CASE Arrives \/ \E p \in Producer : Push(p) \/ Wakeup(p)
  BY <1>7, OutsideStep
<1>8. CASE UNCHANGED vars
  BY <1>8 DEF IInv, Types, Order, Announced, WakesInTime, vars, timers, round, others
<1> QED
  BY <1>1, <1>2, <1>3, <1>4, <1>5, <1>6, <1>7, <1>8 DEF Next, Run

-----------------------------------------------------------------------------
(* The theorems. *)

\* The timers are in the order in which they expire, once each, and bytes
\* announce what was pushed, in every round.
THEOREM RunInvariance == Spec => []IInv
BY InitIInv, NextStep, PTL DEF Spec

\* The loop never waits while a request whose thread has called sio_wakeup is
\* in the queue, unless a byte is in the pipe: sio_wakeup and
\* _sio_wakeup_callback in simple_io/sio_epoll.c.
THEOREM NoLostWakeupHolds == Spec => []NoLostWakeup
<1>1. IInv => NoLostWakeup
  BY DEF IInv, Announced, NoLostWakeup
<1> QED
  BY <1>1, RunInvariance, PTL

\* The loop never sleeps past the expiry of any timer: _sio_calc_timeout in
\* simple_io/sio_epoll.c looks at the first only.
THEOREM WakesInTimeHolds == Spec => []WakesInTime
<1>1. IInv => WakesInTime
  BY DEF IInv
<1> QED
  BY <1>1, RunInvariance, PTL

-----------------------------------------------------------------------------
(* Datagram sockets.  An address that the poll returned is not free before *)
(* the loop is over: what is live at it is still what was polled.          *)

\* The entries of a poll that the loop is not done with.
Pending == polled \cup ({entry} \ {None})

Polled ==
  /\ \A x \in D!Live : fdOf[x] \in Fd
  /\ \A e \in Pending :
       mem[e.sfd] # "free" /\ (mem[e.sfd] = "live" => fdOf[e.sfd] = e.fd)

DgramIInv == D!TypeOK /\ D!RegistrationsAgree /\ Polled

\* Sockets come to the loop and leave it.
Registers(d, x) ==
  /\ sfd[d] = None /\ mem[x] = "free"
  /\ mem' = [mem EXCEPT ![x] = "live"]
  /\ fdOf' = [fdOf EXCEPT ![x] = d]
  /\ sfd' = [sfd EXCEPT ![d] = x]

Unregisters(d) ==
  /\ sfd[d] # None
  /\ \E m \in {"free", "deleted"} :
       mem' = [mem EXCEPT ![sfd[d]] = m] /\ (is_in_loop => m = "deleted")
  /\ fdOf' = [fdOf EXCEPT ![sfd[d]] = None]
  /\ sfd' = [sfd EXCEPT ![d] = None]

LEMMA PendingType ==
  ASSUME D!TypeOK
  PROVE  \A e \in Pending : e \in D!Entries /\ e.sfd \in Sfd /\ e.fd \in Fd /\ is_in_loop
BY DEF D!TypeOK, D!LoopTypeOK, Pending, D!Entries

LEMMA RegistersKeeps ==
  ASSUME DgramIInv, NEW d \in Fd, NEW x \in Sfd, Registers(d, x),
         UNCHANGED <<polled, entry>>, open \subseteq open', d \in open'
  PROVE  D!RegistrationsAgree' /\ Polled'
<1>1. /\ mem \in [Sfd -> {"free", "live", "deleted"}] /\ fdOf \in [Sfd -> Fd \cup {None}]
      /\ sfd \in [Fd -> Sfd \cup {None}] /\ None \notin Fd /\ None \notin Sfd
  BY DgramAssumption DEF DgramAssumption, D!DgramAssumption, DgramIInv, D!TypeOK, D!LoopTypeOK, D!Dgram
<1>2. /\ sfd[d] = None /\ mem[x] = "free"
      /\ mem'[x] = "live" /\ fdOf'[x] = d /\ sfd'[d] = x
      /\ \A y \in Sfd : y # x => mem'[y] = mem[y] /\ fdOf'[y] = fdOf[y]
      /\ \A c \in Fd : c # d => sfd'[c] = sfd[c]
  BY <1>1 DEF Registers
<1>3. ASSUME NEW c \in Fd, sfd'[c] # None
      PROVE  c \in open' /\ mem'[sfd'[c]] = "live" /\ fdOf'[sfd'[c]] = c
  <2>1. CASE c = d
    BY <1>2, <2>1
  <2>2. CASE c # d
    <3>1. sfd'[c] = sfd[c] /\ sfd[c] \in Sfd /\ c \in open /\ mem[sfd[c]] = "live" /\ fdOf[sfd[c]] = c
      BY <1>1, <1>2, <1>3, <2>2 DEF DgramIInv, D!RegistrationsAgree, D!Dgram
    <3>2. sfd[c] # x
      BY <1>2, <3>1
    <3> QED
      BY <1>2, <3>1, <3>2
  <2> QED
    BY <2>1, <2>2
<1>4. ASSUME NEW y \in Sfd, mem'[y] = "live" PROVE fdOf'[y] \in Fd /\ sfd'[fdOf'[y]] = y
  <2>1. CASE y = x
    BY <1>2, <2>1
  <2>2. CASE y # x
    <3>1. mem[y] = "live" /\ fdOf'[y] = fdOf[y] /\ fdOf[y] \in Fd /\ sfd[fdOf[y]] = y
      BY <1>2, <1>4, <2>2 DEF DgramIInv, Polled, D!RegistrationsAgree, D!Live
    <3>2. fdOf[y] # d
      BY <1>1, <1>2, <3>1
    <3> QED
      BY <1>2, <3>1, <3>2
  <2> QED
    BY <2>1, <2>2
<1>5. ASSUME NEW e \in Pending
      PROVE  mem'[e.sfd] # "free" /\ (mem'[e.sfd] = "live" => fdOf'[e.sfd] = e.fd)
  <2>1. e.sfd \in Sfd /\ mem[e.sfd] # "free" /\ (mem[e.sfd] = "live" => fdOf[e.sfd] = e.fd)
    BY PendingType DEF DgramIInv, Polled
  <2> QED
    BY <1>2, <2>1
<1>6. Pending' = Pending
  BY DEF Pending
<1> QED
  BY <1>3, <1>4, <1>5, <1>6 DEF D!RegistrationsAgree, Polled, D!Live, D!Dgram

LEMMA UnregistersKeeps ==
  ASSUME DgramIInv, NEW d \in Fd, Unregisters(d),
         UNCHANGED <<polled, entry>>, open \ {d} \subseteq open'
  PROVE  D!RegistrationsAgree' /\ Polled'
<1>1. /\ mem \in [Sfd -> {"free", "live", "deleted"}] /\ fdOf \in [Sfd -> Fd \cup {None}]
      /\ sfd \in [Fd -> Sfd \cup {None}] /\ None \notin Fd /\ None \notin Sfd
  BY DgramAssumption DEF DgramAssumption, D!DgramAssumption, DgramIInv, D!TypeOK, D!LoopTypeOK, D!Dgram
<1>2. PICK x \in Sfd : x = sfd[d]
  BY <1>1 DEF Unregisters
<1>3. /\ mem[x] = "live" /\ fdOf[x] = d /\ sfd'[d] = None
      /\ mem'[x] # "live" /\ (is_in_loop => mem'[x] # "free")
      /\ \A y \in Sfd : y # x => mem'[y] = mem[y] /\ fdOf'[y] = fdOf[y]
      /\ \A c \in Fd : c # d => sfd'[c] = sfd[c]
  <2>1. mem[x] = "live" /\ fdOf[x] = d
    BY <1>1, <1>2 DEF DgramIInv, D!RegistrationsAgree, D!Dgram
  <2> QED
    BY <1>1, <1>2, <2>1 DEF Unregisters
<1>4. ASSUME NEW c \in Fd, sfd'[c] # None
      PROVE  c \in open' /\ mem'[sfd'[c]] = "live" /\ fdOf'[sfd'[c]] = c
  <2>1. c # d
    BY <1>3, <1>4
  <2>2. sfd'[c] = sfd[c] /\ sfd[c] \in Sfd /\ c \in open /\ mem[sfd[c]] = "live" /\ fdOf[sfd[c]] = c
    BY <1>1, <1>3, <1>4, <2>1 DEF DgramIInv, D!RegistrationsAgree, D!Dgram
  <2>3. sfd[c] # x
    BY <1>3, <2>1, <2>2
  <2> QED
    BY <1>3, <2>1, <2>2, <2>3
<1>5. ASSUME NEW y \in Sfd, mem'[y] = "live" PROVE fdOf'[y] \in Fd /\ sfd'[fdOf'[y]] = y
  <2>1. y # x
    BY <1>3, <1>5
  <2>2. mem[y] = "live" /\ fdOf'[y] = fdOf[y] /\ fdOf[y] \in Fd /\ sfd[fdOf[y]] = y
    BY <1>3, <1>5, <2>1 DEF DgramIInv, Polled, D!RegistrationsAgree, D!Live
  <2>3. fdOf[y] # d
    BY <1>2, <2>1, <2>2
  <2> QED
    BY <1>3, <2>2, <2>3
<1>6. ASSUME NEW e \in Pending
      PROVE  mem'[e.sfd] # "free" /\ (mem'[e.sfd] = "live" => fdOf'[e.sfd] = e.fd)
  <2>1. /\ e.sfd \in Sfd /\ mem[e.sfd] # "free" /\ (mem[e.sfd] = "live" => fdOf[e.sfd] = e.fd)
        /\ is_in_loop
    BY PendingType DEF DgramIInv, Polled
  <2> QED
    BY <1>3, <2>1
<1>7. Pending' = Pending
  BY DEF Pending
<1> QED
  BY <1>4, <1>5, <1>6, <1>7 DEF D!RegistrationsAgree, Polled, D!Live, D!Dgram

LEMMA AddKeeps ==
  ASSUME DgramIInv, NEW d \in Fd, D!Register(d), sfd[d] = None,
         open' = open \cup {d}, UNCHANGED <<held, runs>>
  PROVE  DgramIInv'
<1>1. PICK x \in Sfd : D!Add(x, d, {"read"}) /\ sfd' = [sfd EXCEPT ![d] = x]
  BY DEF D!Register
<1>2. D!RegistrationsAgree' /\ Polled'
  BY <1>1, RegistersKeeps DEF D!Add, Registers
<1>3. D!TypeOK'
  BY <1>1 DEF DgramIInv, D!TypeOK, D!LoopTypeOK, D!Add, D!Dgram
<1> QED
  BY <1>2, <1>3 DEF DgramIInv

LEMMA DelKeeps ==
  ASSUME DgramIInv, NEW d \in Fd, sfd[d] # None, D!Del(sfd[d]), sfd' = [sfd EXCEPT ![d] = None],
         open' \in {open, open \ {d}}, held' \in {held, [held EXCEPT ![d] = <<>>]}, UNCHANGED runs
  PROVE  DgramIInv'
<1>1. D!RegistrationsAgree' /\ Polled'
  <2>1. Unregisters(d)
    BY DEF D!Del, Unregisters
  <2> QED
    BY <2>1, UnregistersKeeps DEF D!Del
<1>2. D!TypeOK'
  <2>1. D!TypeOK /\ D!LoopTypeOK
    BY DEF DgramIInv, D!TypeOK
  <2>2. sfd[d] \in Sfd
    BY <2>1 DEF D!TypeOK, D!Dgram
  <2>3. D!LoopTypeOK'
    BY <2>1, <2>2 DEF D!LoopTypeOK, D!Del
  <2>4. held' \in [D!Dgram -> Seq(D!Datagram)]
    <3>1. <<>> \in Seq(D!Datagram)
      OBVIOUS
    <3> QED
      BY <2>1, <3>1 DEF D!TypeOK
  <2> QED
    BY <2>1, <2>2, <2>3, <2>4 DEF D!TypeOK, D!Dgram
<1> QED
  BY <1>1, <1>2 DEF DgramIInv

LEMMA UserKeeps ==
  ASSUME DgramIInv, NEW d \in D!Dgram,
         D!Open(d) \/ D!Close(d) \/ D!Detach(d) \/ D!Attach(d) \/ D!Arrives(d)
  PROVE  DgramIInv'
<1>1. d \in Fd
  BY DEF D!Dgram
<1>2. CASE D!Open(d)
  <2>1. sfd[d] = None
    BY <1>2 DEF D!Open, DgramIInv, D!RegistrationsAgree
  <2> QED
    BY <1>1, <1>2, <2>1, AddKeeps DEF D!Open
<1>3. CASE D!Close(d)
  <2>1. CASE sfd[d] # None
    BY <1>1, <1>3, <2>1, DelKeeps DEF D!Close
  <2>2. CASE sfd[d] = None
    <3>1. /\ UNCHANGED <<mem, fdOf, watch, is_in_loop, polled, entry, runs>>
          /\ sfd' = sfd /\ open' = open \ {d} /\ held' = [held EXCEPT ![d] = <<>>]
      BY <1>3, <2>2 DEF D!Close, D!loopVars, DgramIInv, D!TypeOK
    <3>2. D!TypeOK'
      BY <3>1 DEF DgramIInv, D!TypeOK, D!LoopTypeOK
    <3>3. D!RegistrationsAgree' /\ Polled'
      BY <2>2, <3>1 DEF DgramIInv, D!RegistrationsAgree, Polled, Pending, D!Live
    <3> QED
      BY <3>2, <3>3 DEF DgramIInv
  <2> QED
    BY <2>1, <2>2
<1>4. CASE D!Detach(d)
  BY <1>1, <1>4, DelKeeps DEF D!Detach
<1>5. CASE D!Attach(d)
  <2>1. open' = open \cup {d}
    BY <1>5 DEF D!Attach
  <2> QED
    BY <1>1, <1>5, <2>1, AddKeeps DEF D!Attach
<1>6. CASE D!Arrives(d)
  <2>1. UNCHANGED <<mem, fdOf, watch, is_in_loop, polled, entry, open, sfd, runs>>
    BY <1>6 DEF D!Arrives, D!loopVars
  <2>2. held' \in [D!Dgram -> Seq(D!Datagram)]
    BY <1>6 DEF D!Arrives, DgramIInv, D!TypeOK
  <2> QED
    BY <2>1, <2>2 DEF DgramIInv, D!TypeOK, D!LoopTypeOK, D!RegistrationsAgree, Polled, Pending, D!Live
<1> QED
  BY <1>2, <1>3, <1>4, <1>5, <1>6

\* A poll returns what is live.
LEMMA PollKeeps ==
  ASSUME DgramIInv, D!Poll, UNCHANGED <<open, sfd, held, runs>>
  PROVE  DgramIInv'
<1>1. /\ polled = {} /\ entry = None /\ is_in_loop' = TRUE
      /\ UNCHANGED <<mem, fdOf, watch, entry>>
  BY DEF D!Poll, DgramIInv, D!TypeOK, D!LoopTypeOK
<1>2. PICK R \in (SUBSET D!Live) \ {{}} :
        \E evs \in [R -> (SUBSET {"read", "write", "error"}) \ {{}}] :
          polled' = {[sfd |-> x, fd |-> fdOf[x], events |-> evs[x]] : x \in R}
  BY DEF D!Poll
<1>3. PICK evs \in [R -> (SUBSET {"read", "write", "error"}) \ {{}}] :
        polled' = {[sfd |-> x, fd |-> fdOf[x], events |-> evs[x]] : x \in R}
  BY <1>2
<1>4. \A x \in R : x \in Sfd /\ mem[x] = "live" /\ fdOf[x] \in Fd
  BY <1>2 DEF D!Live, DgramIInv, Polled
<1>5. \A e \in polled' : e \in D!Entries /\ mem[e.sfd] = "live" /\ fdOf[e.sfd] = e.fd
  BY <1>3, <1>4 DEF D!Entries
<1>6. D!TypeOK'
  BY <1>1, <1>5 DEF DgramIInv, D!TypeOK, D!LoopTypeOK
<1>7. Pending' = polled'
  BY <1>1 DEF Pending
<1>8. D!RegistrationsAgree' /\ Polled'
  BY <1>1, <1>5, <1>7 DEF DgramIInv, D!RegistrationsAgree, Polled, D!Live
<1> QED
  BY <1>6, <1>8 DEF DgramIInv

\* What the loop does to its entries.
LEMMA EntriesKeep ==
  ASSUME DgramIInv, UNCHANGED <<mem, fdOf, watch, is_in_loop, open, sfd>>, D!TypeOK',
         \A e \in Pending' : \E c \in Pending : c.sfd = e.sfd /\ c.fd = e.fd
  PROVE  DgramIInv'
BY DEF DgramIInv, D!RegistrationsAgree, Polled, D!Live

LEMMA ConsumeKeeps ==
  ASSUME DgramIInv, D!Consume, D!Upcoming # None,
         UNCHANGED <<mem, fdOf, watch, is_in_loop, polled, open, sfd>>,
         held' \in [D!Dgram -> Seq(D!Datagram)], runs' \in {"run", "callback"}
  PROVE  DgramIInv'
<1>1. entry \in D!Entries /\ entry # None /\ is_in_loop
  BY DEF D!Upcoming, DgramIInv, D!TypeOK, D!LoopTypeOK
<1>2. entry' \in D!Entries /\ entry'.sfd = entry.sfd /\ entry'.fd = entry.fd
  BY <1>1 DEF D!Consume, D!Entries
<1>3. D!TypeOK'
  BY <1>1, <1>2 DEF DgramIInv, D!TypeOK, D!LoopTypeOK
<1>4. \A e \in Pending' : \E c \in Pending : c.sfd = e.sfd /\ c.fd = e.fd
  BY <1>1, <1>2 DEF Pending
<1> QED
  BY <1>3, <1>4, EntriesKeep

LEMMA LoopKeeps ==
  ASSUME DgramIInv, D!Loop
  PROVE  DgramIInv'
<1>1. UNCHANGED <<open, sfd, held, runs>>
  BY DEF D!Loop, D!dgramVars
<1>2. CASE D!PollReady
  BY <1>1, <1>2, PollKeeps DEF D!PollReady
<1>3. CASE D!Pick
  <2>1. PICK e \in polled : entry' = e /\ polled' = polled \ {e}
    BY <1>3 DEF D!Pick
  <2>2. e \in D!Entries /\ UNCHANGED <<mem, fdOf, watch, is_in_loop>> /\ is_in_loop
    BY <1>3 DEF D!Pick, DgramIInv, D!TypeOK, D!LoopTypeOK
  <2>3. D!TypeOK'
    BY <1>1, <2>1, <2>2 DEF DgramIInv, D!TypeOK, D!LoopTypeOK
  <2>4. Pending' \subseteq Pending
    BY <2>1 DEF Pending
  <2> QED
    BY <1>1, <2>2, <2>3, <2>4, EntriesKeep
<1>4. CASE D!Skip
  <2>1. /\ D!Consume /\ D!Upcoming # None
        /\ UNCHANGED <<mem, fdOf, watch, is_in_loop, polled>>
    BY <1>4 DEF D!Skip
  <2>2. held' \in [D!Dgram -> Seq(D!Datagram)] /\ runs' \in {"run", "callback"}
    BY <1>1 DEF DgramIInv, D!TypeOK
  <2> QED
    BY <1>1, <2>1, <2>2, ConsumeKeeps
<1>5. CASE D!Leave
  <2>1. entry' = None /\ UNCHANGED <<mem, fdOf, watch, is_in_loop, polled>>
    BY <1>5 DEF D!Leave
  <2>2. D!TypeOK'
    BY <1>1, <2>1 DEF DgramIInv, D!TypeOK, D!LoopTypeOK
  <2>3. Pending' \subseteq Pending
    BY <2>1 DEF Pending
  <2> QED
    BY <1>1, <2>1, <2>2, <2>3, EntriesKeep
<1>6. CASE D!LoopEnd
  <2>1. /\ polled = {} /\ entry = None /\ is_in_loop' = FALSE
        /\ mem' = [x \in Sfd |-> IF mem[x] = "deleted" THEN "free" ELSE mem[x]]
        /\ UNCHANGED <<fdOf, watch, polled, entry>>
    BY <1>6 DEF D!LoopEnd
  <2>2. D!TypeOK'
    BY <1>1, <2>1 DEF DgramIInv, D!TypeOK, D!LoopTypeOK
  <2>3. \A x \in Sfd : mem'[x] = "live" <=> mem[x] = "live"
    BY <2>1
  <2>4. Pending' = {}
    BY <2>1 DEF Pending
  <2>5. D!RegistrationsAgree'
    <3>1. \A c \in D!Dgram : sfd[c] # None => sfd[c] \in Sfd
      BY DEF DgramIInv, D!TypeOK
    <3> QED
      BY <1>1, <2>1, <2>3, <3>1 DEF DgramIInv, D!RegistrationsAgree, D!Live
  <2>6. Polled'
    BY <1>1, <2>1, <2>3, <2>4 DEF DgramIInv, Polled, D!Live
  <2> QED
    BY <2>2, <2>5, <2>6 DEF DgramIInv
<1> QED
  BY <1>2, <1>3, <1>4, <1>5, <1>6 DEF D!Loop

LEMMA HandOutKeeps ==
  ASSUME DgramIInv, D!Read \/ D!Ignore
  PROVE  DgramIInv'
<1>1. PICK ev \in {"read", "write", "error"} : D!Handled(ev)
  BY DEF D!Read, D!Ignore
<1>2. /\ D!Consume /\ D!Upcoming # None
      /\ UNCHANGED <<mem, fdOf, watch, is_in_loop, polled, open, sfd>>
  BY <1>1 DEF D!Handled, D!HandOut, D!Due
<1>3. held' \in [D!Dgram -> Seq(D!Datagram)] /\ runs' \in {"run", "callback"}
  <2>1. CASE D!Ignore
    BY <2>1 DEF D!Ignore, DgramIInv, D!TypeOK
  <2>2. CASE D!Read /\ held[entry.fd] = <<>>
    BY <2>2 DEF D!Read, DgramIInv, D!TypeOK
  <2>3. CASE D!Read /\ held[entry.fd] # <<>>
    <3>1. entry.fd \in D!Dgram
      BY <1>2 DEF D!Upcoming, DgramIInv, D!TypeOK, D!LoopTypeOK, D!Entries, D!Dgram
    <3>2. /\ held' = [held EXCEPT ![entry.fd] = Tail(@)]
          /\ runs' = IF Head(held[entry.fd]) = "data" THEN "callback" ELSE "run"
      BY <2>3 DEF D!Read
    <3>3. held \in [D!Dgram -> Seq(D!Datagram)] /\ held[entry.fd] \in Seq(D!Datagram)
      BY <3>1 DEF DgramIInv, D!TypeOK
    <3>4. Tail(held[entry.fd]) \in Seq(D!Datagram)
      BY <2>3, <3>3
    <3> QED
      BY <3>1, <3>2, <3>3, <3>4
  <2> QED
    BY <2>1, <2>2, <2>3
<1> QED
  BY <1>2, <1>3, ConsumeKeeps

LEMMA DgramNext == DgramIInv /\ [D!Next]_dgramVars => DgramIInv'
<1> SUFFICES ASSUME DgramIInv, [D!Next]_dgramVars PROVE DgramIInv'
  OBVIOUS
<1>1. CASE UNCHANGED dgramVars
  BY <1>1 DEF dgramVars, DgramIInv, D!TypeOK, D!LoopTypeOK, D!RegistrationsAgree, Polled,
              Pending, D!Live
<1>2. CASE D!Loop
  BY <1>2, LoopKeeps
<1>3. CASE D!Read \/ D!Ignore
  BY <1>3, HandOutKeeps
<1>4. CASE D!Return
  <2>1. UNCHANGED <<mem, fdOf, watch, is_in_loop, polled, entry, open, sfd, held>> /\ runs' = "run"
    BY <1>4 DEF D!Return, D!loopVars, D!dgramVars
  <2> QED
    BY <2>1 DEF DgramIInv, D!TypeOK, D!LoopTypeOK, D!RegistrationsAgree, Polled, Pending, D!Live
<1>5. CASE \E d \in D!Dgram : \/ D!Open(d) \/ D!Close(d) \/ D!Detach(d)
                              \/ D!Attach(d) \/ D!Arrives(d)
  BY <1>5, UserKeeps
<1> QED
  BY <1>1, <1>2, <1>3, <1>4, <1>5 DEF D!Next, D!Run

LEMMA DgramInit == D!Init => DgramIInv
<1>1. \A d \in D!Dgram : <<>> \in Seq(D!Datagram)
  OBVIOUS
<1> QED
  BY <1>1 DEF D!Init, D!LoopInit, DgramIInv, D!TypeOK, D!LoopTypeOK, D!RegistrationsAgree,
         Polled, Pending, D!Live

\* No datagram event reaches a socket that it was not polled for, and sockets
\* and registrations are each other's, for any sockets and addresses.
THEOREM DgramEventsHolds == SystemSpec => []DgramEvents
<1>1. SystemInit => DgramIInv
  BY DgramInit DEF SystemInit
<1>2. DgramIInv /\ [SystemNext]_<<component, vars, dgramVars>> => DgramIInv'
  <2>1. [SystemNext]_<<component, vars, dgramVars>> => [D!Next]_dgramVars
    BY DEF SystemNext, RoundStep, DgramStep
  <2> QED
    BY <2>1, DgramNext
<1>3. DgramIInv => DgramEvents
  <2> SUFFICES ASSUME DgramIInv, D!Due
               PROVE  entry.fd \in open /\ sfd[entry.fd] = entry.sfd
    BY DEF DgramIInv, DgramEvents, D!EventsReachTheirDgram
  <2>1. entry \in D!Entries /\ entry # None /\ mem[entry.sfd] = "live"
    BY DEF D!Due, D!Upcoming, DgramIInv, D!TypeOK, D!LoopTypeOK
  <2>2. entry.sfd \in Sfd /\ entry.fd \in Fd
    BY <2>1 DEF D!Entries
  <2>3. fdOf[entry.sfd] = entry.fd
    BY <2>1 DEF DgramIInv, Polled, Pending
  <2>4. sfd[entry.fd] = entry.sfd
    BY <2>1, <2>2, <2>3 DEF DgramIInv, D!RegistrationsAgree, D!Live
  <2>5. sfd[entry.fd] # None
    BY <2>2, <2>4, DgramAssumption DEF DgramAssumption, D!DgramAssumption
  <2> QED
    BY <2>2, <2>4, <2>5 DEF DgramIInv, D!RegistrationsAgree, D!Dgram
<1> QED
  BY <1>1, <1>2, <1>3, PTL DEF SystemSpec
=============================================================================
