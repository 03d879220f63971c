---------------------------- MODULE MapsProofs -----------------------------
(***************************************************************************)
(* Shash for every set of keys, every hash function and all sizes: while   *)
(* buckets move, a lookup finds every key that is there; the size counts   *)
(* the keys; an iteration repeats nothing, and misses nothing unless it    *)
(* began during a rehash.                                                  *)
(*                                                                         *)
(* An iterator stops the rehash, so the order in which buckets are visited *)
(* is fixed as long as there is one: what it has handed out is behind it   *)
(* and what it has not is ahead.                                           *)
(*                                                                         *)
(* Slist for every finite set of keys and every height: the walk of the    *)
(* search and the search are recursive functions, whose values are found   *)
(* by exhibiting a solution of their equations and showing that there is   *)
(* no other: a least counterexample cannot be.  With them, an insertion    *)
(* and an erasure say which link of which node changes on which level.     *)
(***************************************************************************)
EXTENDS MCMaps, FiniteSetTheorems, WellFoundedInduction, TLAPS

\* Every key of t is in the chain in which it is looked up, and only there.
Placed(t) ==
  \A k \in Key, i \in {0, 1}, b \in Bucket :
    k \in t.buckets[i][b] =>
      b < t.num[i] /\ Place(t, k) = [index |-> i, bucket |-> b]

Good(t) ==
  /\ t \in Tables /\ t.num[0] # 0
  /\ Rehashing(t) => t.rehash < t.num[0]
  /\ Placed(t)

Position == [key : Key \cup {None}, index : {0, 1}, bucket : Bucket]

\* The keys of t from a position on.
From(t, p) ==
  {k \in KeysOf(t) :
     /\ p.key # None
     /\ \/ Place(t, k).index > p.index
        \/ Place(t, k).index = p.index /\ Place(t, k).bucket > p.bucket
        \/ /\ Place(t, k).index = p.index /\ Place(t, k).bucket = p.bucket
           /\ k >= p.key}

\* A position is on a node of t.
Live(t, p) == p \in Position /\ (p.key # None => p.key \in Chain(t, p))

\* What is handed out is there and behind the iterator; what is still to be
\* handed out is ahead of it.
Iterating ==
  /\ seen \subseteq keys /\ seen \cap Ahead = {}
  /\ ~midway => todo \subseteq Ahead
  /\ ~midway /\ iterator.key # None => ~Rehashing(tables)

IInv ==
  /\ TypeOK /\ Good(tables)
  /\ SizeCounts /\ Live(tables, iterator) /\ Iterating

-----------------------------------------------------------------------------
(* Tables. *)

LEMMA Sizes ==
  /\ MaxBuckets \in Nat \ {0} /\ Bucket = 0..MaxBuckets - 1
  /\ \A k \in Key : k \in Nat /\ k # None /\ Hash[k] \in Nat
BY ShashAssumption DEF ShashAssumption, Bucket

LEMMA Mod ==
  ASSUME NEW a \in Nat, NEW n \in Nat \ {0}
  PROVE  a % n \in 0..n - 1
OBVIOUS

LEMMA Parts ==
  ASSUME NEW t \in Tables
  PROVE  /\ t.num[0] \in Nat /\ t.num[1] \in Nat /\ t.rehash \in Nat
         /\ t.num[0] <= MaxBuckets /\ t.num[1] <= MaxBuckets
         /\ \A i \in {0, 1}, b \in Bucket : t.buckets[i][b] \subseteq Key
<1>1. /\ t.num \in [{0, 1} -> 0..MaxBuckets] /\ t.rehash \in 0..MaxBuckets
      /\ t.buckets \in [{0, 1} -> [Bucket -> SUBSET Key]]
  BY DEF Tables
<1>2. MaxBuckets \in Nat
  BY Sizes
<1>3. t.num[0] \in 0..MaxBuckets /\ t.num[1] \in 0..MaxBuckets
  BY <1>1
<1>4. \A i \in {0, 1}, b \in Bucket : t.buckets[i][b] \subseteq Key
  BY <1>1
<1> QED
  BY <1>1, <1>2, <1>3, <1>4

\* A place is a bucket in use.
LEMMA PlaceType ==
  ASSUME NEW t, Good(t), NEW k \in Key
  PROVE  /\ Place(t, k).index \in {0, 1} /\ Place(t, k).bucket \in Bucket
         /\ Place(t, k).bucket < t.num[Place(t, k).index]
         /\ Place(t, k) = [index |-> Place(t, k).index, bucket |-> Place(t, k).bucket]
         /\ Place(t, k).index = 1 => Rehashing(t)
<1>1. /\ t.num[0] \in Nat \ {0} /\ t.num[1] \in Nat
      /\ t.num[0] <= MaxBuckets /\ t.num[1] <= MaxBuckets
  BY Parts DEF Good
<1>2. Hash[k] \in Nat /\ Bucket = 0..MaxBuckets - 1 /\ MaxBuckets \in Nat
  BY Sizes
<1>3. Hash[k] % t.num[0] \in 0..t.num[0] - 1
  BY <1>1, <1>2, Mod
<1>4. Hash[k] % t.num[0] \in Bucket /\ Hash[k] % t.num[0] < t.num[0]
  BY <1>1, <1>2, <1>3
<1>5. CASE Rehashing(t) /\ Hash[k] % t.num[0] < t.rehash
  <2>1. t.num[1] \in Nat \ {0}
    BY <1>1, <1>5 DEF Rehashing
  <2>2. Hash[k] % t.num[1] \in 0..t.num[1] - 1
    BY <1>2, <2>1, Mod
  <2>3. Hash[k] % t.num[1] \in Bucket /\ Hash[k] % t.num[1] < t.num[1]
    BY <1>1, <1>2, <2>1, <2>2
  <2>4. Place(t, k) = [index |-> 1, bucket |-> Hash[k] % t.num[1]]
    BY <1>5 DEF Place
  <2> QED
    BY <1>5, <2>3, <2>4
<1>6. CASE ~(Rehashing(t) /\ Hash[k] % t.num[0] < t.rehash)
  <2>1. Place(t, k) = [index |-> 0, bucket |-> Hash[k] % t.num[0]]
    BY <1>6 DEF Place
  <2> QED
    BY <1>4, <2>1
<1> QED
  BY <1>5, <1>6

\* A lookup finds what is there.
LEMMA HasSound ==
  ASSUME NEW t, Good(t), NEW k \in Key
  PROVE  Has(t, k) <=> k \in KeysOf(t)
<1>1. Has(t, k) => k \in KeysOf(t)
  BY PlaceType DEF Has, Chain, KeysOf
<1>2. k \in KeysOf(t) => Has(t, k)
  BY DEF Good, Placed, Has, Chain, KeysOf
<1> QED
  BY <1>1, <1>2

LEMMA StartedGood ==
  ASSUME NEW t, Good(t), num_node \in Nat
  PROVE  Good(Started(t)) /\ KeysOf(Started(t)) = KeysOf(t)
<1>1. CASE Started(t) = t
  BY <1>1
<1>2. CASE ~Rehashing(t) /\ 2 * t.num[0] <= MaxBuckets
           /\ Started(t) = [t EXCEPT !.num[1] = 2 * t.num[0], !.rehash = 0]
  <2> DEFINE u == [t EXCEPT !.num[1] = 2 * t.num[0], !.rehash = 0]
  <2>1. /\ t \in Tables /\ t.num[0] \in Nat \ {0} /\ MaxBuckets \in Nat
        /\ t.num[0] <= MaxBuckets
    BY Parts, Sizes DEF Good
  <2>2. 2 * t.num[0] \in 0..MaxBuckets /\ 0 \in 0..MaxBuckets /\ 2 * t.num[0] # 0
    BY <1>2, <2>1
  <2>3. /\ u.buckets = t.buckets /\ u.rehash = 0
        /\ u.num = [t.num EXCEPT ![1] = 2 * t.num[0]]
    BY <2>1 DEF Tables
  <2>4. u \in Tables
    BY <2>1, <2>2 DEF Tables
  <2>5. u.num[0] = t.num[0] /\ u.num[1] = 2 * t.num[0]
    BY <2>1, <2>3 DEF Tables
  <2> HIDE DEF u
  <2>6. ASSUME NEW k \in Key PROVE Place(u, k) = Place(t, k)
    <3>1. Hash[k] % t.num[0] \in 0..t.num[0] - 1
      BY <2>1, Mod, Sizes
    <3>2. ~(Hash[k] % t.num[0] < 0)
      BY <3>1, <2>1
    <3> QED
      BY <1>2, <2>3, <2>5, <3>2 DEF Place
  <2>7. ASSUME NEW k \in Key, NEW i \in {0, 1}, NEW b \in Bucket, k \in u.buckets[i][b]
        PROVE  b < u.num[i] /\ Place(u, k) = [index |-> i, bucket |-> b]
    <3>1. b < t.num[i] /\ Place(t, k) = [index |-> i, bucket |-> b]
      BY <2>3, <2>7 DEF Good, Placed
    <3>2. i = 0
      BY <1>2, <3>1, PlaceType
    <3> QED
      BY <2>5, <2>6, <3>1, <3>2
  <2>8. Good(u)
    BY <2>1, <2>3, <2>4, <2>5, <2>7 DEF Good, Placed
  <2>9. KeysOf(u) = KeysOf(t)
    BY <2>3 DEF KeysOf
  <2> QED
    BY <1>2, <2>8, <2>9 DEF u
<1> QED
  BY <1>1, <1>2 DEF Started

\* A bucket moves: its keys go where Place looks for them from now on, and the
\* table that is left has no key below the cursor.
LEMMA MovedPlaced ==
  ASSUME NEW t, Good(t), Rehashing(t)
  PROVE  /\ Moved(t) \in Tables /\ Placed(Moved(t)) /\ KeysOf(Moved(t)) = KeysOf(t)
         /\ Moved(t).num = t.num /\ Moved(t).rehash = t.rehash + 1
<1> DEFINE u == Moved(t)
           r == t.rehash
<1>1. /\ t \in Tables /\ t.num[0] \in Nat \ {0} /\ t.num[1] \in Nat \ {0} /\ r \in Nat
      /\ t.num[0] <= MaxBuckets /\ t.num[1] <= MaxBuckets /\ r < t.num[0]
      /\ MaxBuckets \in Nat /\ Bucket = 0..MaxBuckets - 1
      /\ \A i \in {0, 1}, b \in Bucket : t.buckets[i][b] \subseteq Key
  BY Parts, Sizes DEF Good, Rehashing
<1>2. r \in Bucket /\ r + 1 \in 0..MaxBuckets
  BY <1>1
<1>3. u = [t EXCEPT !.buckets = [i \in {0, 1} |-> [b \in Bucket |->
             IF i = 0 THEN IF b = r THEN {} ELSE t.buckets[0][b]
             ELSE t.buckets[1][b] \cup {k \in t.buckets[0][r] : Hash[k] % t.num[1] = b}]],
           !.rehash = r + 1]
  BY DEF Moved
<1>4. /\ u.num = t.num /\ u.rehash = r + 1
      /\ \A b \in Bucket :
           /\ u.buckets[0][b] = IF b = r THEN {} ELSE t.buckets[0][b]
           /\ u.buckets[1][b] =
                t.buckets[1][b] \cup {k \in t.buckets[0][r] : Hash[k] % t.num[1] = b}
  BY <1>1, <1>3 DEF Tables
<1>5. u \in Tables
  <2>1. [i \in {0, 1} |-> [b \in Bucket |->
             IF i = 0 THEN IF b = r THEN {} ELSE t.buckets[0][b]
             ELSE t.buckets[1][b] \cup {k \in t.buckets[0][r] : Hash[k] % t.num[1] = b}]]
          \in [{0, 1} -> [Bucket -> SUBSET Key]]
    BY <1>1, <1>2
  <2> QED
    BY <1>1, <1>2, <1>3, <2>1 DEF Tables
<1> HIDE DEF u, r
<1>6. ASSUME NEW k \in Key
      PROVE  /\ Hash[k] % t.num[0] \in 0..t.num[0] - 1 /\ Hash[k] % t.num[1] \in 0..t.num[1] - 1
             /\ Hash[k] % t.num[1] \in Bucket
             /\ Place(t, k) = IF Hash[k] % t.num[0] < r
                                THEN [index |-> 1, bucket |-> Hash[k] % t.num[1]]
                                ELSE [index |-> 0, bucket |-> Hash[k] % t.num[0]]
             /\ Place(u, k) = IF Hash[k] % t.num[0] < r + 1
                                THEN [index |-> 1, bucket |-> Hash[k] % t.num[1]]
                                ELSE [index |-> 0, bucket |-> Hash[k] % t.num[0]]
  <2>1. Hash[k] % t.num[0] \in 0..t.num[0] - 1 /\ Hash[k] % t.num[1] \in 0..t.num[1] - 1
    BY <1>1, Mod, Sizes
  <2>2. Hash[k] % t.num[1] \in Bucket
    BY <1>1, <2>1
  <2> QED
    BY <1>4, <2>1, <2>2 DEF Place, Rehashing, r
<1>7. \A k \in Key, i \in {0, 1}, b \in Bucket :
        k \in t.buckets[i][b] => b < t.num[i] /\ Place(t, k) = [index |-> i, bucket |-> b]
  BY DEF Good, Placed
<1>8. ASSUME NEW k \in Key, NEW b \in Bucket, k \in u.buckets[0][b]
      PROVE  b < t.num[0] /\ Place(u, k) = [index |-> 0, bucket |-> b]
  <2>1. b # r /\ k \in t.buckets[0][b]
    BY <1>4, <1>8
  <2>2. b < t.num[0] /\ Place(t, k) = [index |-> 0, bucket |-> b]
    BY <1>7, <2>1
  <2>3. ~(Hash[k] % t.num[0] < r) /\ Hash[k] % t.num[0] = b
    BY <1>6, <2>2
  <2>4. Hash[k] % t.num[0] \in Nat /\ r \in Nat
    BY <1>1, <1>6
  <2>5. ~(Hash[k] % t.num[0] < r + 1)
    BY <2>1, <2>3, <2>4
  <2> QED
    BY <1>6, <2>2, <2>3, <2>5
<1>9. ASSUME NEW k \in Key, NEW b \in Bucket, k \in u.buckets[1][b]
      PROVE  b < t.num[1] /\ Place(u, k) = [index |-> 1, bucket |-> b]
  <2>1. CASE k \in t.buckets[1][b]
    <3>1. b < t.num[1] /\ Place(t, k) = [index |-> 1, bucket |-> b]
      BY <1>7, <2>1
    <3>2. Hash[k] % t.num[0] < r /\ Hash[k] % t.num[1] = b
      BY <1>6, <3>1
    <3>3. Hash[k] % t.num[0] \in Nat /\ r \in Nat
      BY <1>1, <1>6
    <3>4. Hash[k] % t.num[0] < r + 1
      BY <3>2, <3>3
    <3> QED
      BY <1>6, <3>1, <3>2, <3>4
  <2>2. CASE k \in t.buckets[0][r] /\ Hash[k] % t.num[1] = b
    <3>1. Place(t, k) = [index |-> 0, bucket |-> r]
      BY <1>2, <1>7, <2>2
    <3>2. Hash[k] % t.num[0] = r
      BY <1>6, <3>1
    <3>3. Hash[k] % t.num[0] < r + 1
      BY <1>1, <3>2
    <3>4. b < t.num[1]
      BY <1>1, <1>6, <2>2
    <3> QED
      BY <1>6, <2>2, <3>3, <3>4
  <2> QED
    BY <1>4, <1>9, <2>1, <2>2
<1>10. Placed(u)
  BY <1>4, <1>8, <1>9 DEF Placed
<1>11. KeysOf(u) = KeysOf(t)
  <2>1. ASSUME NEW k \in KeysOf(u) PROVE k \in KeysOf(t)
    <3>1. k \in Key /\ \E b \in Bucket : k \in u.buckets[0][b] \/ k \in u.buckets[1][b]
      BY <2>1 DEF KeysOf
    <3>2. \E b \in Bucket : k \in t.buckets[0][b] \/ k \in t.buckets[1][b]
      BY <1>2, <1>4, <3>1
    <3> QED
      BY <3>1, <3>2 DEF KeysOf
  <2>2. ASSUME NEW k \in KeysOf(t) PROVE k \in KeysOf(u)
    <3>1. k \in Key /\ \E b \in Bucket : k \in t.buckets[0][b] \/ k \in t.buckets[1][b]
      BY <2>2 DEF KeysOf
    <3>2. PICK b \in Bucket : k \in t.buckets[0][b] \/ k \in t.buckets[1][b]
      BY <3>1
    <3>3. k \in u.buckets[0][b] \/ k \in u.buckets[1][b] \/ k \in u.buckets[1][Hash[k] % t.num[1]]
      BY <1>4, <1>6, <3>1, <3>2
    <3>4. Hash[k] % t.num[1] \in Bucket
      BY <1>6, <3>1
    <3> QED
      BY <3>1, <3>3, <3>4 DEF KeysOf
  <2> QED
    BY <2>1, <2>2
<1> QED
  BY <1>4, <1>5, <1>10, <1>11 DEF u, r

\* After the last bucket, buckets[0] is empty and buckets[1] takes its place.
LEMMA AdvancedGood ==
  ASSUME NEW t, Good(t)
  PROVE  Good(Advanced(t)) /\ KeysOf(Advanced(t)) = KeysOf(t)
<1>1. CASE ~Rehashing(t)
  BY <1>1 DEF Advanced
<1>2. CASE Rehashing(t)
  <2> DEFINE m == Moved(t)
  <2>1. /\ m \in Tables /\ Placed(m) /\ KeysOf(m) = KeysOf(t)
        /\ m.num = t.num /\ m.rehash = t.rehash + 1
    BY <1>2, MovedPlaced
  <2>2. Advanced(t) = Finished(m)
    BY <1>2 DEF Advanced
  <2> HIDE DEF m
  <2>3. /\ m.num[0] \in Nat \ {0} /\ m.num[1] \in Nat \ {0} /\ m.rehash \in Nat
        /\ m.num[1] <= MaxBuckets /\ MaxBuckets \in Nat
        /\ m.rehash <= m.num[0] /\ t.rehash \in Nat /\ t.rehash < t.num[0]
    <3>1. t.num[0] \in Nat \ {0} /\ t.num[1] \in Nat \ {0} /\ t.rehash \in Nat
          /\ t.num[1] <= MaxBuckets /\ MaxBuckets \in Nat /\ t.rehash < t.num[0]
      BY <1>2, Parts, Sizes DEF Good, Rehashing
    <3> QED
      BY <2>1, <3>1
  <2>4. CASE m.rehash # m.num[0]
    <3>1. Finished(m) = m
      BY <2>4 DEF Finished
    <3>2. m.rehash < m.num[0]
      BY <2>3, <2>4
    <3>3. Good(m)
      BY <2>1, <2>3, <3>2 DEF Good
    <3> QED
      BY <2>1, <2>2, <3>1, <3>3
  <2>5. CASE m.rehash = m.num[0]
    <3> DEFINE f == Finished(m)
               low == [i \in {0, 1} |-> IF i = 0 THEN m.buckets[1] ELSE Empty]
               one == [i \in {0, 1} |-> IF i = 0 THEN m.num[1] ELSE 0]
    <3>1. f = [m EXCEPT !.buckets = low, !.num = one]
      BY <2>5 DEF Finished
    <3>2. low \in [{0, 1} -> [Bucket -> SUBSET Key]] /\ one \in [{0, 1} -> 0..MaxBuckets]
      BY <2>1, <2>3 DEF Tables, Empty
    <3>3. low[0] = m.buckets[1] /\ low[1] = Empty /\ one[0] = m.num[1] /\ one[1] = 0
      OBVIOUS
    <3> HIDE DEF low, one
    <3>4. f \in Tables /\ f.buckets = low /\ f.num = one
      BY <2>1, <3>1, <3>2 DEF Tables
    <3> HIDE DEF f
    <3>5. \A k \in Key, b \in Bucket : k \notin m.buckets[0][b]
      <4> SUFFICES ASSUME NEW k \in Key, NEW b \in Bucket, k \in m.buckets[0][b]
                   PROVE  FALSE
        OBVIOUS
      <4>1. Place(m, k) = [index |-> 0, bucket |-> b]
        BY <2>1 DEF Placed
      <4>2. Hash[k] % m.num[0] \in 0..m.num[0] - 1
        BY <2>3, Mod, Sizes
      <4>3. Hash[k] % m.num[0] < m.rehash
        BY <2>3, <2>5, <4>2
      <4>4. Rehashing(m)
        BY <2>3 DEF Rehashing
      <4> QED
        BY <4>1, <4>3, <4>4 DEF Place
    <3>6. ASSUME NEW k \in Key, NEW i \in {0, 1}, NEW b \in Bucket, k \in f.buckets[i][b]
          PROVE  b < f.num[i] /\ Place(f, k) = [index |-> i, bucket |-> b]
      <4>1. i = 0 /\ k \in m.buckets[1][b]
        BY <3>3, <3>4, <3>6 DEF Empty
      <4>2. b < m.num[1] /\ Place(m, k) = [index |-> 1, bucket |-> b]
        BY <2>1, <4>1 DEF Placed
      <4>3. Hash[k] % m.num[1] = b
        BY <4>2 DEF Place
      <4>4. ~Rehashing(f)
        BY <3>3, <3>4 DEF Rehashing
      <4> QED
        BY <3>3, <3>4, <4>1, <4>2, <4>3, <4>4 DEF Place
    <3>7. KeysOf(f) = KeysOf(m)
      <4>1. \A k \in Key : (\E i \in {0, 1}, b \in Bucket : k \in f.buckets[i][b])
                             <=> \E b \in Bucket : k \in m.buckets[1][b]
        BY <3>3, <3>4 DEF Empty
      <4>2. \A k \in Key : (\E i \in {0, 1}, b \in Bucket : k \in m.buckets[i][b])
                             <=> \E b \in Bucket : k \in m.buckets[1][b]
        BY <3>5
      <4> QED
        BY <4>1, <4>2 DEF KeysOf
    <3>8. f.num[0] # 0 /\ ~Rehashing(f)
      BY <2>3, <3>3, <3>4 DEF Rehashing
    <3>9. Good(f)
      BY <3>4, <3>6, <3>8 DEF Good, Placed
    <3> QED
      BY <2>1, <2>2, <3>7, <3>9 DEF f
  <2> QED
    BY <2>4, <2>5
<1> QED
  BY <1>1, <1>2

\* The table after _shash_check_rehash.
LEMMA CheckRehashGood ==
  ASSUME IInv
  PROVE  /\ Good(CheckRehash) /\ KeysOf(CheckRehash) = keys
         /\ iterator.key # None => CheckRehash = tables
<1>1. Good(tables) /\ num_node \in Nat
  BY DEF IInv, TypeOK
<1>2. Good(Started(tables)) /\ KeysOf(Started(tables)) = keys
  BY <1>1, StartedGood DEF keys
<1>3. /\ Good(Advanced(Started(tables)))
      /\ KeysOf(Advanced(Started(tables))) = keys
  BY <1>2, AdvancedGood
<1> QED
  BY <1>1, <1>3 DEF CheckRehash, keys

\* A chain gains a key that belongs there, or loses one.
LEMMA WithChainGood ==
  ASSUME NEW t, Good(t), NEW k \in Key, NEW c,
         c = Chain(t, Place(t, k)) \cup {k} \/ c = Chain(t, Place(t, k)) \ {k}
  PROVE  LET u == WithChain(t, Place(t, k), c) IN
         /\ Good(u) /\ u.num = t.num /\ u.rehash = t.rehash
         /\ \A j \in Key : Place(u, j) = Place(t, j)
         /\ \A j : j \in KeysOf(u) <=> IF j = k THEN k \in c ELSE j \in KeysOf(t)
         /\ \A i \in {0, 1}, b \in Bucket :
              u.buckets[i][b] = IF [index |-> i, bucket |-> b] = Place(t, k)
                                  THEN c ELSE t.buckets[i][b]
<1> DEFINE u == WithChain(t, Place(t, k), c)
           x == Place(t, k).index
           y == Place(t, k).bucket
<1>1. t \in Tables /\ x \in {0, 1} /\ y \in Bucket /\ y < t.num[x]
      /\ Place(t, k) = [index |-> x, bucket |-> y]
  BY PlaceType DEF Good
<1>2. u = [t EXCEPT !.buckets[x][y] = c]
  BY DEF WithChain
<1>3. Chain(t, Place(t, k)) = t.buckets[x][y] /\ t.buckets[x][y] \subseteq Key /\ c \subseteq Key
  BY <1>1, Parts DEF Chain
<1> HIDE DEF u, x, y
<1>4. /\ u \in Tables /\ u.num = t.num /\ u.rehash = t.rehash
      /\ \A i \in {0, 1}, b \in Bucket :
           u.buckets[i][b] = IF i = x /\ b = y THEN c ELSE t.buckets[i][b]
  BY <1>1, <1>2, <1>3 DEF Tables
<1>5. \A i \in {0, 1}, b \in Bucket :
        u.buckets[i][b] = IF [index |-> i, bucket |-> b] = Place(t, k)
                            THEN c ELSE t.buckets[i][b]
  BY <1>1, <1>4
<1>6. \A j \in Key : Place(u, j) = Place(t, j)
  BY <1>4 DEF Place, Rehashing
<1>7. \A j \in Key, i \in {0, 1}, b \in Bucket :
        j \in t.buckets[i][b] => b < t.num[i] /\ Place(t, j) = [index |-> i, bucket |-> b]
  BY DEF Good, Placed
<1>8. ASSUME NEW j \in Key, NEW i \in {0, 1}, NEW b \in Bucket, j \in u.buckets[i][b]
      PROVE  b < u.num[i] /\ Place(u, j) = [index |-> i, bucket |-> b]
  <2>1. CASE j \in t.buckets[i][b]
    BY <1>4, <1>6, <1>7, <2>1
  <2>2. CASE j \notin t.buckets[i][b]
    <3>1. i = x /\ b = y /\ j = k
      BY <1>3, <1>4, <1>8, <2>2
    <3> QED
      BY <1>1, <1>4, <1>6, <3>1
  <2> QED
    BY <2>1, <2>2
<1>9. Good(u)
  BY <1>4, <1>8 DEF Good, Placed, Rehashing
<1>10. ASSUME NEW j PROVE j \in KeysOf(u) <=> IF j = k THEN k \in c ELSE j \in KeysOf(t)
  <2>1. CASE j = k
    <3>1. k \in KeysOf(u) <=> Has(u, k)
      BY <1>9, HasSound
    <3>2. Has(u, k) <=> k \in u.buckets[x][y]
      BY <1>1, <1>6 DEF Has, Chain
    <3> QED
      BY <1>1, <1>4, <2>1, <3>1, <3>2
  <2>2. CASE j # k
    <3>1. \A i \in {0, 1}, b \in Bucket : j \in u.buckets[i][b] <=> j \in t.buckets[i][b]
      BY <1>3, <1>4, <2>2
    <3> QED
      BY <2>2, <3>1 DEF KeysOf
  <2> QED
    BY <2>1, <2>2
<1> QED
  BY <1>4, <1>5, <1>6, <1>9, <1>10 DEF u

-----------------------------------------------------------------------------
(* Positions. *)

LEMMA LeastSound ==
  ASSUME NEW S, S \subseteq Nat, S # {}
  PROVE  Least(S) \in S /\ \A j \in S : Least(S) <= j
<1>1. PICK x \in S : \A y \in S : ~(<<y, x>> \in OpToRel(<, Nat))
  BY NatLessThanWellFounded, WFMin
<1>2. \A y \in S : ~(y < x)
  BY <1>1 DEF OpToRel
<1>3. \A y \in S : x <= y
  BY <1>2
<1> QED
  BY <1>3 DEF Least

LEMMA AheadIsFrom == Ahead = From(tables, iterator)
BY DEF Ahead, From, keys

\* What a key of a table has: a place, in whose chain it is.
LEMMA KeyOf ==
  ASSUME NEW t, Good(t), NEW k \in KeysOf(t)
  PROVE  /\ k \in Key /\ k \in Nat
         /\ Place(t, k).index \in {0, 1} /\ Place(t, k).bucket \in Bucket
         /\ Place(t, k).bucket \in Nat /\ Place(t, k).bucket < t.num[Place(t, k).index]
         /\ k \in t.buckets[Place(t, k).index][Place(t, k).bucket]
         /\ Place(t, k).index = 1 => Rehashing(t)
<1>1. k \in Key /\ k \in Nat
  BY Sizes DEF KeysOf
<1>2. Has(t, k)
  BY <1>1, HasSound
<1>3. Bucket \subseteq Nat
  BY Sizes
<1> QED
  BY <1>1, <1>2, <1>3, PlaceType DEF Has, Chain

\* And what is in a chain has its place there.
LEMMA InChain ==
  ASSUME NEW t, Good(t), NEW i \in {0, 1}, NEW b \in Bucket, NEW k \in t.buckets[i][b]
  PROVE  /\ k \in KeysOf(t) /\ k \in Key /\ k \in Nat /\ k # None /\ b \in Nat
         /\ Place(t, k).index = i /\ Place(t, k).bucket = b /\ b < t.num[i]
<1>1. k \in Key /\ Bucket \subseteq Nat
  BY Parts, Sizes DEF Good
<1>2. b < t.num[i] /\ Place(t, k) = [index |-> i, bucket |-> b]
  BY <1>1 DEF Good, Placed
<1>3. k \in KeysOf(t)
  BY <1>1 DEF KeysOf
<1> QED
  BY <1>1, <1>2, <1>3, Sizes

LEMMA AtSound ==
  ASSUME NEW t, Good(t), NEW i \in {0, 1}, NEW b \in Bucket, t.buckets[i][b] # {}
  PROVE  /\ Live(t, At(t, i, b)) /\ At(t, i, b).key # None
         /\ At(t, i, b).index = i /\ At(t, i, b).bucket = b /\ At(t, i, b).key \in Nat
         /\ \A k \in t.buckets[i][b] : At(t, i, b).key <= k
<1>1. t.buckets[i][b] \subseteq Nat
  BY InChain
<1>2. /\ Least(t.buckets[i][b]) \in t.buckets[i][b]
      /\ \A k \in t.buckets[i][b] : Least(t.buckets[i][b]) <= k
  BY <1>1, LeastSound
<1>3. Least(t.buckets[i][b]) \in Key /\ Least(t.buckets[i][b]) # None
  BY <1>2, InChain
<1> QED
  BY <1>1, <1>2, <1>3 DEF At, Live, Position, Chain

LEMMA LiveAhead ==
  ASSUME NEW t, Good(t), NEW p, Live(t, p), p.key # None
  PROVE  p.key \in From(t, p)
<1>1. p.index \in {0, 1} /\ p.bucket \in Bucket /\ p.key \in t.buckets[p.index][p.bucket]
  BY DEF Live, Position, Chain
<1>2. /\ p.key \in KeysOf(t) /\ p.key \in Nat
      /\ Place(t, p.key).index = p.index /\ Place(t, p.key).bucket = p.bucket
  BY <1>1, InChain
<1>3. p.key >= p.key
  BY <1>2
<1> QED
  BY <1>2, <1>3 DEF From

\* The next position: nothing behind it was ahead, but for the key the iterator
\* leaves, unless the table is being rehashed.
LEMMA NextPosSound ==
  ASSUME Good(tables), Live(tables, iterator), iterator.key # None
  PROVE  /\ Live(tables, NextPos(tables)) /\ NextPos(tables).key # iterator.key
         /\ From(tables, NextPos(tables)) \subseteq Ahead \ {iterator.key}
         /\ ~Rehashing(tables) => Ahead \ {iterator.key} \subseteq From(tables, NextPos(tables))
<1> DEFINE t == tables
           e == iterator.key
           x == iterator.index
           y == iterator.bucket
           q == NextPos(t)
           later == {j \in t.buckets[x][y] : e < j}
           same == Filled(t, x, y + 1, t.num[x])
           other == IF x = 0 THEN Filled(t, 1, 0, t.num[x]) ELSE {}
<1>1. x \in {0, 1} /\ y \in Bucket /\ e \in t.buckets[x][y] /\ iterator \in Position
  BY DEF Live, Position, Chain
<1>2. /\ e \in KeysOf(t) /\ e \in Nat /\ e # None /\ y \in Nat
      /\ Place(t, e).index = x /\ Place(t, e).bucket = y
  BY <1>1, InChain
<1>3. q = IF later # {} THEN [iterator EXCEPT !.key = Least(later)]
          ELSE IF same # {} THEN At(t, x, Least(same))
          ELSE IF other # {} THEN At(t, 1, Least(other))
          ELSE NoPos
  BY DEF NextPos, Chain
<1>4. Good(t) /\ Bucket \subseteq Nat
  BY Sizes
<1>5. \A b : b \in same <=> b \in Bucket /\ y + 1 <= b /\ b < t.num[x] /\ t.buckets[x][b] # {}
  BY DEF Filled
<1>6. \A b : b \in other => x = 0 /\ b \in Bucket /\ t.buckets[1][b] # {}
  BY DEF Filled
<1>7. \A k : k \in Ahead <=> /\ k \in KeysOf(t)
                             /\ \/ Place(t, k).index > x
                                \/ Place(t, k).index = x /\ Place(t, k).bucket > y
                                \/ Place(t, k).index = x /\ Place(t, k).bucket = y /\ k >= e
  BY AheadIsFrom DEF From
<1>8. \A k \in KeysOf(t), p \in Position :
        k \in From(t, p) <=> /\ p.key # None
                             /\ \/ Place(t, k).index > p.index
                                \/ Place(t, k).index = p.index /\ Place(t, k).bucket > p.bucket
                                \/ /\ Place(t, k).index = p.index
                                   /\ Place(t, k).bucket = p.bucket /\ k >= p.key
  BY DEF From
<1>9. From(t, q) \subseteq KeysOf(t)
  BY DEF From
<1>10. \A k \in KeysOf(t) :
         /\ k \in Nat /\ Place(t, k).index \in {0, 1} /\ Place(t, k).bucket \in Bucket
         /\ Place(t, k).bucket \in Nat /\ Place(t, k).bucket < t.num[Place(t, k).index]
         /\ k \in t.buckets[Place(t, k).index][Place(t, k).bucket]
         /\ Place(t, k).index = 1 => Rehashing(t)
  BY <1>4, KeyOf
<1>11. \A k \in KeysOf(t) : Place(t, k).index = x /\ Place(t, k).bucket = y /\ k > e => k \in later
  BY <1>10
<1> HIDE DEF t, q, x, y, e, same, other
<1>20. CASE later # {}
  <2> DEFINE l == Least(later)
  <2>1. later \subseteq Nat
    BY <1>1, <1>4, InChain
  <2>2. l \in later /\ \A j \in later : l <= j
    BY <1>20, <2>1, LeastSound
  <2> HIDE DEF l
  <2>3. l \in t.buckets[x][y] /\ e < l /\ l \in Nat /\ l \in Key /\ l # None
    BY <1>1, <1>4, <2>2, InChain
  <2>4. q = [iterator EXCEPT !.key = l]
    BY <1>3, <1>20 DEF l
  <2>5. q \in Position /\ q.key = l /\ q.index = x /\ q.bucket = y
    BY <1>1, <2>3, <2>4 DEF Position, x, y
  <2>6. Live(t, q) /\ q.key # e
    BY <1>2, <2>3, <2>5 DEF Live, Chain
  <2>7. ASSUME NEW k \in From(t, q) PROVE k \in Ahead \ {e}
    <3>1. k \in KeysOf(t) /\ k \in Nat
      BY <1>9, <1>10
    <3>2. \/ Place(t, k).index > x
          \/ Place(t, k).index = x /\ Place(t, k).bucket > y
          \/ Place(t, k).index = x /\ Place(t, k).bucket = y /\ k >= l
      BY <1>8, <2>5, <2>7, <3>1
    <3>3. k >= l => k >= e /\ k # e
      BY <1>2, <2>3, <3>1
    <3>4. k # e
      <4>1. Place(t, k).index > x => Place(t, k).index # x
        BY <1>1, <1>10, <3>1
      <4>2. Place(t, k).bucket > y => Place(t, k).bucket # y
        BY <1>2, <1>10, <3>1
      <4> QED
        BY <1>2, <3>2, <3>3, <4>1, <4>2
    <3> QED
      BY <1>7, <3>1, <3>2, <3>3, <3>4
  <2>8. ASSUME NEW k \in Ahead \ {e} PROVE k \in From(t, q)
    <3>1. k \in KeysOf(t) /\ k \in Nat /\ k # e
      BY <1>7, <1>10
    <3>2. k >= e => k > e
      BY <1>2, <3>1
    <3>3. k \in later => k >= l
      BY <2>1, <2>2
    <3> QED
      BY <1>7, <1>8, <1>11, <2>3, <2>5, <3>1, <3>2, <3>3
  <2> QED
    BY <2>6, <2>7, <2>8 DEF t, q, e
<1>21. CASE later = {} /\ same # {}
  <2> DEFINE b == Least(same)
  <2>1. same \subseteq Nat
    BY <1>4, <1>5
  <2>2. b \in same /\ \A j \in same : b <= j
    BY <1>21, <2>1, LeastSound
  <2> HIDE DEF b
  <2>3. b \in Bucket /\ b \in Nat /\ y < b /\ t.buckets[x][b] # {}
    <3>1. b \in Bucket /\ y + 1 <= b /\ t.buckets[x][b] # {}
      BY <1>5, <2>2
    <3>2. b \in Nat
      BY <1>4, <3>1
    <3> QED
      BY <1>2, <3>1, <3>2
  <2>4. q = At(t, x, b)
    BY <1>3, <1>21 DEF b
  <2>5. /\ Live(t, q) /\ q.key # None /\ q.index = x /\ q.bucket = b /\ q.key \in Nat
        /\ \A k \in t.buckets[x][b] : q.key <= k
    BY <1>1, <1>4, <2>3, <2>4, AtSound
  <2>6. q \in Position
    BY <2>5 DEF Live
  <2>7. ASSUME NEW k \in From(t, q) PROVE k \in Ahead \ {e}
    <3>1. /\ k \in KeysOf(t) /\ k \in Nat /\ Place(t, k).bucket \in Nat
          /\ Place(t, k).index \in {0, 1}
      BY <1>9, <1>10
    <3>2. \/ Place(t, k).index > x
          \/ Place(t, k).index = x /\ Place(t, k).bucket > b
          \/ Place(t, k).index = x /\ Place(t, k).bucket = b
      BY <1>8, <2>5, <2>6, <2>7, <3>1
    <3>3. \/ Place(t, k).index > x
          \/ Place(t, k).index = x /\ Place(t, k).bucket > y
      BY <1>2, <2>3, <3>1, <3>2
    <3>4. k # e
      BY <1>1, <1>2, <3>1, <3>3
    <3> QED
      BY <1>7, <3>1, <3>3, <3>4
  <2>8. ASSUME NEW k \in Ahead \ {e} PROVE k \in From(t, q)
    <3>1. /\ k \in KeysOf(t) /\ k \in Nat /\ k # e /\ Place(t, k).bucket \in Bucket
          /\ Place(t, k).bucket \in Nat /\ Place(t, k).bucket < t.num[Place(t, k).index]
          /\ k \in t.buckets[Place(t, k).index][Place(t, k).bucket]
      BY <1>7, <1>10
    <3>2. k >= e => k > e
      BY <1>2, <3>1
    <3>3. \/ Place(t, k).index > x
          \/ Place(t, k).index = x /\ Place(t, k).bucket > y
      BY <1>7, <1>11, <1>21, <3>1, <3>2
    <3>4. CASE Place(t, k).index > x
      BY <1>8, <2>5, <2>6, <3>1, <3>4
    <3>5. CASE Place(t, k).index = x /\ Place(t, k).bucket > y
      <4>1. y + 1 <= Place(t, k).bucket
        BY <1>2, <3>1, <3>5
      <4>2. Place(t, k).bucket \in same
        BY <1>5, <3>1, <3>5, <4>1
      <4>3. b <= Place(t, k).bucket
        BY <2>2, <4>2
      <4>4. CASE Place(t, k).bucket = b
        <5>1. k >= q.key
          BY <2>5, <3>1, <3>5, <4>4
        <5> QED
          BY <1>8, <2>5, <2>6, <3>1, <3>5, <4>4, <5>1
      <4>5. CASE Place(t, k).bucket # b
        <5>1. Place(t, k).bucket > b
          BY <2>3, <3>1, <4>3, <4>5
        <5> QED
          BY <1>8, <2>5, <2>6, <3>1, <3>5, <5>1
      <4> QED
        BY <4>4, <4>5
    <3> QED
      BY <3>3, <3>4, <3>5
  <2>9. q.key # e
    <3>1. q.key \in From(t, q)
      BY <1>4, <2>5, LiveAhead
    <3> QED
      BY <2>7, <3>1
  <2> QED
    BY <2>5, <2>7, <2>8, <2>9 DEF t, q, e
<1>22. CASE later = {} /\ same = {} /\ other # {}
  <2> DEFINE b == Least(other)
  <2>1. other \subseteq Nat
    BY <1>4, <1>6
  <2>2. b \in other
    BY <1>22, <2>1, LeastSound
  <2> HIDE DEF b
  <2>3. x = 0 /\ b \in Bucket /\ t.buckets[1][b] # {}
    BY <1>6, <2>2
  <2>4. q = At(t, 1, b)
    BY <1>3, <1>22 DEF b
  <2>5. Live(t, q) /\ q.key # None /\ q.index = 1 /\ q.bucket = b
    BY <1>4, <2>3, <2>4, AtSound
  <2>6. q \in Position
    BY <2>5 DEF Live
  <2>7. ASSUME NEW k \in From(t, q) PROVE k \in Ahead \ {e}
    <3>1. k \in KeysOf(t) /\ Place(t, k).index \in {0, 1}
      BY <1>9, <1>10
    <3>2. Place(t, k).index >= 1
      BY <1>8, <2>5, <2>6, <2>7, <3>1
    <3>3. Place(t, k).index > x /\ Place(t, k).index # x
      BY <2>3, <3>1, <3>2
    <3> QED
      BY <1>2, <1>7, <3>1, <3>3
  <2>8. q.key \in From(t, q)
    BY <1>4, <2>5, LiveAhead
  <2>9. Rehashing(t)
    <3>1. PICK k : k \in t.buckets[1][b]
      BY <2>3
    <3>2. k \in KeysOf(t) /\ Place(t, k).index = 1
      BY <1>4, <2>3, <3>1, InChain
    <3> QED
      BY <1>10, <3>2
  <2> QED
    BY <2>5, <2>7, <2>8, <2>9 DEF t, q, e
<1>23. CASE later = {} /\ same = {} /\ other = {}
  <2>1. q = NoPos
    BY <1>3, <1>23
  <2>2. q.key = None /\ q \in Position
    BY <2>1, Sizes DEF NoPos, Position
  <2>3. Live(t, q) /\ q.key # e
    BY <1>2, <2>2 DEF Live
  <2>4. From(t, q) = {}
    BY <2>2 DEF From
  <2>5. ASSUME ~Rehashing(t), NEW k \in Ahead \ {e} PROVE FALSE
    <3>1. /\ k \in KeysOf(t) /\ k \in Nat /\ k # e /\ Place(t, k).bucket \in Bucket
          /\ Place(t, k).bucket \in Nat /\ Place(t, k).bucket < t.num[Place(t, k).index]
          /\ k \in t.buckets[Place(t, k).index][Place(t, k).bucket]
          /\ Place(t, k).index = 0
      BY <1>7, <1>10, <2>5
    <3>2. k >= e => k > e
      BY <1>2, <3>1
    <3>3. Place(t, k).index = x /\ Place(t, k).bucket > y
      BY <1>1, <1>7, <1>11, <1>23, <3>1, <3>2
    <3>4. y + 1 <= Place(t, k).bucket
      BY <1>2, <3>1, <3>3
    <3>5. Place(t, k).bucket \in same
      BY <1>5, <3>1, <3>3, <3>4
    <3> QED
      BY <1>23, <3>5
  <2> QED
    BY <2>3, <2>4, <2>5 DEF t, q, e
<1> QED
  BY <1>20, <1>21, <1>22, <1>23

\* The first position: no key is before it.
LEMMA FirstPosSound ==
  ASSUME NEW t, Good(t)
  PROVE  Live(t, FirstPos(t)) /\ From(t, FirstPos(t)) = KeysOf(t)
<1> DEFINE q == FirstPos(t)
           zero == Filled(t, 0, 0, t.num[0])
           one == Filled(t, 1, 0, t.num[1])
<1>1. q = IF zero # {} THEN At(t, 0, Least(zero))
          ELSE IF one # {} THEN At(t, 1, Least(one))
          ELSE NoPos
  BY DEF FirstPos
<1>2. \A k \in KeysOf(t) :
        /\ k \in Nat /\ Place(t, k).index \in {0, 1} /\ Place(t, k).bucket \in Bucket
        /\ Place(t, k).bucket \in Nat /\ Place(t, k).bucket < t.num[Place(t, k).index]
        /\ k \in t.buckets[Place(t, k).index][Place(t, k).bucket]
  BY KeyOf
<1>3. Bucket \subseteq Nat
  BY Sizes
<1>4. \A b : /\ b \in zero <=> b \in Bucket /\ 0 <= b /\ b < t.num[0] /\ t.buckets[0][b] # {}
             /\ b \in one <=> b \in Bucket /\ 0 <= b /\ b < t.num[1] /\ t.buckets[1][b] # {}
  BY DEF Filled
<1>5. \A k \in KeysOf(t), p \in Position :
        k \in From(t, p) <=> /\ p.key # None
                             /\ \/ Place(t, k).index > p.index
                                \/ Place(t, k).index = p.index /\ Place(t, k).bucket > p.bucket
                                \/ /\ Place(t, k).index = p.index
                                   /\ Place(t, k).bucket = p.bucket /\ k >= p.key
  BY DEF From
<1>6. From(t, q) \subseteq KeysOf(t)
  BY DEF From
<1> HIDE DEF q, zero, one
<1>7. \A k \in KeysOf(t) : /\ Place(t, k).index = 0 => Place(t, k).bucket \in zero
                           /\ Place(t, k).index = 1 => Place(t, k).bucket \in one
  <2> TAKE k \in KeysOf(t)
  <2>1. 0 <= Place(t, k).bucket
    BY <1>2
  <2> QED
    BY <1>2, <1>4, <2>1
<1>8. ASSUME NEW i \in {0, 1}, NEW fill, fill \subseteq Bucket, fill # {},
             \A b \in fill : t.buckets[i][b] # {},
             \A k \in KeysOf(t) : Place(t, k).index >= i
                                  /\ (Place(t, k).index = i => Place(t, k).bucket \in fill),
             q = At(t, i, Least(fill))
      PROVE  Live(t, q) /\ KeysOf(t) \subseteq From(t, q)
  <2> DEFINE b == Least(fill)
  <2>1. fill \subseteq Nat
    BY <1>3, <1>8
  <2>2. b \in fill /\ \A j \in fill : b <= j
    BY <1>8, <2>1, LeastSound
  <2> HIDE DEF b
  <2>3. b \in Bucket /\ b \in Nat /\ t.buckets[i][b] # {} /\ q = At(t, i, b)
    BY <1>8, <2>1, <2>2 DEF b
  <2>4. /\ Live(t, q) /\ q.key # None /\ q.index = i /\ q.bucket = b /\ q.key \in Nat
        /\ \A k \in t.buckets[i][b] : q.key <= k
    BY <2>3, AtSound
  <2>5. q \in Position
    BY <2>4 DEF Live
  <2>6. ASSUME NEW k \in KeysOf(t) PROVE k \in From(t, q)
    <3>1. /\ k \in Nat /\ Place(t, k).index \in {0, 1} /\ Place(t, k).bucket \in Nat
          /\ Place(t, k).index >= i
          /\ k \in t.buckets[Place(t, k).index][Place(t, k).bucket]
      BY <1>2, <1>8
    <3>2. CASE Place(t, k).index # i
      <4>1. Place(t, k).index > i
        BY <3>1, <3>2
      <4> QED
        BY <1>5, <2>4, <2>5, <4>1
    <3>3. CASE Place(t, k).index = i /\ Place(t, k).bucket # b
      <4>1. b <= Place(t, k).bucket
        BY <1>8, <2>2, <3>3
      <4>2. Place(t, k).bucket > b
        BY <2>3, <3>1, <3>3, <4>1
      <4> QED
        BY <1>5, <2>4, <2>5, <3>3, <4>2
    <3>4. CASE Place(t, k).index = i /\ Place(t, k).bucket = b
      <4>1. k >= q.key
        BY <2>4, <3>1, <3>4
      <4> QED
        BY <1>5, <2>4, <2>5, <3>4, <4>1
    <3> QED
      BY <3>2, <3>3, <3>4
  <2> QED
    BY <2>4, <2>6
<1>9. CASE zero # {}
  <2>1. zero \subseteq Bucket /\ \A b \in zero : t.buckets[0][b] # {}
    BY <1>4
  <2>2. \A k \in KeysOf(t) : Place(t, k).index >= 0
                             /\ (Place(t, k).index = 0 => Place(t, k).bucket \in zero)
    BY <1>2, <1>7
  <2>3. q = At(t, 0, Least(zero))
    BY <1>1, <1>9
  <2>4. Live(t, q) /\ KeysOf(t) \subseteq From(t, q)
    BY <1>8, <1>9, <2>1, <2>2, <2>3
  <2> QED
    BY <1>6, <2>4 DEF q
<1>10. CASE zero = {} /\ one # {}
  <2>1. one \subseteq Bucket /\ \A b \in one : t.buckets[1][b] # {}
    BY <1>4
  <2>2. \A k \in KeysOf(t) : Place(t, k).index >= 1
                             /\ (Place(t, k).index = 1 => Place(t, k).bucket \in one)
    BY <1>2, <1>7, <1>10
  <2>3. q = At(t, 1, Least(one))
    BY <1>1, <1>10
  <2>4. Live(t, q) /\ KeysOf(t) \subseteq From(t, q)
    BY <1>8, <1>10, <2>1, <2>2, <2>3
  <2> QED
    BY <1>6, <2>4 DEF q
<1>11. CASE zero = {} /\ one = {}
  <2>1. q = NoPos
    BY <1>1, <1>11
  <2>2. Live(t, q)
    BY <2>1, Sizes DEF NoPos, Live, Position
  <2>3. KeysOf(t) = {}
    BY <1>2, <1>7, <1>11
  <2> QED
    BY <1>6, <2>2, <2>3 DEF q
<1> QED
  BY <1>9, <1>10, <1>11

-----------------------------------------------------------------------------
(* Every step keeps IInv and is one of KeySet. *)

LEMMA KeysFinite ==
  ASSUME NEW t
  PROVE  KeysOf(t) \subseteq Key /\ IsFiniteSet(KeysOf(t))
<1>1. KeysOf(t) \in SUBSET Key /\ IsFiniteSet(Key)
  BY ShashAssumption DEF KeysOf
<1> QED
  BY <1>1, FS_Subset

LEMMA InitIInv == ASSUME Init PROVE IInv /\ Contract!Init
<1>1. /\ MaxBuckets \in Nat \ {0} /\ InitBuckets \in Nat \ {0} /\ InitBuckets <= MaxBuckets
      /\ 0 \in Bucket
  BY Sizes, ShashAssumption
<1> DEFINE low == [i \in {0, 1} |-> Empty]
           size == [i \in {0, 1} |-> IF i = 0 THEN InitBuckets ELSE 0]
<1>2. tables = [buckets |-> low, num |-> size, rehash |-> 0]
  BY DEF Init
<1>3. low \in [{0, 1} -> [Bucket -> SUBSET Key]] /\ size \in [{0, 1} -> 0..MaxBuckets]
  BY <1>1 DEF Empty
<1>4. /\ \A i \in {0, 1}, b \in Bucket : low[i][b] = {}
      /\ size[0] = InitBuckets /\ size[1] = 0
  BY DEF Empty
<1> HIDE DEF low, size
<1>5. tables \in Tables /\ tables.buckets = low /\ tables.num = size
  BY <1>1, <1>2, <1>3 DEF Tables
<1>6. keys = {}
  BY <1>4, <1>5 DEF keys, KeysOf
<1>7. tables.num[0] # 0 /\ ~Rehashing(tables)
  BY <1>1, <1>4, <1>5 DEF Rehashing
<1>8. Good(tables)
  BY <1>4, <1>5, <1>7 DEF Good, Placed
<1>9. iterator \in Position /\ iterator.key = None
  BY <1>1 DEF Init, NoPos, Position
<1>10. TypeOK
  BY <1>5, <1>9 DEF Init, TypeOK, Position
<1>11. SizeCounts
  BY <1>6, FS_EmptySet DEF SizeCounts, Init
<1>12. Live(tables, iterator) /\ Iterating
  BY <1>6, <1>9 DEF Init, Live, Iterating, Ahead
<1> QED
  BY <1>6, <1>8, <1>10, <1>11, <1>12 DEF IInv, Init, Contract!Init

\* An operation that finds the table as it is, a step of the rehash apart.
LEMMA LookupStep ==
  ASSUME IInv, tables' = CheckRehash,
         UNCHANGED <<num_node, iterator, seen, todo, midway>>,
         result' \in [key : Key \cup {None}, ret : {0, -1}]
  PROVE  IInv' /\ keys' = keys
<1>1. /\ Good(CheckRehash) /\ KeysOf(CheckRehash) = keys
      /\ iterator.key # None => CheckRehash = tables
  BY CheckRehashGood
<1>2. Good(tables)' /\ keys' = keys
  <2>1. keys' = KeysOf(tables')
    BY DEF keys
  <2> QED
    BY <1>1, <2>1
<1>3. TypeOK'
  <2>1. tables' \in Tables
    BY <1>1 DEF Good
  <2> QED
    BY <2>1 DEF IInv, TypeOK
<1>4. SizeCounts'
  BY <1>2 DEF IInv, SizeCounts
<1>5. CASE iterator.key # None
  <2>1. tables' = tables
    BY <1>1, <1>5
  <2>2. Live(tables, iterator)' /\ Ahead' = Ahead
    BY <1>2, <2>1 DEF IInv, Live, Ahead, Chain
  <2>3. Iterating'
    BY <1>2, <2>1, <2>2 DEF IInv, Iterating
  <2> QED
    BY <1>2, <1>3, <1>4, <2>2, <2>3 DEF IInv
<1>6. CASE iterator.key = None
  <2>1. Ahead' = {} /\ Ahead = {}
    BY <1>6 DEF Ahead
  <2>2. Live(tables, iterator)'
    BY <1>6 DEF IInv, Live
  <2>3. Iterating'
    BY <1>2, <1>6, <2>1 DEF IInv, Iterating
  <2> QED
    BY <1>2, <1>3, <1>4, <2>2, <2>3 DEF IInv
<1> QED
  BY <1>5, <1>6

LEMMA FindStep ==
  ASSUME IInv, NEW k \in Key, Find(k)
  PROVE  IInv' /\ Contract!Find(k)
<1>1. result' = [key |-> k, ret |-> IF Has(CheckRehash, k) THEN 0 ELSE -1]
  BY DEF Find, Returns
<1>2. Has(CheckRehash, k) <=> k \in keys
  BY CheckRehashGood, HasSound
<1>3. result' \in [key : Key \cup {None}, ret : {0, -1}]
  BY <1>1
<1>4. IInv' /\ keys' = keys
  BY <1>3, LookupStep DEF Find
<1>5. UNCHANGED <<keys, seen>>
  BY <1>4 DEF Find
<1> QED
  BY <1>1, <1>2, <1>4, <1>5 DEF Contract!Find, Contract!Returns

LEMMA InsertStep ==
  ASSUME IInv, NEW k \in Key, Insert(k)
  PROVE  IInv' /\ Contract!Insert(k)
<1> DEFINE t == CheckRehash
           c == Chain(t, Place(t, k)) \cup {k}
           u == WithChain(t, Place(t, k), c)
<1>1. Good(t) /\ KeysOf(t) = keys /\ (iterator.key # None => t = tables)
  BY CheckRehashGood
<1>2. Has(t, k) <=> k \in keys
  BY <1>1, HasSound
<1>3. UNCHANGED <<iterator, seen, todo, midway>>
  BY DEF Insert
<1>4. CASE Has(t, k) /\ Returns(k, -1) /\ tables' = t /\ UNCHANGED num_node
  <2>1. result' = [key |-> k, ret |-> -1]
    BY <1>4 DEF Returns
  <2>2. result' \in [key : Key \cup {None}, ret : {0, -1}]
    BY <2>1
  <2>3. IInv' /\ keys' = keys
    BY <1>3, <1>4, <2>2, LookupStep
  <2>4. keys' = keys \cup {k} /\ seen' = seen
    BY <1>2, <1>3, <1>4, <2>3
  <2> QED
    BY <1>2, <1>4, <2>1, <2>3, <2>4 DEF Contract!Insert, Contract!Returns
<1>5. CASE /\ ~Has(t, k) /\ Returns(k, 0)
           /\ tables' = u /\ num_node' = num_node + 1
  <2>1. result' = [key |-> k, ret |-> 0] /\ k \notin keys
    BY <1>2, <1>5 DEF Returns
  <2>2. /\ Good(u) /\ u.num = t.num /\ u.rehash = t.rehash
        /\ \A j \in Key : Place(u, j) = Place(t, j)
        /\ \A j : j \in KeysOf(u) <=> IF j = k THEN k \in c ELSE j \in KeysOf(t)
        /\ \A i \in {0, 1}, b \in Bucket :
             u.buckets[i][b] = IF [index |-> i, bucket |-> b] = Place(t, k)
                                 THEN c ELSE t.buckets[i][b]
    BY <1>1, WithChainGood
  <2>3. \A i \in {0, 1}, b \in Bucket : t.buckets[i][b] \subseteq u.buckets[i][b]
    <3>1. \A i \in {0, 1}, b \in Bucket :
            [index |-> i, bucket |-> b] = Place(t, k) => t.buckets[i][b] \subseteq c
      BY DEF Chain
    <3> QED
      BY <2>2, <3>1
  <2>4. KeysOf(u) = keys \cup {k} /\ k \in c
    BY <1>1, <2>2
  <2> HIDE DEF t, c, u
  <2>5. keys' = keys \cup {k}
    BY <1>5, <2>4 DEF keys
  <2>6. SizeCounts'
    <3>1. IsFiniteSet(keys) /\ num_node = Cardinality(keys)
      BY KeysFinite DEF IInv, SizeCounts, keys
    <3> QED
      BY <1>5, <2>1, <2>5, <3>1, FS_AddElement DEF SizeCounts
  <2>7. TypeOK'
    <3>1. tables' \in Tables
      BY <1>5, <2>2 DEF Good
    <3> QED
      BY <1>3, <1>5, <2>1, <3>1 DEF IInv, TypeOK
  <2>8. Live(tables, iterator)'
    <3>1. Live(tables, iterator)
      BY DEF IInv
    <3>2. iterator.key # None => iterator.key \in u.buckets[iterator.index][iterator.bucket]
      BY <1>1, <2>3, <3>1 DEF Live, Chain, Position
    <3> QED
      BY <1>3, <1>5, <3>1, <3>2 DEF Live, Chain
  <2>9. Ahead \subseteq Ahead' /\ Ahead' \subseteq Ahead \cup {k}
    <3>1. CASE iterator.key = None
      BY <1>3, <3>1 DEF Ahead
    <3>2. CASE iterator.key # None
      <4>1. \A j \in Key : Place(tables, j)' = Place(tables, j)
        BY <1>1, <1>5, <2>2, <3>2
      <4>2. keys \subseteq Key
        BY KeysFinite DEF keys
      <4> QED
        BY <1>3, <2>5, <4>1, <4>2 DEF Ahead
    <3> QED
      BY <3>1, <3>2
  <2>10. iterator.key # None => (Rehashing(tables)' <=> Rehashing(tables))
    BY <1>1, <1>5, <2>2 DEF Rehashing
  <2>11. Iterating'
    BY <1>3, <2>1, <2>5, <2>9, <2>10 DEF IInv, Iterating
  <2>12. Good(tables)'
    BY <1>5, <2>2
  <2>13. seen' = seen
    BY <1>3
  <2> QED
    BY <2>1, <2>5, <2>6, <2>7, <2>8, <2>11, <2>12, <2>13
    DEF IInv, Contract!Insert, Contract!Returns
<1> QED
  BY <1>4, <1>5 DEF Insert

LEMMA EraseStep ==
  ASSUME IInv, NEW k \in Key, Erase(k)
  PROVE  IInv' /\ Contract!Erase(k)
<1> DEFINE t == CheckRehash
           c == Chain(t, Place(t, k)) \ {k}
           u == WithChain(t, Place(t, k), c)
           q == SteppedOff(t, k)
<1>1. Good(t) /\ KeysOf(t) = keys /\ (iterator.key # None => t = tables)
  BY CheckRehashGood
<1>2. Has(t, k) <=> k \in keys
  BY <1>1, HasSound
<1>3. midway' = midway /\ num_node' = Counted(t, k)
  BY DEF Erase
<1>4. CASE ~Has(t, k) /\ Returns(k, -1) /\ tables' = t /\ UNCHANGED <<iterator, seen, todo>>
  <2>1. result' = [key |-> k, ret |-> -1] /\ num_node' = num_node
    BY <1>3, <1>4 DEF Returns, Counted
  <2>2. result' \in [key : Key \cup {None}, ret : {0, -1}]
    BY <2>1
  <2>3. IInv' /\ keys' = keys
    BY <1>3, <1>4, <2>1, <2>2, LookupStep
  <2>4. k \notin keys /\ k \notin seen
    BY <1>2, <1>4 DEF IInv, Iterating
  <2>5. keys' = keys \ {k} /\ seen' = seen \ {k}
    BY <1>4, <2>3, <2>4
  <2> QED
    BY <2>1, <2>3, <2>4, <2>5 DEF Contract!Erase, Contract!Returns
<1>5. CASE /\ Has(t, k) /\ Returns(k, 0) /\ iterator' = q /\ tables' = u
           /\ seen' = seen \ {k} /\ todo' = todo \ {k}
  <2>1. result' = [key |-> k, ret |-> 0] /\ k \in keys /\ num_node' = num_node - 1
    BY <1>2, <1>3, <1>5 DEF Returns, Counted
  <2>2. /\ Good(u) /\ u.num = t.num /\ u.rehash = t.rehash
        /\ \A j \in Key : Place(u, j) = Place(t, j)
        /\ \A j : j \in KeysOf(u) <=> IF j = k THEN k \in c ELSE j \in KeysOf(t)
        /\ \A i \in {0, 1}, b \in Bucket :
             u.buckets[i][b] = IF [index |-> i, bucket |-> b] = Place(t, k)
                                 THEN c ELSE t.buckets[i][b]
    BY <1>1, WithChainGood
  <2>3. \A i \in {0, 1}, b \in Bucket : t.buckets[i][b] \ {k} \subseteq u.buckets[i][b]
    <3>1. \A i \in {0, 1}, b \in Bucket :
            [index |-> i, bucket |-> b] = Place(t, k) => t.buckets[i][b] \ {k} \subseteq c
      BY DEF Chain
    <3> QED
      BY <2>2, <3>1
  <2>4. KeysOf(u) = keys \ {k}
    BY <1>1, <2>2
  <2>5. Live(tables, iterator) /\ Good(tables)
    BY DEF IInv
  <2> HIDE DEF t, c, u, q
  <2>6. keys' = keys \ {k}
    BY <1>5, <2>4 DEF keys
  <2>7. SizeCounts'
    <3>1. IsFiniteSet(keys) /\ num_node = Cardinality(keys)
      BY KeysFinite DEF IInv, SizeCounts, keys
    <3> QED
      BY <2>1, <2>6, <3>1, FS_RemoveElement DEF SizeCounts
  <2>8. Live(t, q) /\ q.key # k /\ (iterator.key = None => q.key = None)
        /\ From(t, q) \subseteq Ahead
        /\ (iterator.key # None /\ ~Rehashing(tables) => Ahead \ {k} \subseteq From(t, q))
    <3>1. CASE iterator.key # k
      <4>1. q = iterator
        BY <3>1 DEF q, SteppedOff
      <4>2. CASE iterator.key = None
        BY <2>5, <3>1, <4>1, <4>2 DEF Live, From
      <4>3. CASE iterator.key # None
        BY <1>1, <2>5, <3>1, <4>1, <4>3, AheadIsFrom
      <4> QED
        BY <4>2, <4>3
    <3>2. CASE iterator.key = k
      <4>1. iterator.key # None /\ t = tables
        BY <1>1, <3>2, Sizes
      <4>2. q = NextPos(tables)
        BY <3>2, <4>1 DEF q, SteppedOff
      <4> QED
        BY <2>5, <3>2, <4>1, <4>2, NextPosSound
    <3> QED
      BY <3>1, <3>2
  <2>9. Live(u, q)
    BY <2>3, <2>8 DEF Live, Chain, Position
  <2>10. From(u, q) = From(t, q) \ {k}
    <3>1. \A j \in KeysOf(t) : Place(u, j) = Place(t, j)
      BY <2>2, KeysFinite
    <3>2. \A j : j \in KeysOf(u) <=> j \in KeysOf(t) /\ j # k
      BY <1>1, <2>4
    <3> QED
      BY <3>1, <3>2 DEF From
  <2>11. Ahead' = From(t, q) \ {k}
    <3>1. Ahead' = From(tables', iterator')
      BY DEF Ahead, From, keys
    <3> QED
      BY <1>5, <2>10, <3>1
  <2>12. TypeOK'
    <3>1. tables' \in Tables /\ iterator' \in Position
      BY <1>5, <2>2, <2>9 DEF Good, Live
    <3>2. num_node' \in Nat
      <4>1. Cardinality(keys') \in Nat
        BY KeysFinite, FS_CardinalityType DEF keys
      <4> QED
        BY <2>7, <4>1 DEF SizeCounts
    <3> QED
      BY <1>3, <1>5, <2>1, <3>1, <3>2 DEF IInv, TypeOK, Position
  <2>13. Iterating'
    <3>1. seen' \subseteq keys' /\ seen' \cap Ahead' = {}
      BY <1>5, <2>6, <2>8, <2>11 DEF IInv, Iterating
    <3>2. ~midway' => todo' \subseteq Ahead'
      <4>1. CASE iterator.key = None
        <5>1. Ahead = {}
          BY <4>1 DEF Ahead
        <5> QED
          BY <1>3, <1>5, <5>1 DEF IInv, Iterating
      <4>2. CASE iterator.key # None
        BY <1>3, <1>5, <2>8, <2>11, <4>2 DEF IInv, Iterating
      <4> QED
        BY <4>1, <4>2
    <3>3. ~midway' /\ iterator'.key # None => ~Rehashing(tables')
      <4> SUFFICES ASSUME ~midway', iterator'.key # None PROVE ~Rehashing(tables')
        OBVIOUS
      <4>1. iterator.key # None
        BY <1>5, <2>8
      <4>2. ~Rehashing(tables) /\ t = tables
        BY <1>1, <1>3, <4>1 DEF IInv, Iterating
      <4> QED
        BY <1>5, <2>2, <4>2 DEF Rehashing
    <3> QED
      BY <3>1, <3>2, <3>3 DEF Iterating
  <2>14. Good(tables)' /\ Live(tables, iterator)'
    BY <1>5, <2>2, <2>9
  <2>15. seen' = seen \ {k}
    BY <1>5
  <2> QED
    BY <2>1, <2>6, <2>7, <2>12, <2>13, <2>14, <2>15
    DEF IInv, Contract!Erase, Contract!Returns
<1> QED
  BY <1>4, <1>5 DEF Erase

LEMMA BeginStep ==
  ASSUME IInv, BeginIterate
  PROVE  IInv' /\ Contract!Restart
<1>1. /\ iterator' = FirstPos(tables) /\ UNCHANGED <<tables, num_node, result>>
      /\ seen' = {} /\ todo' = keys /\ midway' = Rehashing(tables)
  BY DEF BeginIterate
<1>2. Good(tables)
  BY DEF IInv
<1>3. Live(tables, FirstPos(tables)) /\ From(tables, FirstPos(tables)) = KeysOf(tables)
  BY <1>2, FirstPosSound
<1>4. keys' = keys
  BY <1>1 DEF keys
<1>5. Ahead' = keys
  <2>1. Ahead' = From(tables', iterator')
    BY DEF Ahead, From, keys
  <2> QED
    BY <1>1, <1>3, <2>1 DEF keys
<1>6. iterator' \in Position
  BY <1>1, <1>3 DEF Live
<1>7. midway' \in BOOLEAN /\ todo' \subseteq Key
  BY <1>1, KeysFinite DEF Rehashing, keys
<1>8. TypeOK'
  BY <1>1, <1>6, <1>7 DEF IInv, TypeOK, Position
<1>9. Good(tables)' /\ Live(tables, iterator)' /\ SizeCounts'
  BY <1>1, <1>2, <1>3, <1>4 DEF IInv, SizeCounts
<1>10. Iterating'
  BY <1>1, <1>4, <1>5 DEF Iterating
<1> QED
  BY <1>1, <1>4, <1>8, <1>9, <1>10 DEF IInv, Contract!Restart

LEMMA EndStep ==
  ASSUME IInv, EndIterate
  PROVE  IInv' /\ Contract!Restart
<1>1. /\ iterator' = NoPos /\ UNCHANGED <<tables, num_node, result>>
      /\ seen' = {} /\ todo' = {} /\ midway' = FALSE
  BY DEF EndIterate
<1>2. NoPos \in Position /\ NoPos.key = None
  BY Sizes DEF NoPos, Position
<1>3. keys' = keys
  BY <1>1 DEF keys
<1>4. TypeOK'
  BY <1>1, <1>2 DEF IInv, TypeOK, Position
<1>5. Good(tables)' /\ Live(tables, iterator)' /\ SizeCounts'
  BY <1>1, <1>2, <1>3 DEF IInv, SizeCounts, Live
<1>6. Iterating'
  BY <1>1, <1>2 DEF Iterating
<1> QED
  BY <1>1, <1>3, <1>4, <1>5, <1>6 DEF IInv, Contract!Restart

LEMMA IterateStep ==
  ASSUME IInv, Iterate
  PROVE  IInv' /\ (Contract!Visit \/ Contract!Exhausted)
<1>1. UNCHANGED <<tables, num_node, midway>> /\ keys' = keys
  BY DEF Iterate, keys
<1>2. Good(tables) /\ Live(tables, iterator)
  BY DEF IInv
<1>3. CASE iterator.key = None /\ Returns(None, -1) /\ UNCHANGED <<iterator, seen, todo>>
  <2>1. result' = [key |-> None, ret |-> -1]
    BY <1>3 DEF Returns
  <2>2. TypeOK'
    BY <1>1, <1>3, <2>1 DEF IInv, TypeOK
  <2>3. Ahead' = Ahead
    BY <1>1, <1>3 DEF Ahead
  <2>4. Good(tables)' /\ Live(tables, iterator)' /\ SizeCounts' /\ Iterating'
    BY <1>1, <1>2, <1>3, <2>3 DEF IInv, SizeCounts, Iterating
  <2> QED
    BY <1>1, <1>3, <2>1, <2>2, <2>4 DEF IInv, Contract!Exhausted, Contract!Returns
<1>4. CASE /\ iterator.key # None /\ Returns(iterator.key, 0)
           /\ iterator' = NextPos(tables)
           /\ seen' = seen \cup {iterator.key} /\ todo' = todo \ {iterator.key}
  <2> DEFINE e == iterator.key
             q == NextPos(tables)
  <2>1. result' = [key |-> e, ret |-> 0]
    BY <1>4 DEF Returns
  <2>2. /\ Live(tables, q) /\ From(tables, q) \subseteq Ahead \ {e}
        /\ ~Rehashing(tables) => Ahead \ {e} \subseteq From(tables, q)
    BY <1>2, <1>4, NextPosSound
  <2>3. e \in Ahead
    BY <1>2, <1>4, LiveAhead, AheadIsFrom
  <2>4. e \in keys /\ e \notin seen /\ e \in Key
    BY <2>3, KeysFinite DEF IInv, Iterating, Ahead, keys
  <2> HIDE DEF e, q
  <2>5. Ahead' = From(tables, q)
    <3>1. Ahead' = From(tables', iterator')
      BY DEF Ahead, From, keys
    <3> QED
      BY <1>1, <1>4, <3>1 DEF q
  <2>6. q \in Position /\ seen' = seen \cup {e} /\ todo' = todo \ {e} /\ iterator' = q
    BY <1>4, <2>2 DEF Live, e, q
  <2>7. TypeOK'
    BY <1>1, <2>1, <2>4, <2>6 DEF IInv, TypeOK, Position
  <2>8. Good(tables)' /\ Live(tables, iterator)' /\ SizeCounts'
    BY <1>1, <1>2, <2>2, <2>6 DEF IInv, SizeCounts
  <2>9. ~midway => ~Rehashing(tables)
    BY <1>4 DEF IInv, Iterating
  <2>10. Iterating'
    <3>1. seen' \subseteq keys' /\ seen' \cap Ahead' = {}
      BY <1>1, <2>2, <2>4, <2>5, <2>6 DEF IInv, Iterating
    <3>2. ~midway' => todo' \subseteq Ahead' /\ ~Rehashing(tables')
      BY <1>1, <2>2, <2>5, <2>6, <2>9 DEF IInv, Iterating
    <3> QED
      BY <3>1, <3>2 DEF Iterating
  <2>11. Contract!Visit
    BY <1>1, <2>1, <2>4, <2>6 DEF Contract!Visit, Contract!Returns
  <2> QED
    BY <2>7, <2>8, <2>10, <2>11 DEF IInv
<1> QED
  BY <1>3, <1>4 DEF Iterate

LEMMA NextStep ==
  ASSUME IInv, [Next]_vars
  PROVE  IInv' /\ [Contract!Next]_<<keys, seen, result>>
<1>1. ASSUME NEW k \in Key, Insert(k) \/ Erase(k) \/ Find(k)
      PROVE  IInv' /\ Contract!Next
  BY <1>1, InsertStep, EraseStep, FindStep DEF Contract!Next
<1>2. CASE BeginIterate \/ EndIterate
  BY <1>2, BeginStep, EndStep DEF Contract!Next
<1>3. CASE Iterate
  BY <1>3, IterateStep DEF Contract!Next
<1>4. CASE UNCHANGED vars
  <2>1. keys' = keys /\ Ahead' = Ahead
    BY <1>4 DEF vars, keys, Ahead
  <2> QED
    BY <1>4, <2>1 DEF IInv, TypeOK, SizeCounts, Iterating, vars
<1> QED
  BY <1>1, <1>2, <1>3, <1>4 DEF Next

-----------------------------------------------------------------------------
(* The theorems. *)

\* Every variable keeps its type; keys are where they are looked up, the size
\* counts them, and an iteration has what it handed out behind it.
THEOREM TableInvariance == Spec => []IInv
BY InitIInv, NextStep, PTL DEF Spec

\* While buckets move, every key is where shash_find, shash_insert and
\* shash_erase search it, and only there.
THEOREM LocatedHolds == Spec => []Located
<1>1. IInv => Located
  BY DEF IInv, Good, Placed, Located
<1> QED
  BY <1>1, TableInvariance, PTL

\* shash_size is the number of keys.
THEOREM SizeCountsHolds == Spec => []SizeCounts
<1>1. IInv => SizeCounts
  BY DEF IInv
<1> QED
  BY <1>1, TableInvariance, PTL

\* An iteration that begins outside a rehash misses no key, however its user
\* erases and inserts meanwhile.
THEOREM NothingMissedHolds == Spec => []NothingMissed
<1>1. IInv => NothingMissed
  BY DEF IInv, Iterating, NothingMissed
<1> QED
  BY <1>1, TableInvariance, PTL

\* The table implements KeySet: lookups, insertions and erasures answer as
\* those of a set do, and an iteration hands out no key twice and none that is
\* gone.
THEOREM TableKeepsContract == Spec => KeepsContract
<1>1. Init => Contract!Init
  BY InitIInv
<1>2. IInv /\ [Next]_vars => [Contract!Next]_<<keys, seen, result>>
  BY NextStep
<1> QED
  BY <1>1, <1>2, TableInvariance, PTL DEF Spec, KeepsContract, Contract!Spec
-----------------------------------------------------------------------------
(* The table in the system of MCMaps. *)

LEMMA SystemTable == SystemSpec => Spec
<1>1. SystemInit => Init
  BY DEF SystemInit
<1>2. [SystemNext]_<<component, vars, listVars>> => [Next]_vars
  BY DEF SystemNext, TableStep, ListStep
<1> QED
  BY <1>1, <1>2, PTL DEF SystemSpec, Spec

\* What the iterator is on is a node of the bucket it names, whatever was
\* inserted or erased since, besides the places and the count.
THEOREM TableSoundHolds == SystemSpec => []TableSound
<1>1. IInv => TypeOK /\ Located /\ SizeCounts /\ IteratorLive
  BY DEF IInv, Good, Placed, Located, Live, IteratorLive
<1>2. IInv => TableSound
  BY <1>1 DEF TableSound
<1> QED
  BY <1>2, SystemTable, TableInvariance, PTL

-----------------------------------------------------------------------------
(* The skip list. *)

LEMMA SameCount == \A A : L!Cardinality(A) = Cardinality(A)
BY DEF L!Cardinality, Cardinality

LEMMA SameFinite == \A A : L!IsFiniteSet(A) <=> IsFiniteSet(A)
BY DEF L!IsFiniteSet, IsFiniteSet

LEMMA ListConstants ==
  /\ Keys \subseteq Nat /\ 0 \notin Keys /\ IsFiniteSet(Keys)
  /\ L!head = 0 /\ L!Node = Keys \cup {0}
  /\ L!max_height \in Nat \ {0} /\ L!Level = 1..L!max_height
  /\ SpanMod \in Nat \ {0} /\ Cardinality(Keys) < SpanMod /\ L!Span = 0..SpanMod - 1
  /\ None \notin Int
<1>1. /\ Keys \subseteq Nat \ {0} /\ IsFiniteSet(Keys) /\ Height \in Nat
      /\ SpanMod \in Nat /\ SpanMod > Cardinality(Keys) /\ None \notin Int
  BY SlistAssumption, SameCount, SameFinite DEF SlistAssumption, L!SlistAssumption
<1>2. Cardinality(Keys) \in Nat
  BY <1>1, FS_CardinalityType
<1> QED
  BY <1>1, <1>2 DEF L!head, L!Node, L!max_height, L!Level, L!Span

\* Numbers without wrapping, and how many of a set are up to a number.
LEMMA Wrapped ==
  ASSUME NEW a \in Int, NEW n \in Nat \ {0}
  PROVE  a % n \in 0..n - 1 /\ (a \in 0..n - 1 => a % n = a)
OBVIOUS

Count(A, n) == Cardinality({j \in A : j <= n})

LEMMA CountType ==
  ASSUME NEW A, IsFiniteSet(A), NEW n
  PROVE  Count(A, n) \in Nat /\ Count(A, n) <= Cardinality(A)
<1>1. {j \in A : j <= n} \in SUBSET A
  OBVIOUS
<1> QED
  BY <1>1, FS_Subset, FS_CardinalityType DEF Count

LEMMA CountBetween ==
  ASSUME NEW A \in SUBSET Nat, IsFiniteSet(A), NEW n \in Nat, NEW m \in Nat, n <= m
  PROVE  Cardinality({j \in A : j > n /\ j <= m}) = Count(A, m) - Count(A, n)
<1> DEFINE B == {j \in A : j <= m}
           C == {j \in A : j <= n}
<1>1. IsFiniteSet(B)
  <2>1. B \in SUBSET A
    OBVIOUS
  <2> QED
    BY <2>1, FS_Subset
<1>2. B \cap C = C /\ B \ C = {j \in A : j > n /\ j <= m}
  <2>1. \A j \in A : j \in Nat /\ (j <= n => j <= m) /\ (j > n <=> ~(j <= n))
    OBVIOUS
  <2>2. \A j \in A : (j \in B <=> j <= m) /\ (j \in C <=> j <= n)
    OBVIOUS
  <2>3. B \subseteq A /\ C \subseteq A
    OBVIOUS
  <2> HIDE DEF B, C
  <2>4. B \cap C = C
    BY <2>1, <2>2, <2>3
  <2>5. B \ C = {j \in A : j > n /\ j <= m}
    BY <2>1, <2>2, <2>3
  <2> QED
    BY <2>4, <2>5
<1>3. Cardinality(B \ C) = Cardinality(B) - Cardinality(B \cap C)
  BY <1>1, FS_Difference
<1> QED
  BY <1>2, <1>3 DEF Count

LEMMA CountSame ==
  ASSUME NEW A \in SUBSET Nat, NEW n \in Nat, NEW m \in Nat,
         \A j \in A : (j <= n <=> j <= m)
  PROVE  Count(A, n) = Count(A, m)
<1>1. {j \in A : j <= n} = {j \in A : j <= m}
  OBVIOUS
<1> QED
  BY <1>1 DEF Count

LEMMA CountAdd ==
  ASSUME NEW A \in SUBSET Nat, IsFiniteSet(A), NEW k \in Nat, k \notin A, NEW n \in Nat
  PROVE  Count(A \cup {k}, n) = Count(A, n) + (IF k <= n THEN 1 ELSE 0)
<1> DEFINE B == {j \in A : j <= n}
<1>1. IsFiniteSet(B) /\ k \notin B
  <2>1. B \in SUBSET A
    OBVIOUS
  <2> QED
    BY <2>1, FS_Subset
<1>2. Cardinality(B) \in Nat
  BY <1>1, FS_CardinalityType
<1>3. CASE k <= n
  <2>1. {j \in A \cup {k} : j <= n} = B \cup {k}
    BY <1>3
  <2>2. Cardinality(B \cup {k}) = Cardinality(B) + 1
    BY <1>1, FS_AddElement
  <2> QED
    BY <1>3, <2>1, <2>2 DEF Count
<1>4. CASE ~(k <= n)
  <2>1. {j \in A \cup {k} : j <= n} = B
    BY <1>4
  <2> QED
    BY <1>2, <1>4, <2>1 DEF Count
<1> QED
  BY <1>3, <1>4

LEMMA CountRemove ==
  ASSUME NEW A \in SUBSET Nat, IsFiniteSet(A), NEW k \in A, NEW n \in Nat
  PROVE  Count(A \ {k}, n) = Count(A, n) - (IF k <= n THEN 1 ELSE 0)
<1>1. IsFiniteSet(A \ {k})
  BY FS_RemoveElement
<1>2. Count(A, n) = Count(A \ {k}, n) + (IF k <= n THEN 1 ELSE 0)
  <2>1. (A \ {k}) \cup {k} = A
    OBVIOUS
  <2> QED
    BY <1>1, <2>1, CountAdd
<1>3. Count(A \ {k}, n) \in Nat /\ Count(A, n) \in Nat
  BY <1>1, CountType
<1> QED
  BY <1>2, <1>3

\* Every set of numbers has a least one, and a greatest one if it is bounded.
LEMMA Lowest ==
  ASSUME NEW A \in SUBSET Nat, A # {}
  PROVE  \E x \in A : \A y \in A : x <= y
<1>1. PICK x \in A : \A y \in A : ~(<<y, x>> \in OpToRel(<, Nat))
  BY NatLessThanWellFounded, WFMin
<1>2. \A y \in A : ~(y < x)
  BY <1>1 DEF OpToRel
<1> QED
  BY <1>2

LEMMA Highest ==
  ASSUME NEW A \in SUBSET Nat, A # {}, NEW n \in Nat, \A x \in A : x <= n
  PROVE  \E x \in A : \A y \in A : y <= x
<1> DEFINE B == {n - x : x \in A}
<1>1. B \in SUBSET Nat /\ B # {}
  <2>1. \A x \in A : n - x \in Nat
    OBVIOUS
  <2> QED
    BY <2>1
<1>2. PICK b \in B : \A y \in B : b <= y
  BY <1>1, Lowest
<1>3. PICK x \in A : b = n - x
  BY <1>2
<1>4. \A y \in A : n - x <= n - y
  BY <1>2, <1>3
<1>5. \A y \in A : y \in Nat /\ x \in Nat
  OBVIOUS
<1>6. \A y \in A : y <= x
  BY <1>4, <1>5
<1> QED
  BY <1>6

\* The head and the nodes of a level; the keys up to a node.
Onto(l) == L!On(l) \cup {0}
Pos(n) == Count(L!keys, n)

\* Nodes are bare of links on the levels above their height.
Bare ==
  \A l \in L!Level, n \in Keys : n \notin L!On(l) => links[n][l].next = None

TailIsLast ==
  IF L!keys = {} THEN tail = None
  ELSE tail \in L!keys /\ \A k \in L!keys : k <= tail

ListIInv ==
  /\ L!TypeOK /\ L!LevelsNest /\ L!SpansExact /\ Bare /\ TailIsLast
  /\ num_nodes = Cardinality(L!keys)
  /\ forward \in L!keys \cup {None} /\ backward \in L!keys \cup {None}

LEMMA ListSets ==
  ASSUME L!TypeOK
  PROVE  /\ L!keys \subseteq Keys /\ L!keys \in SUBSET Nat /\ 0 \notin L!keys
         /\ IsFiniteSet(L!keys) /\ Cardinality(L!keys) <= Cardinality(Keys)
         /\ \A l \in L!Level : /\ L!On(l) \subseteq L!keys /\ Onto(l) \subseteq L!Node
                               /\ Onto(l) \subseteq Nat
         /\ L!On(1) = L!keys
         /\ \A h, l \in L!Level : h <= l => L!On(l) \subseteq L!On(h)
<1>1. L!keys \subseteq Keys /\ L!keys \in SUBSET Nat /\ 0 \notin L!keys
  BY ListConstants DEF L!keys
<1>2. IsFiniteSet(L!keys) /\ Cardinality(L!keys) <= Cardinality(Keys)
  BY <1>1, ListConstants, FS_Subset
<1>3. \A l \in L!Level : L!On(l) \subseteq L!keys
  BY DEF L!On
<1>4. \A k \in Keys : height[k] \in Nat
  BY ListConstants DEF L!TypeOK
<1>5. L!On(1) = L!keys
  BY <1>4 DEF L!On, L!keys
<1>6. \A h, l \in L!Level : h <= l => L!On(l) \subseteq L!On(h)
  <2>1. ASSUME NEW h \in L!Level, NEW l \in L!Level, h <= l, NEW k \in L!On(l)
        PROVE  k \in L!On(h)
    <3>1. h \in Nat /\ l \in Nat
      BY <2>1, ListConstants
    <3>2. k \in L!keys /\ height[k] >= l
      BY <2>1 DEF L!On
    <3>3. height[k] \in Nat
      BY <1>1, <1>4, <3>2
    <3>4. height[k] >= h
      BY <2>1, <3>1, <3>2, <3>3
    <3> QED
      BY <3>2, <3>4 DEF L!On
  <2> QED
    BY <2>1
<1>7. ASSUME NEW l \in L!Level PROVE Onto(l) \subseteq L!Node /\ Onto(l) \subseteq Nat
  <2>1. L!On(l) \subseteq Keys /\ L!On(l) \subseteq Nat /\ L!Node = Keys \cup {0}
    BY <1>1, <1>3, ListConstants
  <2> QED
    BY <2>1 DEF Onto
<1> QED
  BY <1>1, <1>2, <1>3, <1>5, <1>6, <1>7

\* LevelsNest without its LET.
Nested ==
  \A l \in L!Level : \A n \in Onto(l) :
    \/ links[n][l].next = None /\ \A k \in L!On(l) : k <= n
    \/ /\ links[n][l].next \in L!On(l) /\ links[n][l].next > n
       /\ links[links[n][l].next][l].prev = n
       /\ \A k \in L!On(l) : k <= n \/ k >= links[n][l].next

LEMMA NestedIs ==
  L!TypeOK => (L!LevelsNest <=> Nested /\ \A k \in L!keys : height[k] <= cur_height)
<1> SUFFICES ASSUME L!TypeOK
             PROVE  L!LevelsNest <=> Nested /\ \A k \in L!keys : height[k] <= cur_height
  OBVIOUS
<1>1. \A l \in L!Level, n \in L!Node : n \in Onto(l) <=> n = 0 \/ n \in L!On(l)
  BY DEF Onto
<1>2. \A l \in L!Level : L!On(l) \subseteq Nat /\ Onto(l) \subseteq L!Node
  BY ListSets DEF Onto
<1>3. None \notin Nat
  BY ListConstants
<1> DEFINE P(l, n) == LET m == links[n][l].next IN
                      IF m = None THEN \A k \in L!On(l) : k <= n
                      ELSE /\ m \in L!On(l) /\ m > n /\ links[m][l].prev = n
                           /\ \A k \in L!On(l) : k <= n \/ k >= m
           Q(l, n) == \/ links[n][l].next = None /\ \A k \in L!On(l) : k <= n
                      \/ /\ links[n][l].next \in L!On(l) /\ links[n][l].next > n
                         /\ links[links[n][l].next][l].prev = n
                         /\ \A k \in L!On(l) : k <= n \/ k >= links[n][l].next
<1>4. \A l \in L!Level, n \in L!Node : P(l, n) <=> Q(l, n)
  BY <1>2, <1>3
<1>5. L!LevelsNest <=> /\ \A l \in L!Level, n \in L!Node : n = 0 \/ n \in L!On(l) => P(l, n)
                       /\ \A k \in L!keys : height[k] <= cur_height
  BY ListConstants DEF L!LevelsNest
<1>6. Nested <=> \A l \in L!Level : \A n \in Onto(l) : Q(l, n)
  BY DEF Nested
<1> HIDE DEF P, Q
<1> QED
  BY <1>1, <1>2, <1>4, <1>5, <1>6

LEMMA NestedNext ==
  (L!TypeOK => (L!LevelsNest <=> Nested /\ \A k \in L!keys : height[k] <= cur_height))'
BY NestedIs, PTL

Exact ==
  \A l \in L!Level : \A n \in Onto(l) :
    links[n][l].next # None => links[n][l].span = Pos(links[n][l].next) - Pos(n)

LEMMA ExactIs ==
  ASSUME L!TypeOK, Nested
  PROVE  L!SpansExact <=> Exact
<1>1. ASSUME NEW l \in L!Level, NEW n \in Onto(l), links[n][l].next # None
      PROVE  L!Cardinality({k \in L!keys : k > n /\ k <= links[n][l].next}) =
               Pos(links[n][l].next) - Pos(n)
  <2>1. /\ n \in Nat /\ links[n][l].next \in Nat /\ links[n][l].next > n
        /\ L!keys \in SUBSET Nat /\ IsFiniteSet(L!keys)
    BY <1>1, ListSets DEF Nested, Onto
  <2> QED
    BY <2>1, CountBetween, SameCount DEF Pos
<1>2. \A l \in L!Level, n \in L!Node : n \in Onto(l) <=> n = 0 \/ n \in L!On(l)
  BY DEF Onto
<1>3. \A l \in L!Level : Onto(l) \subseteq L!Node
  BY ListSets
<1> DEFINE P(l, n) == links[n][l].next # None =>
             links[n][l].span = L!Cardinality({k \in L!keys : k > n /\ k <= links[n][l].next})
<1>4. L!SpansExact <=> \A l \in L!Level, n \in L!Node : n = 0 \/ n \in L!On(l) => P(l, n)
  BY ListConstants DEF L!SpansExact
<1>5. \A l \in L!Level : \A n \in Onto(l) : P(l, n) <=>
         (links[n][l].next # None => links[n][l].span = Pos(links[n][l].next) - Pos(n))
  BY <1>1
<1> HIDE DEF P
<1> QED
  BY <1>2, <1>3, <1>4, <1>5 DEF Exact

\* What the search relies on.
Searchable ==
  L!TypeOK /\ Nested /\ Exact /\ Bare /\ \A k \in L!keys : height[k] <= cur_height

LEMMA SearchableIs == ListIInv => Searchable
BY NestedIs, ExactIs DEF ListIInv, Searchable

\* The last node of a level before k.
Last(k, l) == CHOOSE n \in Onto(l) : n < k /\ \A j \in L!On(l) : j < k => j <= n

LEMMA LastIs ==
  ASSUME L!TypeOK, NEW k \in Keys, NEW l \in L!Level
  PROVE  /\ Last(k, l) \in Onto(l) /\ Last(k, l) \in Nat /\ Last(k, l) < k
         /\ \A j \in L!On(l) : j < k => j <= Last(k, l)
<1> DEFINE A == {n \in Onto(l) : n < k}
<1>1. k \in Nat /\ 0 < k /\ Onto(l) \subseteq Nat
  BY ListConstants, ListSets
<1>2. A \in SUBSET Nat /\ 0 \in A /\ \A n \in A : n <= k
  BY <1>1 DEF Onto
<1>3. PICK n \in A : \A j \in A : j <= n
  BY <1>1, <1>2, Highest
<1>4. \A j \in L!On(l) : j < k => j <= n
  BY <1>3 DEF Onto
<1>5. \E m \in Onto(l) : m < k /\ \A j \in L!On(l) : j < k => j <= m
  BY <1>3, <1>4
<1> QED
  BY <1>1, <1>5 DEF Last

LEMMA PosType ==
  ASSUME L!TypeOK, NEW n
  PROVE  Pos(n) \in 0..SpanMod - 1
<1>1. IsFiniteSet(L!keys) /\ Cardinality(L!keys) <= Cardinality(Keys)
  BY ListSets
<1>2. Pos(n) \in Nat /\ Pos(n) <= Cardinality(L!keys)
  BY <1>1, CountType DEF Pos
<1>3. Cardinality(L!keys) \in Nat /\ Cardinality(Keys) \in Nat
  BY <1>1, ListConstants, FS_CardinalityType
<1>4. SpanMod \in Nat /\ Cardinality(Keys) < SpanMod
  BY ListConstants
<1> QED
  BY <1>1, <1>2, <1>3, <1>4

LEMMA PosGrows ==
  L!TypeOK => \A n, m \in Nat : n <= m => Pos(m) - Pos(n) \in 0..SpanMod - 1
<1> SUFFICES ASSUME L!TypeOK, NEW n \in Nat, NEW m \in Nat, n <= m
             PROVE  Pos(m) - Pos(n) \in 0..SpanMod - 1
  OBVIOUS
<1>1. L!keys \in SUBSET Nat /\ IsFiniteSet(L!keys)
  BY ListSets
<1>2. Cardinality({j \in L!keys : j > n /\ j <= m}) = Pos(m) - Pos(n)
  BY <1>1, CountBetween DEF Pos
<1>3. IsFiniteSet({j \in L!keys : j > n /\ j <= m})
  <2>1. {j \in L!keys : j > n /\ j <= m} \in SUBSET L!keys
    OBVIOUS
  <2> QED
    BY <1>1, <2>1, FS_Subset
<1>4. Pos(m) - Pos(n) \in Nat
  BY <1>2, <1>3, FS_CardinalityType
<1>5. Pos(m) \in 0..SpanMod - 1 /\ Pos(n) \in 0..SpanMod - 1 /\ SpanMod \in Nat
  BY PosType, ListConstants
<1> QED
  BY <1>4, <1>5

LEMMA PosGrowsNext ==
  (L!TypeOK => \A n, m \in Nat : n <= m => Pos(m) - Pos(n) \in 0..SpanMod - 1)'
BY PosGrows, PTL

LEMMA PosHead == L!TypeOK => Pos(0) = 0
<1> SUFFICES ASSUME L!TypeOK PROVE Pos(0) = 0
  OBVIOUS
<1>1. {j \in L!keys : j <= 0} = {}
  BY ListSets
<1> QED
  BY <1>1, FS_EmptySet DEF Pos, Count

\* The equation of the walk along a level, and what solves it.
Walks(f, k, l) ==
  f = [n \in L!Node |->
         LET m == links[n][l].next IN
         IF m # None /\ m < k
           THEN [f[m] EXCEPT !.rank = (@ + links[n][l].span) % SpanMod]
           ELSE [node |-> n, rank |-> 0]]

Walked(k, l) ==
  [n \in L!Node |->
     IF n \in Onto(l) /\ n < k THEN [node |-> Last(k, l), rank |-> Pos(Last(k, l)) - Pos(n)]
     ELSE [node |-> n, rank |-> 0]]

\* One step of the walk: it goes on exactly before the last node.
LEMMA WalkStep ==
  ASSUME Searchable, NEW k \in Keys, NEW l \in L!Level, NEW n \in L!Node
  PROVE  LET m == links[n][l].next IN
         IF m # None /\ m < k
           THEN /\ n \in Onto(l) /\ m \in L!On(l) /\ n < m
                /\ links[n][l].span = Pos(m) - Pos(n)
           ELSE n \in Onto(l) /\ n < k => n = Last(k, l)
<1> DEFINE m == links[n][l].next
<1>1. /\ n \in Nat /\ k \in Nat /\ None \notin Nat /\ L!Node = Keys \cup {0}
      /\ L!On(l) \subseteq Nat
  BY ListConstants, ListSets DEF Searchable
<1>2. CASE n \notin Onto(l)
  <2>1. m = None
    BY <1>1, <1>2 DEF Searchable, Bare, Onto
  <2> QED
    BY <1>2, <2>1
<1>3. CASE n \in Onto(l)
  <2>1. \/ m = None /\ \A j \in L!On(l) : j <= n
        \/ /\ m \in L!On(l) /\ m > n
           /\ \A j \in L!On(l) : j <= n \/ j >= m
    BY <1>3 DEF Searchable, Nested
  <2>2. m # None => links[n][l].span = Pos(m) - Pos(n)
    BY <1>3 DEF Searchable, Exact
  <2>3. CASE m # None /\ m < k
    BY <1>1, <1>3, <2>1, <2>2, <2>3
  <2>4. CASE ~(m # None /\ m < k)
    <3>1. ASSUME n < k PROVE n = Last(k, l)
      <4>1. /\ Last(k, l) \in Onto(l) /\ Last(k, l) \in Nat /\ Last(k, l) < k
            /\ \A j \in L!On(l) : j < k => j <= Last(k, l)
        BY LastIs DEF Searchable
      <4>2. n <= Last(k, l)
        BY <1>1, <1>3, <3>1, <4>1 DEF Onto
      <4>3. Last(k, l) <= n
        BY <1>1, <2>1, <2>4, <4>1 DEF Onto
      <4> QED
        BY <1>1, <4>1, <4>2, <4>3
    <3> QED
      BY <2>4, <3>1
  <2> QED
    BY <2>3, <2>4
<1> QED
  BY <1>2, <1>3

LEMMA WalkIs ==
  ASSUME Searchable, NEW k \in Keys, NEW l \in L!Level
  PROVE  L!Walk(k, l) = Walked(k, l)
<1> DEFINE g == Walked(k, l)
           z == Last(k, l)
           Step(f, n) == LET m == links[n][l].next IN
                         IF m # None /\ m < k
                           THEN [f[m] EXCEPT !.rank = (@ + links[n][l].span) % SpanMod]
                           ELSE [node |-> n, rank |-> 0]
<1>1. /\ L!Node \subseteq Nat /\ k \in Nat /\ None \notin Nat /\ SpanMod \in Nat \ {0}
      /\ L!On(l) \subseteq Onto(l) /\ Onto(l) \subseteq L!Node
      /\ z \in Nat /\ z < k
  BY ListConstants, ListSets, LastIs DEF Searchable, Onto
<1>2. ASSUME NEW n \in L!Node PROVE g[n] = Step(g, n)
  <2> DEFINE m == links[n][l].next
  <2>1. CASE m # None /\ m < k
    <3>1. /\ n \in Onto(l) /\ m \in L!On(l) /\ n < m
          /\ links[n][l].span = Pos(m) - Pos(n)
      BY <2>1, WalkStep
    <3>2. m \in L!Node /\ m \in Onto(l) /\ n \in Nat /\ m \in Nat
      BY <1>1, <3>1
    <3>3. n < k
      BY <1>1, <2>1, <3>1, <3>2
    <3>4. m <= z /\ n <= z
      <4>1. m <= z
        BY <2>1, <3>1, LastIs DEF Searchable
      <4> QED
        BY <1>1, <3>1, <3>2, <4>1
    <3>5. /\ Pos(z) - Pos(n) \in 0..SpanMod - 1
          /\ Pos(z) \in Int /\ Pos(m) \in Int /\ Pos(n) \in Int
      BY <1>1, <3>2, <3>4, PosGrows, PosType DEF Searchable
    <3>6. (Pos(z) - Pos(m) + links[n][l].span) % SpanMod = Pos(z) - Pos(n)
      <4>1. Pos(z) - Pos(m) + links[n][l].span = Pos(z) - Pos(n)
        BY <3>1, <3>5
      <4>2. (Pos(z) - Pos(n)) % SpanMod = Pos(z) - Pos(n)
        <5> DEFINE d == Pos(z) - Pos(n)
        <5>1. d \in 0..SpanMod - 1 /\ d \in Int /\ SpanMod \in Nat \ {0}
          BY <1>1, <3>5
        <5> HIDE DEF d
        <5>2. d % SpanMod = d
          BY <5>1, Wrapped
        <5> QED
          BY <5>2 DEF d
      <4> QED
        BY <4>1, <4>2
    <3>7. g[m] = [node |-> z, rank |-> Pos(z) - Pos(m)] /\ g[n] = [node |-> z, rank |-> Pos(z) - Pos(n)]
      BY <2>1, <3>1, <3>2, <3>3 DEF Walked
    <3>8. Step(g, n) = [node |-> z, rank |-> (Pos(z) - Pos(m) + links[n][l].span) % SpanMod]
      BY <2>1, <3>7
    <3> QED
      BY <3>6, <3>7, <3>8
  <2>2. CASE ~(m # None /\ m < k)
    <3>1. n \in Onto(l) /\ n < k => n = z
      BY <2>2, WalkStep
    <3>2. Pos(z) - Pos(z) = 0
      BY PosType DEF Searchable
    <3>3. g[n] = [node |-> n, rank |-> 0]
      BY <3>1, <3>2 DEF Walked
    <3> QED
      BY <2>2, <3>3
  <2> QED
    BY <2>1, <2>2
<1>3. Walks(g, k, l)
  <2>1. g = [n \in L!Node |-> g[n]]
    BY DEF Walked
  <2> HIDE DEF g
  <2> QED
    BY <1>2, <2>1 DEF Walks
<1>4. ASSUME NEW f, Walks(f, k, l) PROVE f = g
  <2>1. \A n \in L!Node : f[n] = Step(f, n)
    BY <1>4 DEF Walks
  <2>2. f = [n \in L!Node |-> f[n]] /\ g = [n \in L!Node |-> g[n]]
    BY <1>4 DEF Walks, Walked
  <2> DEFINE Bad == {n \in L!Node : f[n] # g[n]}
             A == {k - n : n \in {x \in Bad : x < k}}
  <2> HIDE DEF g
  <2>3. ASSUME NEW n \in Bad PROVE \E m \in Bad : m > n /\ m < k /\ n < k
    <3>1. n \in L!Node /\ f[n] # g[n] /\ f[n] = Step(f, n) /\ g[n] = Step(g, n)
      BY <1>2, <2>1, <2>3
    <3> DEFINE m == links[n][l].next
    <3>2. m # None /\ m < k /\ f[m] # g[m]
      BY <3>1
    <3>3. m \in L!On(l) /\ n < m
      BY <3>1, <3>2, WalkStep
    <3> HIDE DEF m
    <3>4. m \in L!Node /\ m \in Nat /\ n \in Nat /\ k \in Nat
      <4>1. L!On(l) \subseteq Onto(l) /\ Onto(l) \subseteq L!Node
        BY ListSets DEF Searchable, Onto
      <4>2. L!Node \subseteq Nat /\ Keys \subseteq L!Node
        BY ListConstants
      <4> QED
        BY <3>1, <3>3, <4>1, <4>2
    <3>5. m \in Bad
      BY <3>2, <3>4
    <3> HIDE DEF Bad
    <3> QED
      BY <3>2, <3>3, <3>4, <3>5
  <2>4. Bad = {}
    <3> SUFFICES ASSUME Bad # {} PROVE FALSE
      OBVIOUS
    <3>1. A \in SUBSET Nat /\ A # {}
      <4>1. \A n \in {x \in Bad : x < k} : k - n \in Nat
        BY <1>1
      <4>2. \E n \in Bad : n < k
        BY <2>3
      <4> HIDE DEF Bad
      <4> QED
        BY <4>1, <4>2
    <3>2. PICK a \in A : \A b \in A : a <= b
      BY <3>1, Lowest
    <3>3. PICK n \in Bad : n < k /\ a = k - n
      BY <3>2
    <3>4. PICK m \in Bad : m > n /\ m < k
      BY <2>3, <3>3
    <3>5. n \in Nat /\ m \in Nat
      BY <1>1, <3>3, <3>4
    <3>6. k - m \in A
      BY <3>4
    <3>7. a <= k - m
      BY <3>2, <3>6
    <3> QED
      BY <1>1, <3>3, <3>4, <3>5, <3>7
  <2> QED
    BY <2>2, <2>4
<1> DEFINE walk == CHOOSE f : Walks(f, k, l)
<1>5. L!Walk(k, l) = walk
  BY DEF L!Walk, Walks
<1> HIDE DEF g
<1>6. Walks(walk, k, l)
  BY <1>3
<1>7. walk = g
  BY <1>4, <1>6
<1> QED
  BY <1>5, <1>7 DEF g

\* The equation of the search, and what solves it: on every level the last node
\* before k and its rank.
Searches(f, k) ==
  f = [l \in L!Level |->
         IF l > cur_height THEN [node |-> 0, rank |-> 0]
         ELSE LET from == IF l = cur_height THEN [node |-> 0, rank |-> 0] ELSE f[l + 1]
                  to == L!Walk(k, l)[from.node]
              IN [to EXCEPT !.rank = (from.rank + @) % SpanMod]]

Searched(k) == [l \in L!Level |-> [node |-> Last(k, l), rank |-> Pos(Last(k, l))]]

LEMMA AboveIsEmpty ==
  ASSUME Searchable, NEW l \in L!Level, l > cur_height
  PROVE  L!On(l) = {} /\ Onto(l) = {0}
<1>1. ASSUME NEW k \in L!On(l) PROVE FALSE
  <2>1. k \in Keys /\ k \in L!keys /\ height[k] >= l /\ height[k] \in Nat
    BY <1>1, ListConstants DEF L!On, L!keys, Searchable, L!TypeOK
  <2>2. height[k] <= cur_height /\ cur_height \in Nat /\ l \in Nat
    BY <2>1, ListConstants DEF Searchable, L!TypeOK
  <2> QED
    BY <2>1, <2>2
<1> QED
  BY <1>1 DEF Onto

\* The walk on level l from a node n of it that is before k.
LEMMA WalkFrom ==
  ASSUME Searchable, NEW k \in Keys, NEW l \in L!Level, NEW n \in Onto(l), n < k
  PROVE  LET to == L!Walk(k, l)[n] IN
         [to EXCEPT !.rank = (Pos(n) + @) % SpanMod] =
           [node |-> Last(k, l), rank |-> Pos(Last(k, l))]
<1> DEFINE z == Last(k, l)
           e == Pos(z)
           d == Pos(n)
<1>1. L!Walk(k, l)[n] = [node |-> z, rank |-> e - d]
  BY ListSets, WalkIs DEF Walked, Searchable
<1>2. e \in 0..SpanMod - 1 /\ e \in Int /\ d \in Int /\ SpanMod \in Nat \ {0}
  BY PosType, ListConstants DEF Searchable
<1> HIDE DEF z, e, d
<1>3. d + (e - d) = e
  BY <1>2
<1>4. e % SpanMod = e
  BY <1>2, Wrapped
<1>5. (d + (e - d)) % SpanMod = e
  BY <1>3, <1>4
<1> QED
  BY <1>1, <1>5 DEF z, e, d

LEMMA BeforeIs ==
  ASSUME Searchable, NEW k \in Keys
  PROVE  L!Before(k) = Searched(k)
<1> DEFINE g == Searched(k)
           start == [node |-> 0, rank |-> 0]
           Prior(f, l) == IF l = cur_height THEN start ELSE f[l + 1]
           Step(f, l) ==
             IF l > cur_height THEN start
             ELSE LET from == Prior(f, l)
                      to == L!Walk(k, l)[from.node]
                  IN [to EXCEPT !.rank = (from.rank + @) % SpanMod]
<1>1. /\ L!Level = 1..L!max_height /\ L!max_height \in Nat /\ cur_height \in L!Level
      /\ k \in Nat /\ 0 < k
  BY ListConstants DEF Searchable, L!TypeOK
<1>2. Pos(0) = 0
  BY PosHead DEF Searchable
<1>3. ASSUME NEW l \in L!Level PROVE g[l] = Step(g, l)
  <2>1. g[l] = [node |-> Last(k, l), rank |-> Pos(Last(k, l))]
    BY DEF Searched
  <2>2. CASE l > cur_height
    <3>1. Last(k, l) = 0
      BY <2>2, AboveIsEmpty, LastIs DEF Searchable
    <3> QED
      BY <1>2, <2>1, <2>2, <3>1
  <2>3. CASE ~(l > cur_height)
    <3>1. \E n \in Onto(l) : n < k /\ Prior(g, l) = [node |-> n, rank |-> Pos(n)]
      <4>1. CASE l = cur_height
        <5>1. 0 \in Onto(l)
          BY DEF Onto
        <5> QED
          BY <1>1, <1>2, <4>1, <5>1
      <4>2. CASE l # cur_height
        <5>1. l + 1 \in L!Level
          BY <1>1, <2>3, <4>2
        <5>2. Last(k, l + 1) \in Onto(l + 1) /\ Last(k, l + 1) < k
          BY <5>1, LastIs DEF Searchable
        <5>3. Onto(l + 1) \subseteq Onto(l)
          <6>1. l <= l + 1
            BY <1>1
          <6> QED
            BY <5>1, <6>1, ListSets DEF Onto, Searchable
        <5>4. g[l + 1] = [node |-> Last(k, l + 1), rank |-> Pos(Last(k, l + 1))]
          BY <5>1 DEF Searched
        <5> QED
          BY <4>2, <5>2, <5>3, <5>4
      <4> QED
        BY <4>1, <4>2
    <3>2. PICK n \in Onto(l) : n < k /\ Prior(g, l) = [node |-> n, rank |-> Pos(n)]
      BY <3>1
    <3>3. Step(g, l) = [L!Walk(k, l)[n] EXCEPT !.rank = (Pos(n) + @) % SpanMod]
      <4> HIDE DEF g, Prior
      <4> QED
        BY <2>3, <3>2
    <3>4. Step(g, l) = [node |-> Last(k, l), rank |-> Pos(Last(k, l))]
      BY <3>2, <3>3, WalkFrom
    <3> QED
      BY <2>1, <3>4
  <2> QED
    BY <2>2, <2>3
<1>4. Searches(g, k)
  <2>1. g = [l \in L!Level |-> g[l]]
    BY DEF Searched
  <2> HIDE DEF g
  <2> QED
    BY <1>3, <2>1 DEF Searches
<1>5. ASSUME NEW f, Searches(f, k) PROVE f = g
  <2>1. \A l \in L!Level : f[l] = Step(f, l)
    BY <1>5 DEF Searches
  <2>2. f = [l \in L!Level |-> f[l]] /\ g = [l \in L!Level |-> g[l]]
    BY <1>5 DEF Searches, Searched
  <2> HIDE DEF g
  <2> DEFINE Bad == {l \in L!Level : f[l] # g[l]}
  <2>3. ASSUME NEW l \in Bad PROVE l + 1 \in Bad
    <3>1. l \in L!Level /\ f[l] # g[l] /\ f[l] = Step(f, l) /\ g[l] = Step(g, l)
      BY <1>3, <2>1, <2>3
    <3>2. ~(l > cur_height) /\ l # cur_height /\ f[l + 1] # g[l + 1]
      BY <3>1
    <3> QED
      BY <1>1, <3>1, <3>2
  <2>4. Bad = {}
    <3> SUFFICES ASSUME Bad # {} PROVE FALSE
      OBVIOUS
    <3>1. Bad \in SUBSET Nat /\ \A l \in Bad : l <= L!max_height
      BY <1>1
    <3> HIDE DEF Bad
    <3>2. PICK l \in Bad : \A h \in Bad : h <= l
      BY <1>1, <3>1, Highest
    <3> QED
      BY <2>3, <3>1, <3>2
  <2> QED
    BY <2>2, <2>4
<1> DEFINE before == CHOOSE f : Searches(f, k)
<1>6. L!Before(k) = before
  BY DEF L!Before, Searches, L!head
<1>7. Searches(before, k)
  <2> HIDE DEF g
  <2> QED
    BY <1>4
<1>8. before = g
  <2> HIDE DEF g, before
  <2> QED
    BY <1>5, <1>7
<1> QED
  BY <1>6, <1>8


\* The search meets k on the levels that k is on.
LEMMA NextOfLast ==
  ASSUME Searchable, NEW k \in Keys, NEW l \in L!Level
  PROVE  LET m == links[Last(k, l)][l].next IN
         /\ m = k <=> k \in L!On(l)
         /\ m # None => m \in L!On(l) /\ m >= k
<1> DEFINE z == Last(k, l)
           m == links[z][l].next
<1>1. /\ z \in Onto(l) /\ z \in Nat /\ z < k /\ k \in Nat
      /\ \A j \in L!On(l) : j < k => j <= z
  BY LastIs, ListConstants DEF Searchable
<1>2. \/ m = None /\ \A j \in L!On(l) : j <= z
      \/ m \in L!On(l) /\ m > z /\ \A j \in L!On(l) : j <= z \/ j >= m
  BY <1>1 DEF Searchable, Nested
<1>3. L!On(l) \subseteq Nat /\ None \notin Nat
  BY ListSets, ListConstants DEF Searchable
<1> HIDE DEF z, m
<1>4. m # None => m \in L!On(l) /\ m >= k
  BY <1>1, <1>2, <1>3
<1>5. m = k <=> k \in L!On(l)
  BY <1>1, <1>2, <1>3, <1>4
<1> QED
  BY <1>4, <1>5 DEF z, m

LEMMA HeightIs ==
  ASSUME Searchable, NEW k \in L!keys
  PROVE  /\ height[k] \in 1..cur_height /\ height[k] \in L!Level
         /\ \A l \in L!Level : k \in L!On(l) <=> l <= height[k]
<1>1. /\ k \in Keys /\ height[k] \in 0..L!max_height /\ height[k] > 0
      /\ height[k] <= cur_height /\ cur_height \in 1..L!max_height
      /\ L!Level = 1..L!max_height /\ L!max_height \in Nat
  BY ListConstants DEF Searchable, L!keys, L!TypeOK
<1>2. height[k] \in 1..cur_height /\ height[k] \in L!Level
  BY <1>1
<1>3. ASSUME NEW l \in L!Level PROVE k \in L!On(l) <=> l <= height[k]
  <2>1. l \in Nat
    BY <1>1
  <2> QED
    BY <1>1, <2>1 DEF L!On
<1> QED
  BY <1>2, <1>3

LEMMA FoundIs ==
  ASSUME Searchable, NEW k \in Keys
  PROVE  /\ L!Found(k) <=> k \in L!keys
         /\ (links[L!Before(k)[1].node][1].next = k) <=> k \in L!keys
<1>1. /\ 1 \in L!Level /\ cur_height \in Nat /\ 1 \in 1..cur_height
      /\ \A l \in 1..cur_height : l \in L!Level
  BY ListConstants DEF Searchable, L!TypeOK
<1>2. L!On(1) = L!keys /\ \A l \in L!Level : L!On(l) \subseteq L!keys
  BY ListSets DEF Searchable
<1>3. \A l \in L!Level : links[L!Before(k)[l].node][l].next = k <=> k \in L!On(l)
  BY BeforeIs, NextOfLast DEF Searched
<1>4. L!Meets(k) = {l \in 1..cur_height : links[L!Before(k)[l].node][l].next = k}
  BY DEF L!Meets
<1>5. L!Meets(k) # {} <=> k \in L!keys
  BY <1>1, <1>2, <1>3, <1>4
<1> QED
  BY <1>1, <1>2, <1>3, <1>5 DEF L!Found

LEMMA RankIs ==
  ASSUME Searchable, NEW k \in Keys
  PROVE  L!Rank(k) = IF k \in L!keys THEN Pos(k) ELSE -1
<1> DEFINE b == L!Before(k)
           meets == {l \in 1..cur_height : links[b[l].node][l].next = k}
           h == height[k]
           top == CHOOSE l \in meets : \A m \in meets : m <= l
<1>1. L!Rank(k) = IF meets = {} THEN -1 ELSE (b[top].rank + links[b[top].node][top].span) % SpanMod
  BY DEF L!Rank
<1>2. meets = {} <=> k \notin L!keys
  BY FoundIs DEF L!Found, L!Meets
<1>3. CASE k \in L!keys
  <2>1. /\ h \in 1..cur_height /\ h \in L!Level /\ h \in Nat /\ L!Level \subseteq Nat
        /\ \A l \in L!Level : k \in L!On(l) <=> l <= h
        /\ \A l \in 1..cur_height : l \in L!Level
    <3>1. /\ h \in 1..cur_height /\ h \in L!Level
          /\ \A l \in L!Level : k \in L!On(l) <=> l <= h
      BY <1>3, HeightIs
    <3>2. cur_height \in L!Level /\ L!Level = 1..L!max_height /\ L!max_height \in Nat
      BY ListConstants DEF Searchable, L!TypeOK
    <3> QED
      BY <3>1, <3>2
  <2>2. \A l \in L!Level : /\ b[l].node = Last(k, l) /\ b[l].rank = Pos(Last(k, l))
                           /\ links[b[l].node][l].next = k <=> k \in L!On(l)
    BY BeforeIs, NextOfLast DEF Searched
  <2> HIDE DEF b
  <2>3. meets \subseteq Nat /\ h \in meets /\ \A m \in meets : m <= h
    BY <2>1, <2>2
  <2> HIDE DEF meets, h
  <2>4. top = h
    <3>1. \E l \in meets : \A m \in meets : m <= l
      BY <2>3
    <3>2. top \in meets /\ \A m \in meets : m <= top
      BY <3>1
    <3> HIDE DEF top
    <3> QED
      BY <2>3, <3>2
  <2> HIDE DEF top
  <2> DEFINE z == Last(k, h)
  <2>5. /\ links[z][h].next = k /\ z \in Onto(h) /\ k # None
        /\ b[top].node = z /\ b[top].rank = Pos(z)
    BY <2>1, <2>2, <2>4, LastIs, ListConstants DEF Searchable
  <2>6. links[z][h].span = Pos(k) - Pos(z)
    BY <2>1, <2>5 DEF Searchable, Exact
  <2>7. Pos(k) \in 0..SpanMod - 1 /\ Pos(z) \in Int /\ SpanMod \in Nat \ {0}
    BY PosType, ListConstants DEF Searchable
  <2> DEFINE p == Pos(k)
  <2> HIDE DEF z
  <2>8. b[top].rank + links[b[top].node][top].span = p
    <3>1. b[top].rank + links[b[top].node][top].span = Pos(z) + (Pos(k) - Pos(z))
      BY <2>4, <2>5, <2>6
    <3> QED
      BY <2>7, <3>1
  <2>9. p \in 0..SpanMod - 1 /\ p \in Int /\ SpanMod \in Nat \ {0}
    BY <2>7
  <2> HIDE DEF p
  <2>10. p % SpanMod = p
    BY <2>9, Wrapped
  <2> QED
    BY <1>1, <1>2, <1>3, <2>8, <2>10 DEF p
<1>4. CASE k \notin L!keys
  <2> HIDE DEF meets
  <2> QED
    BY <1>1, <1>2, <1>4
<1> QED
  BY <1>3, <1>4

\* The first key.
LEMMA FrontIs ==
  ASSUME Searchable
  PROVE  IF L!keys = {} THEN L!front = None
         ELSE L!front \in L!keys /\ \A k \in L!keys : L!front <= k
<1>1. 1 \in L!Level /\ 0 \in Onto(1) /\ L!On(1) = L!keys
  BY ListConstants, ListSets DEF Onto, Searchable
<1>2. L!front = links[0][1].next
  BY DEF L!front, L!head
<1>3. \/ L!front = None /\ \A k \in L!keys : k <= 0
      \/ /\ L!front \in L!keys /\ \A k \in L!keys : k <= 0 \/ k >= L!front
  BY <1>1, <1>2 DEF Searchable, Nested
<1>4. \A k \in L!keys : k \in Nat /\ k # 0
  BY ListSets DEF Searchable
<1> QED
  BY <1>3, <1>4

LEMMA ListAnswers == ListIInv => L!AnswersRight
<1> SUFFICES ASSUME ListIInv PROVE L!AnswersRight
  OBVIOUS
<1>1. Searchable
  BY SearchableIs
<1>2. \A k \in Keys :
        L!Rank(k) = IF k \in L!keys THEN L!Cardinality({j \in L!keys : j <= k}) ELSE -1
  BY <1>1, RankIs, SameCount DEF Pos, Count
<1>3. L!Cardinality(L!keys) = Cardinality(L!keys)
  BY SameCount
<1> QED
  BY <1>1, <1>2, <1>3, FrontIs DEF ListIInv, TailIsLast, L!AnswersRight

-----------------------------------------------------------------------------
(* Insertion into the skip list. *)

\* The links of n on level l after k was put there with height h.
InsertedLink(k, h, n, l) ==
  LET p == Last(k, l)  old == links[p][l] IN
  IF l > h
    THEN IF l <= cur_height /\ n = p
           THEN [old EXCEPT !.span = (@ + 1) % SpanMod] ELSE links[n][l]
  ELSE IF n = k THEN [next |-> old.next, prev |-> p,
                      span |-> (old.span - (Pos(k) - Pos(p) + 1) + 1) % SpanMod]
  ELSE IF n = p THEN [old EXCEPT !.next = k, !.span = (Pos(k) - Pos(p) + 1) % SpanMod]
  ELSE IF n = old.next THEN [links[n][l] EXCEPT !.prev = k]
  ELSE links[n][l]

LEMMA InsertLinks ==
  ASSUME Searchable, NEW k \in Keys, NEW h \in L!Level, L!Insert(k, h)
  PROVE  /\ k \notin L!keys /\ L!keys' = L!keys \cup {k}
         /\ \A l \in L!Level : L!On(l)' = IF l <= h THEN L!On(l) \cup {k} ELSE L!On(l)
         /\ \A n \in L!Node, l \in L!Level : links'[n][l] = InsertedLink(k, h, n, l)
<1> DEFINE b == L!Before(k)
<1>1. /\ links[b[1].node][1].next # k /\ links' = L!Linked(k, h, b)
      /\ height' = [height EXCEPT ![k] = h]
  BY DEF L!Insert
<1>2. k \notin L!keys
  BY <1>1, FoundIs
<1>3. \A j \in Keys : height'[j] = IF j = k THEN h ELSE height[j]
  BY <1>1 DEF Searchable, L!TypeOK
<1>4. h > 0 /\ L!keys \subseteq Keys
  BY ListConstants DEF L!keys
<1>5. L!keys' = L!keys \cup {k}
  BY <1>3, <1>4 DEF L!keys
<1>6. \A l \in L!Level : L!On(l)' = IF l <= h THEN L!On(l) \cup {k} ELSE L!On(l)
  <2> SUFFICES ASSUME NEW l \in L!Level
               PROVE  L!On(l)' = IF l <= h THEN L!On(l) \cup {k} ELSE L!On(l)
    OBVIOUS
  <2>1. l \in Nat /\ h \in Nat
    BY ListConstants
  <2>2. L!On(l)' = {j \in L!keys' : height'[j] >= l}
    BY DEF L!On
  <2>3. L!On(l) = {j \in L!keys : height[j] >= l}
    BY DEF L!On
  <2>4. \A j \in L!keys : height'[j] = height[j]
    BY <1>2, <1>3, <1>4
  <2>5. height'[k] = h /\ (h >= l <=> l <= h)
    BY <1>3, <2>1
  <2> QED
    BY <1>2, <1>5, <2>2, <2>3, <2>4, <2>5
<1>7. Pos(Last(k, 1)) = Pos(k)
  <2>1. /\ 1 \in L!Level /\ L!On(1) = L!keys /\ k \in Nat /\ L!keys \in SUBSET Nat
    BY ListConstants, ListSets DEF Searchable
  <2>2. /\ Last(k, 1) \in Nat /\ Last(k, 1) < k
        /\ \A j \in L!keys : j < k => j <= Last(k, 1)
    BY <2>1, LastIs DEF Searchable
  <2>3. \A j \in L!keys : j <= Last(k, 1) <=> j <= k
    BY <1>2, <2>1, <2>2
  <2> QED
    BY <2>1, <2>2, <2>3, CountSame DEF Pos
<1>8. ASSUME NEW n \in L!Node, NEW l \in L!Level
      PROVE  links'[n][l] = InsertedLink(k, h, n, l)
  <2>1. 1 \in L!Level
    BY ListConstants
  <2>2. /\ b[l].node = Last(k, l)
        /\ b[l].rank = Pos(Last(k, l)) /\ b[1].rank = Pos(k)
    BY <1>7, <2>1, BeforeIs DEF Searched
  <2> HIDE DEF b
  <2>3. L!Upto(b, l) = Pos(k) - Pos(Last(k, l)) + 1
    BY <2>2 DEF L!Upto
  <2> QED
    BY <1>1, <2>2, <2>3 DEF L!Linked, InsertedLink
<1> QED
  BY <1>2, <1>5, <1>6, <1>8

\* A record that is a link.
LEMMA LinkType ==
  ASSUME Searchable, NEW n \in L!Node, NEW l \in L!Level
  PROVE  /\ links[n][l] \in L!Links
         /\ links[n][l] = [next |-> links[n][l].next, prev |-> links[n][l].prev,
                           span |-> links[n][l].span]
         /\ links[n][l].next \in Keys \cup {None}
         /\ links[n][l].prev \in L!Node \cup {None}
         /\ links[n][l].span \in L!Span /\ links[n][l].span \in Int
<1>1. links[n][l] \in L!Links
  BY DEF Searchable, L!TypeOK
<1>2. \A s \in L!Span : s \in Int
  BY ListConstants
<1> QED
  BY <1>1, <1>2 DEF L!Links

LEMMA InsertParts ==
  ASSUME Searchable, NEW k \in Keys, NEW h \in L!Level, L!Insert(k, h),
         NEW n \in L!Node, NEW l \in L!Level,
         NEW p, p = Last(k, l), NEW m, m = links[p][l].next
  PROVE  /\ links'[n][l] \in L!Links
         /\ links'[n][l].next = IF l <= h /\ n = k THEN m ELSE IF l <= h /\ n = p THEN k
                                ELSE links[n][l].next
         /\ links'[n][l].prev = IF l <= h /\ n = k THEN p ELSE IF l <= h /\ n # p /\ n = m THEN k
                                ELSE links[n][l].prev
         /\ l > h => links'[n][l].span = IF l <= cur_height /\ n = p
                                           THEN (links[n][l].span + 1) % SpanMod
                                           ELSE links[n][l].span
         /\ l <= h => links'[n][l].span =
              IF n = k THEN (links[p][l].span - (Pos(k) - Pos(p) + 1) + 1) % SpanMod
              ELSE IF n = p THEN (Pos(k) - Pos(p) + 1) % SpanMod
              ELSE links[n][l].span
<1> DEFINE old == links[p][l]
           up == Pos(k) - Pos(p) + 1
<1>1. /\ p \in L!Node /\ p # k /\ l \in Nat /\ h \in Nat /\ (l > h <=> ~(l <= h))
  BY LastIs, ListSets, ListConstants DEF Searchable
<1>2. /\ links[n][l] \in L!Links
      /\ links[n][l] = [next |-> links[n][l].next, prev |-> links[n][l].prev,
                        span |-> links[n][l].span]
      /\ links[n][l].next \in Keys \cup {None}
      /\ links[n][l].prev \in L!Node \cup {None}
      /\ links[n][l].span \in L!Span /\ links[n][l].span \in Int
  BY LinkType
<1>3. /\ old = [next |-> old.next, prev |-> old.prev, span |-> old.span]
      /\ old.next \in Keys \cup {None} /\ old.prev \in L!Node \cup {None}
      /\ old.span \in Int
  BY <1>1, LinkType
<1>4. up \in Int
  BY PosType DEF Searchable
<1>5. links'[n][l] = IF l > h
                       THEN IF l <= cur_height /\ n = p
                              THEN [old EXCEPT !.span = (@ + 1) % SpanMod] ELSE links[n][l]
                     ELSE IF n = k THEN [next |-> old.next, prev |-> p,
                                         span |-> (old.span - up + 1) % SpanMod]
                     ELSE IF n = p THEN [old EXCEPT !.next = k, !.span = up % SpanMod]
                     ELSE IF n = old.next THEN [links[n][l] EXCEPT !.prev = k]
                     ELSE links[n][l]
  <2>1. links'[n][l] = InsertedLink(k, h, n, l)
    BY InsertLinks
  <2>2. Last(k, l) = p
    OBVIOUS
  <2> QED
    BY <2>1, <2>2 DEF InsertedLink
<1> HIDE DEF up
<1>6. /\ (old.span + 1) % SpanMod \in L!Span
      /\ (old.span - up + 1) % SpanMod \in L!Span /\ up % SpanMod \in L!Span
  <2>1. SpanMod \in Nat \ {0} /\ L!Span = 0..SpanMod - 1
    BY ListConstants
  <2>2. old.span + 1 \in Int /\ old.span - up + 1 \in Int
    BY <1>3, <1>4
  <2> QED
    BY <1>4, <2>1, <2>2, Wrapped
<1>7. CASE l > h
  <2>1. CASE l <= cur_height /\ n = p
    <3>1. links'[n][l] = [next |-> old.next, prev |-> old.prev, span |-> (old.span + 1) % SpanMod]
      BY <1>3, <1>5, <1>7, <2>1
    <3> QED
      BY <1>1, <1>3, <1>6, <1>7, <2>1, <3>1 DEF L!Links
  <2>2. CASE ~(l <= cur_height /\ n = p)
    BY <1>1, <1>2, <1>5, <1>7, <2>2
  <2> QED
    BY <2>1, <2>2
<1>8. CASE ~(l > h)
  <2>1. CASE n = k
    BY <1>1, <1>3, <1>5, <1>6, <1>8, <2>1 DEF L!Links, up
  <2>2. CASE n = p
    BY <1>1, <1>3, <1>5, <1>6, <1>8, <2>2 DEF L!Links, up
  <2>3. CASE n # k /\ n # p
    BY <1>1, <1>2, <1>5, <1>8, <2>3 DEF L!Links, L!Node
  <2> QED
    BY <2>1, <2>2, <2>3
<1> QED
  BY <1>7, <1>8

\* Every part of a list is in place when its levels and its ends are.
LEMMA ListIInvIs ==
  ListIInv <=>
    /\ Searchable /\ TailIsLast /\ num_nodes = Cardinality(L!keys)
    /\ forward \in L!keys \cup {None} /\ backward \in L!keys \cup {None}
BY NestedIs, ExactIs DEF ListIInv, Searchable

LEMMA ListIInvNext ==
  (ListIInv <=>
    /\ Searchable /\ TailIsLast /\ num_nodes = Cardinality(L!keys)
    /\ forward \in L!keys \cup {None} /\ backward \in L!keys \cup {None})'
BY ListIInvIs, PTL

LEMMA InsertType ==
  ASSUME ListIInv, NEW k \in Keys, NEW h \in L!Level, L!Insert(k, h)
  PROVE  /\ L!TypeOK'
         /\ TailIsLast' /\ num_nodes' = Cardinality(L!keys)'
         /\ forward' \in L!keys' \cup {None} /\ backward' \in L!keys' \cup {None}
<1>1. Searchable /\ L!TypeOK
  BY SearchableIs DEF Searchable
<1>2. /\ k \notin L!keys /\ L!keys' = L!keys \cup {k} /\ k \in Nat /\ 1 \in L!Level
      /\ L!keys \subseteq Keys /\ Keys \subseteq Nat /\ L!keys \subseteq Nat
      /\ L!On(1) = L!keys /\ None \notin Nat
  BY <1>1, InsertLinks, ListConstants, ListSets
<1>3. links' \in [L!Node -> [L!Level -> L!Links]]
  <2>1. \A n \in L!Node, l \in L!Level : links'[n][l] \in L!Links
    BY <1>1, InsertParts
  <2>2. links' = [n \in L!Node |-> [l \in L!Level |-> links'[n][l]]]
    BY DEF L!Insert, L!Linked
  <2> QED
    BY <2>1, <2>2
<1>4. /\ height' \in [Keys -> 0..L!max_height]
      /\ cur_height' \in L!Level
  <2>1. height \in [Keys -> 0..L!max_height] /\ cur_height \in L!Level
    BY DEF ListIInv, L!TypeOK
  <2>2. height' = [height EXCEPT ![k] = h]
    BY DEF L!Insert
  <2>3. cur_height' = h \/ cur_height' = cur_height
    BY DEF L!Insert
  <2>4. h \in 0..L!max_height
    BY ListConstants
  <2> QED
    BY <2>1, <2>2, <2>3, <2>4
<1>5. tail' \in Keys \cup {None} /\ TailIsLast'
  <2> DEFINE p == Last(k, 1)
             m == links[p][1].next
  <2>1. tail' = IF m = None THEN k ELSE tail
    <3>1. L!Before(k)[1].node = p
      BY <1>1, <1>2, BeforeIs DEF Searched
    <3> QED
      BY <3>1 DEF L!Insert, L!NewTail
  <2>2. /\ p \in Onto(1) /\ p \in Nat /\ p < k
        /\ m # None => m \in L!keys /\ m >= k
    BY <1>1, <1>2, LastIs, NextOfLast
  <2>3. m = None => \A j \in L!keys : j <= p
    <3>1. \/ m = None /\ \A j \in L!On(1) : j <= p
          \/ m \in L!On(1)
      BY <1>1, <1>2, <2>2 DEF Searchable, Nested
    <3> QED
      BY <1>2, <3>1
  <2>4. IF L!keys = {} THEN tail = None
        ELSE tail \in L!keys /\ \A j \in L!keys : j <= tail
    BY DEF ListIInv, TailIsLast
  <2> HIDE DEF p, m
  <2>5. tail' \in L!keys' /\ \A j \in L!keys' : j <= tail'
    <3>1. CASE m = None
      BY <1>2, <2>1, <2>2, <2>3, <3>1
    <3>2. CASE m # None
      <4>1. m \in L!keys /\ m >= k /\ tail \in L!keys /\ \A j \in L!keys : j <= tail
        BY <2>2, <2>4, <3>2
      <4>2. tail' = tail /\ tail \in Nat /\ m \in Nat /\ m <= tail
        BY <1>2, <2>1, <3>2, <4>1
      <4> QED
        BY <1>2, <4>1, <4>2
    <3> QED
      BY <3>1, <3>2
  <2> QED
    BY <1>2, <2>5 DEF TailIsLast
<1>6. num_nodes' = Cardinality(L!keys') /\ Cardinality(L!keys') \in 0..Cardinality(Keys)
  <2>1. IsFiniteSet(L!keys) /\ num_nodes = Cardinality(L!keys)
    BY <1>1, ListSets DEF ListIInv
  <2>2. Cardinality(L!keys') = Cardinality(L!keys) + 1
    BY <1>2, <2>1, FS_AddElement
  <2>3. L!keys' \in SUBSET Keys /\ IsFiniteSet(Keys)
    BY <1>2, ListConstants
  <2>4. Cardinality(L!keys') <= Cardinality(Keys) /\ IsFiniteSet(L!keys')
    BY <2>3, FS_Subset
  <2>5. Cardinality(L!keys') \in Nat /\ Cardinality(Keys) \in Nat
    BY <2>3, <2>4, FS_CardinalityType
  <2> QED
    BY <2>1, <2>2, <2>4, <2>5 DEF L!Insert
<1>7. /\ forward' \in L!keys' \cup {None} /\ backward' \in L!keys' \cup {None}
      /\ forward' \in Keys \cup {None} /\ backward' \in Keys \cup {None}
  BY <1>2 DEF L!Insert, ListIInv
<1>8. num_nodes' \in 0..L!Cardinality(Keys)
  BY <1>6, SameCount
<1> QED
  BY <1>3, <1>4, <1>5, <1>6, <1>7, <1>8 DEF L!TypeOK

LEMMA InsertNested ==
  ASSUME Searchable, NEW k \in Keys, NEW h \in L!Level, L!Insert(k, h)
  PROVE  Nested' /\ Bare' /\ \A j \in L!keys' : height'[j] <= cur_height'
<1>1. /\ k \notin L!keys /\ L!keys' = L!keys \cup {k} /\ k \in Nat
      /\ L!keys \subseteq Keys /\ Keys \subseteq Nat /\ L!keys \subseteq Nat
      /\ None \notin Nat /\ L!Node = Keys \cup {0}
      /\ L!Level \subseteq Nat
  BY InsertLinks, ListConstants, ListSets DEF Searchable
<1>2. ASSUME NEW l \in L!Level, NEW n \in Onto(l)'
      PROVE  \/ links'[n][l].next = None /\ \A j \in L!On(l)' : j <= n
             \/ /\ links'[n][l].next \in L!On(l)' /\ links'[n][l].next > n
                /\ links'[links'[n][l].next][l].prev = n
                /\ \A j \in L!On(l)' : j <= n \/ j >= links'[n][l].next
  <2>1. PICK p : p = Last(k, l)
    OBVIOUS
  <2>2. PICK m : m = links[p][l].next
    OBVIOUS
  <2>3. /\ p \in Onto(l) /\ p \in Nat /\ p < k
        /\ \A j \in L!On(l) : j < k => j <= p
        /\ m # None => m \in L!On(l) /\ m >= k
    BY <2>1, <2>2, LastIs, NextOfLast DEF Searchable
  <2>4. /\ L!On(l) \subseteq L!keys /\ Onto(l) \subseteq L!Node /\ Onto(l) \subseteq Nat
        /\ Onto(l) = L!On(l) \cup {0} /\ k \notin Onto(l) /\ k \notin L!On(l)
    BY <1>1, ListSets, ListConstants DEF Searchable, Onto
  <2>5. \A i \in Onto(l) :
          \/ links[i][l].next = None /\ \A j \in L!On(l) : j <= i
          \/ /\ links[i][l].next \in L!On(l) /\ links[i][l].next > i
             /\ links[links[i][l].next][l].prev = i
             /\ \A j \in L!On(l) : j <= i \/ j >= links[i][l].next
    BY DEF Searchable, Nested
  <2>5a. \/ m = None /\ \A j \in L!On(l) : j <= p
         \/ /\ m \in L!On(l) /\ m > p /\ links[m][l].prev = p
            /\ \A j \in L!On(l) : j <= p \/ j >= m
    BY <2>2, <2>3, <2>5
  <2>6. \A i \in L!Node :
          /\ links'[i][l].next = IF l <= h /\ i = k THEN m ELSE IF l <= h /\ i = p THEN k
                                 ELSE links[i][l].next
          /\ links'[i][l].prev = IF l <= h /\ i = k THEN p ELSE IF l <= h /\ i # p /\ i = m THEN k
                                 ELSE links[i][l].prev
    BY <2>1, <2>2, InsertParts
  <2>7. L!On(l)' = IF l <= h THEN L!On(l) \cup {k} ELSE L!On(l)
    BY InsertLinks
  <2>8. n \in L!On(l)' \cup {0}
    BY <1>2 DEF Onto
  <2>9. CASE ~(l <= h)
    <3>1. n \in Onto(l) /\ L!On(l)' = L!On(l)
      BY <2>4, <2>7, <2>8, <2>9
    <3>2. \A i \in L!Node : /\ links'[i][l].next = links[i][l].next
                            /\ links'[i][l].prev = links[i][l].prev
      BY <2>6, <2>9
    <3>3. n \in L!Node /\ L!On(l) \subseteq L!Node
      BY <2>4, <3>1
    <3> QED
      BY <2>5, <3>1, <3>2, <3>3
  <2>10. CASE l <= h
    <3>1. L!On(l)' = L!On(l) \cup {k} /\ k \in L!Node /\ p \in L!Node /\ p # k
      BY <1>1, <2>3, <2>4, <2>7, <2>10
    <3>2. \A i \in L!Node :
            /\ links'[i][l].next = IF i = k THEN m ELSE IF i = p THEN k ELSE links[i][l].next
            /\ links'[i][l].prev = IF i = k THEN p ELSE IF i # p /\ i = m THEN k
                                   ELSE links[i][l].prev
      BY <2>6, <2>10
    <3>3. CASE n = k
      <4>1. links'[n][l].next = m
        BY <3>1, <3>2, <3>3
      <4>2. CASE m = None
        <5>1. \A j \in L!On(l) : j <= p
          BY <1>1, <2>4, <2>5a, <4>2
        <5>2. \A j \in L!On(l)' : j <= n
          BY <1>1, <2>3, <2>4, <3>1, <3>3, <5>1
        <5> QED
          BY <4>1, <4>2, <5>2
      <4>3. CASE m # None
        <5>1. m \in L!On(l) /\ m \in Nat /\ m > k /\ m # p /\ m \in L!Node
          BY <1>1, <2>3, <2>4, <4>3
        <5>2. links'[m][l].prev = k
          BY <3>2, <5>1
        <5>3. \A j \in L!On(l) : j <= k \/ j >= m
          <6>1. \A j \in L!On(l) : j <= p \/ j >= m
            BY <2>5a, <4>3
          <6> QED
            BY <1>1, <2>3, <2>4, <6>1
        <5>4. \A j \in L!On(l)' : j <= k \/ j >= m
          BY <1>1, <3>1, <5>3
        <5> QED
          BY <3>1, <3>3, <4>1, <5>1, <5>2, <5>4
      <4> QED
        BY <4>2, <4>3
    <3>4. CASE n = p
      <4>1. links'[n][l].next = k /\ links'[k][l].prev = p
        BY <3>1, <3>2, <3>4
      <4>2. \A j \in L!On(l)' : j <= p \/ j >= k
        BY <1>1, <2>3, <2>4, <3>1
      <4> QED
        BY <1>1, <2>3, <3>1, <3>4, <4>1, <4>2
    <3>5. CASE n # k /\ n # p
      <4> DEFINE q == links[n][l].next
      <4>1. n \in Onto(l) /\ n \in L!Node /\ n \in Nat /\ links'[n][l].next = q
        BY <2>4, <2>8, <3>1, <3>2, <3>5
      <4>2. k <= n \/ n < p
        <5>1. n < k => n <= p
          BY <2>3, <2>4, <4>1
        <5> QED
          BY <1>1, <2>3, <3>5, <4>1, <5>1
      <4>3. \/ q = None /\ \A j \in L!On(l) : j <= n
            \/ /\ q \in L!On(l) /\ q > n /\ links[q][l].prev = n
               /\ \A j \in L!On(l) : j <= n \/ j >= q
        BY <2>5, <4>1
      <4> HIDE DEF q
      <4>4. n < p => p \in L!On(l)
        BY <2>3, <2>4, <4>1
      <4>5. CASE q = None
        <5>1. k <= n
          BY <2>3, <4>1, <4>2, <4>3, <4>4, <4>5, <1>1, <2>4
        <5> QED
          BY <3>1, <4>1, <4>3, <4>5, <5>1, <1>1, <2>4
      <4>6. CASE q # None
        <5>1. q \in L!On(l) /\ q > n /\ links[q][l].prev = n /\ q \in L!Node /\ q \in Nat
          BY <2>4, <4>3, <4>6, <1>1
        <5>2. q # k
          BY <2>4, <5>1
        <5>3. q # m \/ q = p
          <6> SUFFICES ASSUME q = m PROVE FALSE
            OBVIOUS
          <6>1. links[m][l].prev = p
            BY <2>5a, <4>6
          <6> QED
            BY <3>5, <5>1, <6>1
        <5>4. links'[q][l].prev = n
          BY <3>2, <5>1, <5>2, <5>3
        <5>5. k <= n \/ k >= q
          BY <1>1, <2>3, <4>1, <4>2, <4>3, <4>4, <4>6, <5>1
        <5>6. \A j \in L!On(l)' : j <= n \/ j >= q
          BY <3>1, <4>3, <4>6, <5>5
        <5> QED
          BY <3>1, <4>1, <5>1, <5>4, <5>6
      <4> QED
        BY <4>5, <4>6
    <3> QED
      BY <3>3, <3>4, <3>5
  <2> QED
    BY <2>9, <2>10
<1>3. Bare'
  <2> SUFFICES ASSUME NEW l \in L!Level, NEW n \in Keys, n \notin L!On(l)'
               PROVE  links'[n][l].next = None
    BY DEF Bare
  <2>1. PICK p : p = Last(k, l)
    OBVIOUS
  <2>2. PICK m : m = links[p][l].next
    OBVIOUS
  <2>3. n \in L!Node /\ p \in L!On(l) \cup {0} /\ n # 0
    BY <1>1, <2>1, LastIs, ListConstants DEF Searchable, Onto
  <2>4. /\ n \notin L!On(l)
        /\ ~(l <= h /\ n = k) /\ n # p
    BY <2>3, InsertLinks
  <2>5. links'[n][l].next = links[n][l].next
    BY <2>1, <2>2, <2>3, <2>4, InsertParts
  <2> QED
    BY <2>4, <2>5 DEF Searchable, Bare
<1>4. \A j \in L!keys' : height'[j] <= cur_height'
  <2>1. /\ height \in [Keys -> 0..L!max_height] /\ cur_height \in Nat /\ h \in Nat
        /\ \A j \in L!keys : height[j] <= cur_height
    BY ListConstants DEF Searchable, L!TypeOK
  <2>2. /\ height' = [height EXCEPT ![k] = h]
        /\ cur_height' = IF h >= cur_height THEN h ELSE cur_height
    BY DEF L!Insert
  <2>3. \A j \in L!keys : height[j] \in Nat /\ j \in Keys
    BY <1>1, <2>1, ListConstants
  <2> QED
    BY <1>1, <2>1, <2>2, <2>3
<1> QED
  BY <1>2, <1>3, <1>4 DEF Nested

\* A link that does not begin before k does not lead over it.
LEMMA NotOver ==
  ASSUME Searchable, NEW k \in Keys, NEW l \in L!Level, NEW n \in Onto(l), n # Last(k, l),
         links[n][l].next # None
  PROVE  k <= n \/ links[n][l].next < k \/ (links[n][l].next = k /\ k \in L!On(l))
<1> DEFINE q == links[n][l].next
           p == Last(k, l)
<1>1. /\ p \in Onto(l) /\ p \in Nat /\ p < k /\ \A j \in L!On(l) : j < k => j <= p
  BY LastIs DEF Searchable
<1>2. q \in L!On(l) /\ \A j \in L!On(l) : j <= n \/ j >= q
  BY DEF Searchable, Nested
<1>3. /\ k \in Nat /\ L!On(l) \subseteq Nat /\ Onto(l) \subseteq Nat /\ Onto(l) = L!On(l) \cup {0}
  BY ListConstants, ListSets DEF Searchable, Onto
<1> HIDE DEF q, p
<1>4. CASE p \in L!On(l) /\ p > n
  <2>1. p >= q
    BY <1>2, <1>3, <1>4
  <2> QED
    BY <1>1, <1>2, <1>3, <2>1 DEF q
<1>5. CASE ~(p \in L!On(l) /\ p > n)
  <2>1. n >= p /\ n # p
    BY <1>1, <1>3, <1>5 DEF p
  <2>2. ~(n < k)
    BY <1>1, <1>3, <2>1
  <2> QED
    BY <1>3, <2>2
<1> QED
  BY <1>4, <1>5

LEMMA InsertExact ==
  ASSUME Searchable, L!TypeOK', Nested', NEW k \in Keys, NEW h \in L!Level, L!Insert(k, h)
  PROVE  Exact'
<1> SUFFICES ASSUME NEW l \in L!Level, NEW n \in Onto(l)', links'[n][l].next # None
             PROVE  (links[n][l].span = Pos(links[n][l].next) - Pos(n))'
  BY DEF Exact
<1>1. PICK p : p = Last(k, l)
  OBVIOUS
<1>2. PICK m : m = links[p][l].next
  OBVIOUS
<1>3. PICK q : q = links'[n][l].next
  OBVIOUS
<1>4. /\ k \notin L!keys /\ L!keys' = L!keys \cup {k} /\ k \in Nat /\ None \notin Nat
      /\ IsFiniteSet(L!keys) /\ L!keys \in SUBSET Nat /\ L!Node = Keys \cup {0}
      /\ L!On(l) \subseteq L!keys /\ Onto(l) = L!On(l) \cup {0} /\ Onto(l) \subseteq L!Node
      /\ Onto(l) \subseteq Nat /\ l \in Nat /\ k \notin L!On(l)
      /\ L!On(l)' = IF l <= h THEN L!On(l) \cup {k} ELSE L!On(l)
  BY InsertLinks, ListConstants, ListSets DEF Searchable, Onto
<1>5. /\ p \in Onto(l) /\ p \in Nat /\ p < k
      /\ m # None => m \in L!On(l) /\ m > k /\ links[p][l].span = Pos(m) - Pos(p)
  <2>1. p \in Onto(l) /\ p \in Nat /\ p < k
    BY <1>1, LastIs DEF Searchable
  <2>2. m # None => m \in L!On(l) /\ m >= k
    BY <1>1, <1>2, NextOfLast
  <2>3. m # None => links[p][l].span = Pos(m) - Pos(p)
    BY <1>2, <2>1 DEF Searchable, Exact
  <2> QED
    BY <1>4, <2>1, <2>2, <2>3
<1>6. n \in L!Node /\ n \in Nat /\ q \in L!On(l)' /\ q > n /\ q \in Nat
  <2>1. n \in L!On(l)' \cup {0} /\ q \in L!On(l)' /\ q > n
    BY <1>3 DEF Nested, Onto
  <2> QED
    BY <1>4, <2>1
<1>7. \A x \in Nat : Pos(x)' = Pos(x) + (IF k <= x THEN 1 ELSE 0) /\ Pos(x) \in Int
  <2>1. \A x \in Nat : Count(L!keys \cup {k}, x) = Count(L!keys, x) + (IF k <= x THEN 1 ELSE 0)
    BY <1>4, CountAdd
  <2>2. \A x \in Nat : Pos(x) \in Int
    BY PosType DEF Searchable
  <2> QED
    BY <1>4, <2>1, <2>2 DEF Pos
<1>8. PICK d : d = Pos(q)' - Pos(n)'
  OBVIOUS
<1> SUFFICES links'[n][l].span = d
  BY <1>3, <1>8 DEF Pos
<1>9. d \in 0..SpanMod - 1 /\ d \in Int /\ d % SpanMod = d
  <2>1. d \in 0..SpanMod - 1 /\ SpanMod \in Nat \ {0}
    BY <1>6, <1>8, PosGrowsNext, ListConstants
  <2> QED
    BY <2>1, Wrapped
<1>10. d = Pos(q) - Pos(n) + (IF k <= q THEN 1 ELSE 0) - (IF k <= n THEN 1 ELSE 0)
  BY <1>6, <1>7, <1>8
<1>11. /\ q = IF l <= h /\ n = k THEN m ELSE IF l <= h /\ n = p THEN k ELSE links[n][l].next
       /\ l > h => links'[n][l].span = IF l <= cur_height /\ n = p
                                         THEN (links[n][l].span + 1) % SpanMod
                                         ELSE links[n][l].span
       /\ l <= h => links'[n][l].span =
            IF n = k THEN (links[p][l].span - (Pos(k) - Pos(p) + 1) + 1) % SpanMod
            ELSE IF n = p THEN (Pos(k) - Pos(p) + 1) % SpanMod
            ELSE links[n][l].span
  BY <1>1, <1>2, <1>3, <1>6, InsertParts
<1>12. ASSUME n # k, n # p PROVE links'[n][l].span = d
  <2>1. n \in Onto(l) /\ q = links[n][l].next /\ q # None
    BY <1>3, <1>4, <1>6, <1>11, <1>12 DEF Onto
  <2>2. k <= n \/ q < k
    BY <1>1, <1>4, <1>12, <2>1, NotOver
  <2>3. links[n][l].span = Pos(q) - Pos(n)
    BY <2>1 DEF Searchable, Exact
  <2>4. links'[n][l].span = links[n][l].span
    BY <1>4, <1>11, <1>12, ListConstants
  <2> QED
    BY <1>4, <1>6, <1>7, <1>10, <2>2, <2>3, <2>4
<1>13. CASE l <= h /\ n = k
  <2>1. q = m /\ links'[n][l].span = (links[p][l].span - (Pos(k) - Pos(p) + 1) + 1) % SpanMod
    BY <1>11, <1>13
  <2>2. m > k /\ links[p][l].span = Pos(m) - Pos(p)
    BY <1>3, <1>5, <2>1
  <2>3. links[p][l].span - (Pos(k) - Pos(p) + 1) + 1 = d
    BY <1>4, <1>5, <1>6, <1>7, <1>10, <1>13, <2>1, <2>2
  <2> QED
    BY <1>9, <2>1, <2>3
<1>14. CASE l <= h /\ n = p
  <2>1. q = k /\ links'[n][l].span = (Pos(k) - Pos(p) + 1) % SpanMod
    BY <1>4, <1>5, <1>11, <1>14
  <2>2. Pos(k) - Pos(p) + 1 = d
    BY <1>4, <1>5, <1>6, <1>7, <1>10, <1>14, <2>1
  <2> QED
    BY <1>9, <2>1, <2>2
<1>15. CASE ~(l <= h)
  <2>1. n # k /\ q = links[n][l].next
    BY <1>4, <1>6, <1>11, <1>15, ListConstants DEF Onto
  <2>2. CASE n = p
    <3>1. l <= cur_height
      <4>1. L!On(l) # {}
        BY <1>4, <1>6, <1>15
      <4>2. ~(l > cur_height)
        BY <4>1, AboveIsEmpty
      <4>3. cur_height \in Nat
        BY ListConstants DEF Searchable, L!TypeOK
      <4> QED
        BY <1>4, <4>2, <4>3
    <3>2. links'[n][l].span = (links[n][l].span + 1) % SpanMod
      BY <1>4, <1>11, <1>15, <2>2, <3>1, ListConstants
    <3>3. q = m /\ m > k /\ links[n][l].span = Pos(q) - Pos(n)
      BY <1>2, <1>3, <1>5, <2>1, <2>2
    <3>4. links[n][l].span + 1 = d
      BY <1>4, <1>5, <1>6, <1>7, <1>10, <2>2, <3>3
    <3> QED
      BY <1>9, <3>2, <3>4
  <2> QED
    BY <1>12, <2>1, <2>2
<1> QED
  BY <1>12, <1>13, <1>14, <1>15

LEMMA InsertListIInv ==
  ASSUME ListIInv, NEW k \in Keys, NEW h \in L!Level, L!Insert(k, h)
  PROVE  ListIInv'
<1>1. Searchable
  BY SearchableIs
<1>2. /\ L!TypeOK' /\ TailIsLast' /\ num_nodes' = Cardinality(L!keys)'
      /\ forward' \in L!keys' \cup {None} /\ backward' \in L!keys' \cup {None}
  BY InsertType
<1>3. Nested' /\ Bare' /\ \A j \in L!keys' : height'[j] <= cur_height'
  BY <1>1, InsertNested
<1>4. Exact'
  BY <1>1, <1>2, <1>3, InsertExact
<1> QED
  BY <1>2, <1>3, <1>4, ListIInvNext DEF Searchable

-----------------------------------------------------------------------------
(* Erasure from the skip list. *)

\* A node of a level and its neighbours.
LEMMA Neighbours ==
  ASSUME Searchable, NEW l \in L!Level, NEW k \in L!On(l)
  PROVE  /\ links[Last(k, l)][l].next = k /\ links[k][l].prev = Last(k, l)
         /\ links[Last(k, l)][l].span = Pos(k) - Pos(Last(k, l))
         /\ \/ links[k][l].next = None /\ \A j \in L!On(l) : j <= k
            \/ /\ links[k][l].next \in L!On(l) /\ links[k][l].next > k
               /\ links[links[k][l].next][l].prev = k
               /\ links[k][l].span = Pos(links[k][l].next) - Pos(k)
               /\ \A j \in L!On(l) : j <= k \/ j >= links[k][l].next
<1>1. k \in Keys /\ k # None /\ k \in Onto(l)
  BY ListSets, ListConstants DEF Searchable, Onto
<1>2. Last(k, l) \in Onto(l) /\ links[Last(k, l)][l].next = k
  BY <1>1, LastIs, NextOfLast DEF Searchable
<1>3. links[k][l].prev = Last(k, l)
  BY <1>1, <1>2 DEF Searchable, Nested
<1>4. links[Last(k, l)][l].span = Pos(k) - Pos(Last(k, l))
  BY <1>1, <1>2 DEF Searchable, Exact
<1>5. \/ links[k][l].next = None /\ \A j \in L!On(l) : j <= k
      \/ /\ links[k][l].next \in L!On(l) /\ links[k][l].next > k
         /\ links[links[k][l].next][l].prev = k
         /\ \A j \in L!On(l) : j <= k \/ j >= links[k][l].next
  BY <1>1 DEF Searchable, Nested
<1>6. links[k][l].next # None => links[k][l].span = Pos(links[k][l].next) - Pos(k)
  BY <1>1 DEF Searchable, Exact
<1>7. links[k][l].next \in L!On(l) => links[k][l].next # None
  BY ListSets, ListConstants DEF Searchable
<1> QED
  BY <1>2, <1>3, <1>4, <1>5, <1>6, <1>7

\* The links of n on level l after k was taken out.
ErasedLink(k, n, l) ==
  LET p == Last(k, l)  own == links[k][l] IN
  IF n = k THEN L!Unlinked
  ELSE IF k \in L!On(l)
    THEN IF n = p THEN [links[n][l] EXCEPT !.next = own.next, !.span = (@ + own.span - 1) % SpanMod]
         ELSE IF n = own.next THEN [links[n][l] EXCEPT !.prev = p] ELSE links[n][l]
  ELSE IF l <= cur_height /\ n = p THEN [links[n][l] EXCEPT !.span = (@ - 1) % SpanMod]
  ELSE links[n][l]

LEMMA EraseLinks ==
  ASSUME Searchable, NEW k \in L!keys, L!EraseNode(k)
  PROVE  /\ k \in Keys /\ L!keys' = L!keys \ {k}
         /\ \A l \in L!Level : L!On(l)' = L!On(l) \ {k}
         /\ \A n \in L!Node, l \in L!Level : links'[n][l] = ErasedLink(k, n, l)
<1>1. k \in Keys /\ L!keys \subseteq Keys
  BY DEF L!keys
<1>2. \A j \in Keys : height'[j] = IF j = k THEN 0 ELSE height[j]
  BY <1>1 DEF L!EraseNode, Searchable, L!TypeOK
<1>3. L!keys' = L!keys \ {k}
  BY <1>1, <1>2 DEF L!keys
<1>4. ASSUME NEW l \in L!Level PROVE L!On(l)' = L!On(l) \ {k}
  <2>1. L!On(l)' = {j \in L!keys' : height'[j] >= l}
    BY DEF L!On
  <2>2. L!On(l) = {j \in L!keys : height[j] >= l}
    BY DEF L!On
  <2>3. \A j \in L!keys : j # k => height'[j] = height[j]
    BY <1>1, <1>2
  <2> QED
    BY <1>3, <2>1, <2>2, <2>3
<1>5. ASSUME NEW n \in L!Node, NEW l \in L!Level
      PROVE  links'[n][l] = ErasedLink(k, n, l)
  <2> DEFINE b == L!Before(k)
  <2>1. links' = L!Bypassed(k, b)
    BY DEF L!EraseNode
  <2>2. /\ b[l].node = Last(k, l)
        /\ links[Last(k, l)][l].next = k <=> k \in L!On(l)
    BY <1>1, BeforeIs, NextOfLast DEF Searched
  <2>3. k \in L!On(l) => links[k][l].prev = Last(k, l)
    BY Neighbours
  <2>4. l > cur_height => k \notin L!On(l)
    BY AboveIsEmpty
  <2>5. l > cur_height <=> ~(l <= cur_height)
    BY ListConstants DEF Searchable, L!TypeOK
  <2> HIDE DEF b
  <2>6. links'[n][l] =
          LET p == b[l].node  own == links[k][l] IN
          IF n = k THEN L!Unlinked
          ELSE IF l > cur_height THEN links[n][l]
          ELSE IF links[p][l].next # k
            THEN IF n = p THEN [links[n][l] EXCEPT !.span = (@ - 1) % SpanMod] ELSE links[n][l]
          ELSE IF n = own.prev
            THEN [links[n][l] EXCEPT !.next = own.next, !.span = (@ + own.span - 1) % SpanMod]
          ELSE IF n = own.next THEN [links[n][l] EXCEPT !.prev = own.prev]
          ELSE links[n][l]
    BY <2>1 DEF L!Bypassed
  <2> QED
    BY <2>2, <2>3, <2>4, <2>5, <2>6 DEF ErasedLink
<1> QED
  BY <1>1, <1>3, <1>4, <1>5

LEMMA EraseParts ==
  ASSUME Searchable, NEW k \in L!keys, L!EraseNode(k), NEW n \in L!Node, NEW l \in L!Level,
         NEW p, p = Last(k, l), NEW m, m = links[k][l].next
  PROVE  /\ links'[n][l] \in L!Links
         /\ links'[n][l].next = IF n = k THEN None ELSE IF k \in L!On(l) /\ n = p THEN m
                                ELSE links[n][l].next
         /\ n # k => links'[n][l].prev = IF k \in L!On(l) /\ n # p /\ n = m THEN p
                                         ELSE links[n][l].prev
         /\ n # k => links'[n][l].span =
              IF k \in L!On(l) /\ n = p
                THEN (links[n][l].span + links[k][l].span - 1) % SpanMod
              ELSE IF k \notin L!On(l) /\ l <= cur_height /\ n = p
                THEN (links[n][l].span - 1) % SpanMod
              ELSE links[n][l].span
<1> DEFINE own == links[k][l]
<1>1. /\ k \in Keys /\ k \in L!Node /\ p \in L!Node
  BY EraseLinks, LastIs, ListSets, ListConstants DEF Searchable
<1>2. /\ links[n][l] \in L!Links
      /\ links[n][l] = [next |-> links[n][l].next, prev |-> links[n][l].prev,
                        span |-> links[n][l].span]
      /\ links[n][l].next \in Keys \cup {None}
      /\ links[n][l].prev \in L!Node \cup {None}
      /\ links[n][l].span \in L!Span /\ links[n][l].span \in Int
  BY LinkType
<1>3. own.next \in Keys \cup {None} /\ own.span \in Int
  BY <1>1, LinkType
<1>4. links'[n][l] =
        IF n = k THEN L!Unlinked
        ELSE IF k \in L!On(l)
          THEN IF n = p THEN [links[n][l] EXCEPT !.next = own.next, !.span = (@ + own.span - 1) % SpanMod]
               ELSE IF n = own.next THEN [links[n][l] EXCEPT !.prev = p] ELSE links[n][l]
        ELSE IF l <= cur_height /\ n = p THEN [links[n][l] EXCEPT !.span = (@ - 1) % SpanMod]
        ELSE links[n][l]
  <2>1. links'[n][l] = ErasedLink(k, n, l)
    BY EraseLinks
  <2>2. Last(k, l) = p
    OBVIOUS
  <2> QED
    BY <2>1, <2>2 DEF ErasedLink
<1>5. /\ (links[n][l].span + own.span - 1) % SpanMod \in L!Span
      /\ (links[n][l].span - 1) % SpanMod \in L!Span
      /\ 0 \in L!Span
  <2>1. SpanMod \in Nat \ {0} /\ L!Span = 0..SpanMod - 1
    BY ListConstants
  <2>2. links[n][l].span + own.span - 1 \in Int /\ links[n][l].span - 1 \in Int
    BY <1>2, <1>3
  <2>3. \A a \in Int : a % SpanMod \in L!Span
    BY <2>1, Wrapped
  <2>4. 0 \in L!Span
    BY <2>1
  <2> QED
    BY <2>2, <2>3, <2>4
<1>6. CASE n = k
  BY <1>4, <1>5, <1>6 DEF L!Links, L!Unlinked
<1>7. CASE n # k /\ k \in L!On(l) /\ n = p
  <2>1. links'[n][l] = [next |-> own.next, prev |-> links[n][l].prev,
                        span |-> (links[n][l].span + own.span - 1) % SpanMod]
    BY <1>2, <1>4, <1>7
  <2> QED
    BY <1>2, <1>3, <1>5, <1>7, <2>1 DEF L!Links
<1>8. CASE n # k /\ k \in L!On(l) /\ n # p
  BY <1>1, <1>2, <1>4, <1>8 DEF L!Links
<1>9. CASE n # k /\ k \notin L!On(l) /\ l <= cur_height /\ n = p
  <2>1. links'[n][l] = [next |-> links[n][l].next, prev |-> links[n][l].prev,
                        span |-> (links[n][l].span - 1) % SpanMod]
    BY <1>2, <1>4, <1>9
  <2> QED
    BY <1>2, <1>5, <1>9, <2>1 DEF L!Links
<1>10. CASE n # k /\ k \notin L!On(l) /\ ~(l <= cur_height /\ n = p)
  BY <1>2, <1>4, <1>10
<1> QED
  BY <1>6, <1>7, <1>8, <1>9, <1>10

LEMMA EraseNested ==
  ASSUME Searchable, NEW k \in L!keys, L!EraseNode(k)
  PROVE  Nested' /\ Bare'
<1>1. /\ L!keys' = L!keys \ {k} /\ k \in Nat /\ k \in Keys /\ k # 0
      /\ L!keys \subseteq Keys /\ Keys \subseteq Nat /\ L!keys \subseteq Nat
      /\ None \notin Nat /\ L!Node = Keys \cup {0}
  BY EraseLinks, ListConstants, ListSets DEF Searchable
<1>2. ASSUME NEW l \in L!Level, NEW n \in Onto(l)'
      PROVE  \/ links'[n][l].next = None /\ \A j \in L!On(l)' : j <= n
             \/ /\ links'[n][l].next \in L!On(l)' /\ links'[n][l].next > n
                /\ links'[links'[n][l].next][l].prev = n
                /\ \A j \in L!On(l)' : j <= n \/ j >= links'[n][l].next
  <2>1. PICK p : p = Last(k, l)
    OBVIOUS
  <2>2. PICK m : m = links[k][l].next
    OBVIOUS
  <2>3. /\ p \in Onto(l) /\ p \in Nat /\ p < k
        /\ \A j \in L!On(l) : j < k => j <= p
    BY <1>1, <2>1, LastIs DEF Searchable
  <2>4. /\ L!On(l) \subseteq L!keys /\ Onto(l) \subseteq L!Node /\ Onto(l) \subseteq Nat
        /\ Onto(l) = L!On(l) \cup {0} /\ L!On(l) \subseteq Nat
    BY <1>1, ListSets, ListConstants DEF Searchable, Onto
  <2>5. \A i \in Onto(l) :
          \/ links[i][l].next = None /\ \A j \in L!On(l) : j <= i
          \/ /\ links[i][l].next \in L!On(l) /\ links[i][l].next > i
             /\ links[links[i][l].next][l].prev = i
             /\ \A j \in L!On(l) : j <= i \/ j >= links[i][l].next
    BY DEF Searchable, Nested
  <2>6. \A i \in L!Node :
          /\ links'[i][l].next = IF i = k THEN None ELSE IF k \in L!On(l) /\ i = p THEN m
                                 ELSE links[i][l].next
          /\ i # k => links'[i][l].prev = IF k \in L!On(l) /\ i # p /\ i = m THEN p
                                          ELSE links[i][l].prev
    BY <2>1, <2>2, EraseParts
  <2>7. L!On(l)' = L!On(l) \ {k}
    BY EraseLinks
  <2>8. n \in Onto(l) /\ n # k /\ n \in L!Node /\ n \in Nat
    <3>1. n \in L!On(l)' \cup {0}
      BY DEF Onto
    <3> QED
      BY <1>1, <2>4, <2>7, <3>1
  <2> DEFINE q == links[n][l].next
  <2>9. \/ q = None /\ \A j \in L!On(l) : j <= n
        \/ /\ q \in L!On(l) /\ q > n /\ links[q][l].prev = n
           /\ \A j \in L!On(l) : j <= n \/ j >= q
    BY <2>5, <2>8
  <2>10. q \in L!On(l) => q \in L!Node /\ q \in Nat
    BY <2>4, <1>1
  <2> HIDE DEF q
  <2>11. CASE k \notin L!On(l)
    <3>1. links'[n][l].next = q
      BY <2>6, <2>8, <2>11 DEF q
    <3>2. CASE q = None
      BY <1>1, <2>4, <2>7, <2>9, <3>1, <3>2
    <3>3. CASE q # None
      <4>1. q \in L!On(l) /\ q # k /\ q \in L!Node
        BY <2>9, <2>10, <2>11, <3>3
      <4>2. links'[q][l].prev = links[q][l].prev
        BY <2>6, <2>11, <4>1
      <4> QED
        BY <2>7, <2>9, <3>1, <3>3, <4>1, <4>2
    <3> QED
      BY <3>2, <3>3
  <2>12. CASE k \in L!On(l)
    <3>1. /\ links[p][l].next = k /\ links[k][l].prev = p
          /\ \/ m = None /\ \A j \in L!On(l) : j <= k
             \/ /\ m \in L!On(l) /\ m > k /\ links[m][l].prev = k
                /\ \A j \in L!On(l) : j <= k \/ j >= m
      BY <2>1, <2>2, <2>12, Neighbours
    <3>2. CASE n = p
      <4>1. links'[n][l].next = m
        BY <2>6, <2>8, <2>12, <3>2
      <4>2. \A j \in L!On(l)' : j <= k => j <= p
        BY <1>1, <2>3, <2>4, <2>7
      <4>3. CASE m = None
        <5>1. \A j \in L!On(l)' : j <= p
          BY <1>1, <2>4, <2>7, <3>1, <4>2, <4>3
        <5> QED
          BY <3>2, <4>1, <4>3, <5>1
      <4>4. CASE m # None
        <5>1. m \in L!On(l) /\ m > k /\ m \in Nat /\ m \in L!Node /\ m # k /\ m # p
          BY <1>1, <2>3, <2>4, <3>1, <4>4
        <5>2. links'[m][l].prev = p
          BY <2>6, <2>12, <5>1
        <5>3. \A j \in L!On(l)' : j <= p \/ j >= m
          BY <2>7, <3>1, <4>2, <4>4
        <5>4. m > p
          BY <1>1, <2>3, <5>1
        <5> QED
          BY <2>7, <3>2, <4>1, <5>1, <5>2, <5>3, <5>4
      <4> QED
        BY <4>3, <4>4
    <3>3. CASE n # p
      <4>1. links'[n][l].next = q
        BY <2>6, <2>8, <3>3 DEF q
      <4>2. CASE q = None
        BY <1>1, <2>7, <2>9, <2>4, <4>1, <4>2
      <4>3. CASE q # None
        <5>1. /\ q \in L!On(l) /\ q > n /\ links[q][l].prev = n
              /\ \A j \in L!On(l) : j <= n \/ j >= q
          BY <2>9, <4>3
        <5>2. q # k /\ q \in L!Node
          BY <2>10, <3>1, <3>3, <5>1
        <5>3. q # m
          <6> SUFFICES ASSUME q = m PROVE FALSE
            OBVIOUS
          <6>1. links[m][l].prev = k
            BY <3>1, <4>3
          <6> QED
            BY <2>8, <5>1, <6>1
        <5>4. links'[q][l].prev = n
          BY <2>6, <5>1, <5>2, <5>3
        <5> QED
          BY <2>7, <4>1, <5>1, <5>2, <5>4
      <4> QED
        BY <4>2, <4>3
    <3> QED
      BY <3>2, <3>3
  <2> QED
    BY <2>11, <2>12
<1>3. Bare'
  <2> SUFFICES ASSUME NEW l \in L!Level, NEW n \in Keys, n \notin L!On(l)'
               PROVE  links'[n][l].next = None
    BY DEF Bare
  <2>1. PICK p : p = Last(k, l)
    OBVIOUS
  <2>2. PICK m : m = links[k][l].next
    OBVIOUS
  <2>3. n \in L!Node /\ p \in L!On(l) \cup {0} /\ n # 0 /\ p # k
    BY <1>1, <2>1, LastIs, ListConstants DEF Searchable, Onto
  <2>4. n = k \/ (n \notin L!On(l) /\ n # p)
    BY <2>3, EraseLinks
  <2>5. n # k => links'[n][l].next = links[n][l].next
    BY <2>1, <2>2, <2>3, <2>4, EraseParts
  <2>6. n = k => links'[n][l].next = None
    BY <2>1, <2>2, <2>3, EraseParts
  <2> QED
    BY <2>4, <2>5, <2>6 DEF Searchable, Bare
<1> QED
  BY <1>2, <1>3 DEF Nested

\* The search begins no lower than the highest node that is left.
LEMMA SunkIs ==
  ASSUME Searchable, NEW k \in L!keys, L!EraseNode(k)
  PROVE  /\ cur_height' \in 1..cur_height
         /\ \A j \in L!keys' : height'[j] <= cur_height'
<1> DEFINE P(h) == /\ h = 1 \/ links'[0][h].next # None
                   /\ \A g \in h + 1..cur_height : links'[0][g].next = None
           A == {h \in 1..cur_height : links'[0][h].next # None}
           top == CHOOSE h \in 1..cur_height : P(h)
<1>1. cur_height \in Nat \ {0} /\ \A h \in 1..cur_height : h \in L!Level
  BY ListConstants DEF Searchable, L!TypeOK
<1>2. \E h \in 1..cur_height : P(h)
  <2>1. CASE A = {}
    <3>1. P(1)
      BY <1>1, <2>1
    <3> QED
      BY <1>1, <3>1
  <2>2. CASE A # {}
    <3>1. A \in SUBSET Nat /\ \A h \in A : h <= cur_height
      BY <1>1
    <3>2. PICK h \in A : \A g \in A : g <= h
      BY <1>1, <2>2, <3>1, Highest
    <3>3. \A g \in h + 1..cur_height : g \in 1..cur_height /\ ~(g <= h)
      BY <1>1, <3>1, <3>2
    <3>4. P(h)
      BY <3>2, <3>3
    <3> QED
      BY <3>2, <3>4
  <2> QED
    BY <2>1, <2>2
<1>3. cur_height' = top
  BY DEF L!EraseNode, L!Sunk, L!head
<1>4. cur_height' \in 1..cur_height /\ P(cur_height')
  <2>1. top \in 1..cur_height /\ P(top)
    <3> HIDE DEF P
    <3> QED
      BY <1>2
  <2> HIDE DEF top
  <2> QED
    BY <1>3, <2>1
<1>5. ASSUME NEW j \in L!keys' PROVE height'[j] <= cur_height'
  <2>1. k \in Keys /\ j \in L!keys /\ j # k /\ j \in Keys
    BY EraseLinks, ListSets DEF Searchable
  <2>2. height'[j] = height[j]
    BY <2>1 DEF L!EraseNode, Searchable, L!TypeOK
  <2>3. height[j] \in 1..cur_height /\ height[j] \in L!Level /\ j \in L!On(height[j])
    BY <2>1, HeightIs, ListConstants
  <2>10. PICK g \in L!Level : g = height[j]
    BY <2>3
  <2>4. j \in L!On(g)' /\ 0 \in Onto(g)' /\ ~(j <= 0)
    <3>1. L!On(g)' = L!On(g) \ {k} /\ j \in Nat /\ j # 0
      BY <2>1, EraseLinks, ListConstants
    <3> QED
      BY <2>1, <2>3, <2>10, <3>1 DEF Onto
  <2>5. links'[0][g].next # None
    <3>2. Nested'
      BY EraseNested
    <3>3. \/ links'[0][g].next = None /\ \A i \in L!On(g)' : i <= 0
          \/ links'[0][g].next \in L!On(g)'
      BY <2>4, <3>2 DEF Nested
    <3>4. L!On(g)' \subseteq Nat /\ None \notin Nat
      <4>1. L!On(g)' = L!On(g) \ {k} /\ L!On(g) \subseteq L!keys
        BY EraseLinks, ListSets DEF Searchable
      <4> QED
        BY <4>1, ListSets, ListConstants DEF Searchable
    <3> QED
      BY <2>4, <3>3, <3>4
  <2>6. g \notin cur_height' + 1..cur_height
    BY <1>4, <2>5
  <2> QED
    BY <1>1, <1>4, <2>2, <2>3, <2>6, <2>10
<1> QED
  BY <1>4, <1>5

LEMMA EraseType ==
  ASSUME ListIInv, NEW k \in L!keys, L!EraseNode(k)
  PROVE  /\ L!TypeOK'
         /\ TailIsLast' /\ num_nodes' = Cardinality(L!keys)'
         /\ forward' \in L!keys' \cup {None} /\ backward' \in L!keys' \cup {None}
<1>1. Searchable /\ L!TypeOK
  BY SearchableIs DEF Searchable
<1>2. /\ k \in Keys /\ L!keys' = L!keys \ {k} /\ k \in Nat /\ 1 \in L!Level
      /\ L!keys \subseteq Keys /\ Keys \subseteq Nat /\ L!keys \subseteq Nat /\ 0 \notin L!keys
      /\ L!On(1) = L!keys /\ None \notin Nat
  BY <1>1, EraseLinks, ListConstants, ListSets
<1>3. links' \in [L!Node -> [L!Level -> L!Links]]
  <2>1. \A n \in L!Node, l \in L!Level : links'[n][l] \in L!Links
    BY <1>1, EraseParts
  <2>2. links' = [n \in L!Node |-> [l \in L!Level |-> links'[n][l]]]
    BY DEF L!EraseNode, L!Bypassed
  <2> QED
    BY <2>1, <2>2
<1>4. height' \in [Keys -> 0..L!max_height] /\ cur_height' \in L!Level
  <2>1. height \in [Keys -> 0..L!max_height] /\ cur_height \in L!Level
    BY DEF ListIInv, L!TypeOK
  <2>2. height' = [height EXCEPT ![k] = 0]
    BY DEF L!EraseNode
  <2>3. cur_height' \in 1..cur_height
    BY <1>1, SunkIs
  <2>4. L!Level = 1..L!max_height /\ L!max_height \in Nat
    BY ListConstants
  <2>5. 0 \in 0..L!max_height
    BY <2>4
  <2>6. cur_height' \in L!Level
    BY <2>1, <2>3, <2>4
  <2> QED
    BY <2>1, <2>2, <2>5, <2>6
<1> DEFINE p == Last(k, 1)
           m == links[k][1].next
<1>5. /\ p \in L!keys \cup {0} /\ p < k /\ \A j \in L!keys : j < k => j <= p
      /\ links[k][1].prev = p
      /\ m \in L!keys \cup {None} /\ m # k
  <2>1. p \in Onto(1) /\ p < k /\ \A j \in L!keys : j < k => j <= p
    BY <1>1, <1>2, LastIs
  <2>2. /\ links[k][1].prev = p
        /\ m = None \/ (m \in L!keys /\ m > k)
    BY <1>1, <1>2, Neighbours
  <2> QED
    BY <1>2, <2>1, <2>2 DEF Onto
<1>6. L!Previous(k) = IF p = 0 THEN None ELSE p
  BY <1>5 DEF L!Previous, L!head
<1>7. /\ tail' = IF tail = k THEN L!Previous(k) ELSE tail
      /\ forward' = IF forward = k THEN m ELSE forward
      /\ backward' = IF backward = k THEN L!Previous(k) ELSE backward
      /\ num_nodes' = num_nodes - 1
  BY DEF L!EraseNode, L!Off
<1> HIDE DEF p, m
<1>8. L!Previous(k) \in L!keys' \cup {None} /\ m \in L!keys' \cup {None}
  BY <1>2, <1>5, <1>6
<1>9. TailIsLast' /\ tail' \in Keys \cup {None}
  <2>1. tail \in L!keys /\ \A j \in L!keys : j <= tail
    BY DEF ListIInv, TailIsLast
  <2>2. CASE tail = k
    <3>1. \A j \in L!keys' : j <= p
      BY <1>2, <1>5, <2>1, <2>2
    <3>2. CASE p = 0
      <4>1. L!keys' = {}
        BY <1>2, <3>1, <3>2
      <4> QED
        BY <1>6, <1>7, <2>2, <3>2, <4>1 DEF TailIsLast
    <3>3. CASE p # 0
      <4>1. p \in L!keys' /\ tail' = p
        BY <1>2, <1>5, <1>6, <1>7, <2>2, <3>3
      <4> QED
        BY <1>2, <3>1, <4>1 DEF TailIsLast
    <3> QED
      BY <3>2, <3>3
  <2>3. CASE tail # k
    <3>1. tail' = tail /\ tail \in L!keys'
      BY <1>2, <1>7, <2>1, <2>3
    <3> QED
      BY <1>2, <2>1, <3>1 DEF TailIsLast
  <2> QED
    BY <2>2, <2>3
<1>10. num_nodes' = Cardinality(L!keys') /\ Cardinality(L!keys') \in 0..Cardinality(Keys)
  <2>1. IsFiniteSet(L!keys) /\ num_nodes = Cardinality(L!keys)
    BY <1>1, ListSets DEF ListIInv
  <2>2. Cardinality(L!keys') = Cardinality(L!keys) - 1
    BY <1>2, <2>1, FS_RemoveElement
  <2>3. L!keys' \in SUBSET Keys /\ IsFiniteSet(Keys)
    BY <1>2, ListConstants
  <2>4. Cardinality(L!keys') <= Cardinality(Keys) /\ IsFiniteSet(L!keys')
    BY <2>3, FS_Subset
  <2>5. Cardinality(L!keys') \in Nat /\ Cardinality(Keys) \in Nat
    BY <2>3, <2>4, FS_CardinalityType
  <2> QED
    BY <1>7, <2>1, <2>2, <2>4, <2>5
<1>11. /\ forward' \in L!keys' \cup {None} /\ backward' \in L!keys' \cup {None}
       /\ forward' \in Keys \cup {None} /\ backward' \in Keys \cup {None}
  <2>1. forward \in L!keys \cup {None} /\ backward \in L!keys \cup {None}
    BY DEF ListIInv
  <2>2. forward' \in L!keys' \cup {None} /\ backward' \in L!keys' \cup {None}
    BY <1>2, <1>7, <1>8, <2>1
  <2> QED
    BY <1>2, <2>2
<1>12. num_nodes' \in 0..L!Cardinality(Keys)
  BY <1>10, SameCount
<1> QED
  BY <1>3, <1>4, <1>9, <1>10, <1>11, <1>12 DEF L!TypeOK

LEMMA EraseExact ==
  ASSUME Searchable, L!TypeOK', Nested', NEW k \in L!keys, L!EraseNode(k)
  PROVE  Exact'
<1> SUFFICES ASSUME NEW l \in L!Level, NEW n \in Onto(l)', links'[n][l].next # None
             PROVE  (links[n][l].span = Pos(links[n][l].next) - Pos(n))'
  BY DEF Exact
<1>1. PICK p : p = Last(k, l)
  OBVIOUS
<1>2. PICK m : m = links[k][l].next
  OBVIOUS
<1>3. PICK q : q = links'[n][l].next
  OBVIOUS
<1>4. /\ L!keys' = L!keys \ {k} /\ k \in Nat /\ k \in Keys /\ None \notin Nat
      /\ IsFiniteSet(L!keys) /\ L!keys \in SUBSET Nat /\ k # 0
      /\ L!On(l) \subseteq L!keys /\ Onto(l) = L!On(l) \cup {0} /\ Onto(l) \subseteq L!Node
      /\ Onto(l) \subseteq Nat
      /\ L!On(l)' = L!On(l) \ {k}
  BY EraseLinks, ListConstants, ListSets DEF Searchable, Onto
<1>5. p \in Onto(l) /\ p \in Nat /\ p < k
  BY <1>1, <1>4, LastIs DEF Searchable
<1>6. /\ n \in L!Node /\ n \in Nat /\ n \in Onto(l) /\ n # k
      /\ q \in L!On(l) /\ q # k /\ q > n /\ q \in Nat
  <2>1. n \in L!On(l)' \cup {0} /\ q \in L!On(l)' /\ q > n
    BY <1>3 DEF Nested, Onto
  <2> QED
    BY <1>4, <2>1
<1>7. \A x \in Nat : Pos(x)' = Pos(x) - (IF k <= x THEN 1 ELSE 0) /\ Pos(x) \in Int
  <2>1. \A x \in Nat : Count(L!keys \ {k}, x) = Count(L!keys, x) - (IF k <= x THEN 1 ELSE 0)
    BY <1>4, CountRemove
  <2>2. \A x \in Nat : Pos(x) \in Int
    BY PosType DEF Searchable
  <2> QED
    BY <1>4, <2>1, <2>2 DEF Pos
<1>8. PICK d : d = Pos(q)' - Pos(n)'
  OBVIOUS
<1> SUFFICES links'[n][l].span = d
  BY <1>3, <1>8 DEF Pos
<1>9. d \in 0..SpanMod - 1 /\ d \in Int /\ d % SpanMod = d
  <2>1. d \in 0..SpanMod - 1 /\ SpanMod \in Nat \ {0}
    BY <1>6, <1>8, PosGrowsNext, ListConstants
  <2> QED
    BY <2>1, Wrapped
<1>10. d = Pos(q) - Pos(n) - (IF k <= q THEN 1 ELSE 0) + (IF k <= n THEN 1 ELSE 0)
  BY <1>6, <1>7, <1>8
<1>11. /\ q = IF k \in L!On(l) /\ n = p THEN m ELSE links[n][l].next
       /\ links'[n][l].span =
            IF k \in L!On(l) /\ n = p
              THEN (links[n][l].span + links[k][l].span - 1) % SpanMod
            ELSE IF k \notin L!On(l) /\ l <= cur_height /\ n = p
              THEN (links[n][l].span - 1) % SpanMod
            ELSE links[n][l].span
  BY <1>1, <1>2, <1>3, <1>6, EraseParts
<1>12. CASE n # p
  <2>1. q = links[n][l].next /\ q # None /\ links'[n][l].span = links[n][l].span
    BY <1>3, <1>11, <1>12
  <2>2. k <= n \/ q < k
    BY <1>1, <1>4, <1>6, <1>12, <2>1, NotOver
  <2>3. links[n][l].span = Pos(q) - Pos(n)
    BY <1>6, <2>1 DEF Searchable, Exact
  <2> QED
    BY <1>4, <1>6, <1>7, <1>10, <2>1, <2>2, <2>3
<1>13. CASE n = p /\ k \in L!On(l)
  <2>1. q = m /\ links'[n][l].span = (links[n][l].span + links[k][l].span - 1) % SpanMod
    BY <1>11, <1>13
  <2>2. /\ links[n][l].span = Pos(k) - Pos(n)
        /\ q > k /\ links[k][l].span = Pos(q) - Pos(k)
    BY <1>1, <1>2, <1>3, <1>13, <2>1, Neighbours
  <2>3. links[n][l].span + links[k][l].span - 1 = d
    BY <1>4, <1>5, <1>6, <1>7, <1>10, <1>13, <2>2
  <2> QED
    BY <1>9, <2>1, <2>3
<1>14. CASE n = p /\ k \notin L!On(l)
  <2>1. l <= cur_height
    <3>1. L!On(l) # {}
      BY <1>6
    <3>2. ~(l > cur_height)
      BY <3>1, AboveIsEmpty
    <3> QED
      BY <3>2, ListConstants DEF Searchable, L!TypeOK
  <2>2. q = links[n][l].next /\ links'[n][l].span = (links[n][l].span - 1) % SpanMod
    BY <1>11, <1>14, <2>1
  <2>3. q >= k /\ q > k
    <3>1. q >= k
      BY <1>1, <1>3, <1>4, <1>14, <2>2, NextOfLast
    <3> QED
      BY <1>4, <1>6, <3>1
  <2>4. links[n][l].span = Pos(q) - Pos(n)
    BY <1>3, <1>6, <2>2 DEF Searchable, Exact
  <2>5. links[n][l].span - 1 = d
    BY <1>4, <1>5, <1>6, <1>7, <1>10, <1>14, <2>3, <2>4
  <2> QED
    BY <1>9, <2>2, <2>5
<1> QED
  BY <1>12, <1>13, <1>14

LEMMA EraseListIInv ==
  ASSUME ListIInv, NEW k \in L!keys, L!EraseNode(k)
  PROVE  ListIInv'
<1>1. Searchable
  BY SearchableIs
<1>2. /\ L!TypeOK' /\ TailIsLast' /\ num_nodes' = Cardinality(L!keys)'
      /\ forward' \in L!keys' \cup {None} /\ backward' \in L!keys' \cup {None}
  BY EraseType
<1>3. Nested' /\ Bare' /\ \A j \in L!keys' : height'[j] <= cur_height'
  BY <1>1, EraseNested, SunkIs
<1>4. Exact'
  BY <1>1, <1>2, <1>3, EraseExact
<1> QED
  BY <1>2, <1>3, <1>4, ListIInvNext DEF Searchable

-----------------------------------------------------------------------------
(* The skip list as a sorted set. *)

LEMMA LeastOf ==
  ASSUME NEW A \in SUBSET Nat, NEW x \in A, \A y \in A : x <= y
  PROVE  L!Contract!Min(A) = x
<1> DEFINE c == CHOOSE c \in A : \A y \in A : c <= y
<1>1. c \in A /\ \A y \in A : c <= y
  OBVIOUS
<1>2. L!Contract!Min(A) = c
  BY DEF L!Contract!Min
<1> HIDE DEF c
<1>3. c \in Nat /\ x \in Nat /\ c <= x /\ x <= c
  BY <1>1
<1>4. c = x
  BY <1>3
<1> QED
  BY <1>2, <1>4

LEMMA GreatestOf ==
  ASSUME NEW A \in SUBSET Nat, NEW x \in A, \A y \in A : x >= y
  PROVE  L!Contract!Max(A) = x
<1> DEFINE c == CHOOSE c \in A : \A y \in A : c >= y
<1>1. c \in A /\ \A y \in A : c >= y
  OBVIOUS
<1>2. L!Contract!Max(A) = c
  BY DEF L!Contract!Max
<1> HIDE DEF c
<1>3. c \in Nat /\ x \in Nat /\ c <= x /\ x <= c
  BY <1>1
<1>4. c = x
  BY <1>3
<1> QED
  BY <1>2, <1>4

\* What the iterations have still to hand out begins where they stand.
LEMMA UpFrom ==
  ASSUME ListIInv
  PROVE  /\ forward = None => L!Up(forward) = {}
         /\ forward # None => /\ forward \in L!keys /\ L!Up(forward) = {j \in L!keys : j >= forward}
                              /\ L!Up(forward) # {} /\ L!Contract!Min(L!Up(forward)) = forward
<1>1. L!keys \in SUBSET Nat /\ forward \in L!keys \cup {None}
  BY ListSets DEF ListIInv
<1>2. forward = None => L!Up(forward) = {}
  BY DEF L!Up
<1>3. ASSUME forward # None
      PROVE  /\ forward \in L!keys /\ L!Up(forward) = {j \in L!keys : j >= forward}
             /\ L!Up(forward) # {} /\ L!Contract!Min(L!Up(forward)) = forward
  <2>1. forward \in L!keys /\ L!Up(forward) = {j \in L!keys : j >= forward}
    BY <1>1, <1>3 DEF L!Up
  <2>2. forward \in Nat /\ \A y \in L!keys : y \in Nat /\ (y >= forward => forward <= y)
    BY <1>1, <2>1
  <2>3. forward >= forward /\ \A y \in L!Up(forward) : y \in L!keys /\ y >= forward
    BY <2>1, <2>2
  <2>4. /\ L!Up(forward) \in SUBSET Nat /\ forward \in L!Up(forward)
        /\ \A y \in L!Up(forward) : forward <= y
    BY <2>1, <2>2, <2>3
  <2> QED
    BY <2>1, <2>4, LeastOf
<1> QED
  BY <1>2, <1>3

LEMMA DownFrom ==
  ASSUME ListIInv
  PROVE  /\ backward = None => L!Down(backward) = {}
         /\ backward # None => /\ backward \in L!keys
                               /\ L!Down(backward) = {j \in L!keys : j <= backward}
                               /\ L!Down(backward) # {} /\ L!Contract!Max(L!Down(backward)) = backward
<1>1. L!keys \in SUBSET Nat /\ backward \in L!keys \cup {None}
  BY ListSets DEF ListIInv
<1>2. backward = None => L!Down(backward) = {}
  BY DEF L!Down
<1>3. ASSUME backward # None
      PROVE  /\ backward \in L!keys /\ L!Down(backward) = {j \in L!keys : j <= backward}
             /\ L!Down(backward) # {} /\ L!Contract!Max(L!Down(backward)) = backward
  <2>1. backward \in L!keys /\ L!Down(backward) = {j \in L!keys : j <= backward}
    BY <1>1, <1>3 DEF L!Down
  <2>2. backward \in Nat /\ \A y \in L!keys : y \in Nat /\ (y <= backward => backward >= y)
    BY <1>1, <2>1
  <2>3. backward <= backward /\ \A y \in L!Down(backward) : y \in L!keys /\ y <= backward
    BY <2>1, <2>2
  <2>4. /\ L!Down(backward) \in SUBSET Nat /\ backward \in L!Down(backward)
        /\ \A y \in L!Down(backward) : backward >= y
    BY <2>1, <2>2, <2>3
  <2> QED
    BY <2>1, <2>4, GreatestOf
<1> QED
  BY <1>2, <1>3

\* What a key's neighbours on the lowest level are among the keys.
LEMMA Between ==
  ASSUME ListIInv, NEW k \in L!keys
  PROVE  /\ LET m == links[k][1].next IN
            \/ m = None /\ \A j \in L!keys : j <= k
            \/ m \in L!keys /\ m > k /\ m # None /\ \A j \in L!keys : j <= k \/ j >= m
         /\ LET p == L!Previous(k) IN
            \/ p = None /\ \A j \in L!keys : j >= k
            \/ p \in L!keys /\ p < k /\ p # None /\ \A j \in L!keys : j >= k \/ j <= p
<1>1. Searchable
  BY SearchableIs
<1>2. /\ 1 \in L!Level /\ L!On(1) = L!keys /\ L!keys \subseteq Nat /\ 0 \notin L!keys
      /\ k \in Keys /\ None \notin Nat
  BY <1>1, ListConstants, ListSets DEF Searchable
<1>3. /\ links[k][1].prev = Last(k, 1)
      /\ \/ links[k][1].next = None /\ \A j \in L!keys : j <= k
         \/ /\ links[k][1].next \in L!keys /\ links[k][1].next > k
            /\ \A j \in L!keys : j <= k \/ j >= links[k][1].next
  BY <1>1, <1>2, Neighbours
<1>4. /\ Last(k, 1) \in L!keys \cup {0} /\ Last(k, 1) \in Nat /\ Last(k, 1) < k
      /\ \A j \in L!keys : j < k => j <= Last(k, 1)
  BY <1>1, <1>2, LastIs DEF Searchable, Onto
<1>5. L!Previous(k) = IF Last(k, 1) = 0 THEN None ELSE Last(k, 1)
  BY <1>3 DEF L!Previous, L!head
<1>6. \A j \in L!keys : j >= k \/ j <= Last(k, 1)
  BY <1>2, <1>4
<1>7. Last(k, 1) = 0 => \A j \in L!keys : j >= k
  BY <1>2, <1>6
<1> QED
  BY <1>2, <1>3, <1>4, <1>5, <1>6, <1>7

LEMMA InsertContract ==
  ASSUME ListIInv, NEW k \in Keys, NEW h \in L!Level, L!Insert(k, h)
  PROVE  L!Contract!Insert(k)
<1>1. /\ k \notin L!keys /\ L!keys' = L!keys \cup {k} /\ k \in Nat /\ L!keys \subseteq Nat
  BY SearchableIs, InsertLinks, ListSets, ListConstants DEF Searchable
<1>2. forward' = forward /\ backward' = backward
  BY DEF L!Insert
<1>3. L!Up(forward)' = IF L!Up(forward) # {} /\ k > L!Contract!Min(L!Up(forward))
                         THEN L!Up(forward) \cup {k} ELSE L!Up(forward)
  <2>1. CASE forward = None
    <3>1. L!Up(forward)' = {}
      BY <1>2, <2>1 DEF L!Up
    <3> QED
      BY <2>1, <3>1, UpFrom
  <2>2. CASE forward # None
    <3>1. L!Up(forward)' = {j \in L!keys \cup {k} : j >= forward}
      BY <1>1, <1>2, <2>2 DEF L!Up
    <3>2. /\ forward \in Nat /\ forward # k /\ L!Up(forward) = {j \in L!keys : j >= forward}
          /\ L!Up(forward) # {} /\ L!Contract!Min(L!Up(forward)) = forward
      BY <1>1, <2>2, UpFrom
    <3>3. k > forward <=> k >= forward
      BY <1>1, <3>2
    <3> QED
      BY <3>1, <3>2, <3>3
  <2> QED
    BY <2>1, <2>2
<1>4. L!Down(backward)' = IF L!Down(backward) # {} /\ k < L!Contract!Max(L!Down(backward))
                            THEN L!Down(backward) \cup {k} ELSE L!Down(backward)
  <2>1. CASE backward = None
    <3>1. L!Down(backward)' = {}
      BY <1>2, <2>1 DEF L!Down
    <3> QED
      BY <2>1, <3>1, DownFrom
  <2>2. CASE backward # None
    <3>1. L!Down(backward)' = {j \in L!keys \cup {k} : j <= backward}
      BY <1>1, <1>2, <2>2 DEF L!Down
    <3>2. /\ backward \in Nat /\ backward # k /\ L!Down(backward) = {j \in L!keys : j <= backward}
          /\ L!Down(backward) # {} /\ L!Contract!Max(L!Down(backward)) = backward
      BY <1>1, <2>2, DownFrom
    <3>3. k < backward <=> k <= backward
      BY <1>1, <3>2
    <3> QED
      BY <3>1, <3>2, <3>3
  <2> QED
    BY <2>1, <2>2
<1> QED
  BY <1>1, <1>3, <1>4 DEF L!Contract!Insert

LEMMA EraseContract ==
  ASSUME ListIInv, NEW k \in L!keys, L!EraseNode(k)
  PROVE  L!Contract!Erase(k)
<1>1. /\ L!keys' = L!keys \ {k} /\ k \in Nat /\ L!keys \subseteq Nat /\ None \notin Nat
  BY SearchableIs, EraseLinks, ListSets, ListConstants DEF Searchable
<1> DEFINE m == links[k][1].next
           p == L!Previous(k)
<1>2. /\ forward' = IF forward = k THEN m ELSE forward
      /\ backward' = IF backward = k THEN p ELSE backward
  BY DEF L!EraseNode, L!Off
<1>3. /\ \/ m = None /\ \A j \in L!keys : j <= k
         \/ m \in L!keys /\ m > k /\ m # None /\ \A j \in L!keys : j <= k \/ j >= m
      /\ \/ p = None /\ \A j \in L!keys : j >= k
         \/ p \in L!keys /\ p < k /\ p # None /\ \A j \in L!keys : j >= k \/ j <= p
  BY Between
<1>4. /\ L!Up(forward)' = IF forward' = None THEN {} ELSE {j \in L!keys \ {k} : j >= forward'}
      /\ L!Down(backward)' = IF backward' = None THEN {} ELSE {j \in L!keys \ {k} : j <= backward'}
  BY <1>1 DEF L!Up, L!Down
<1>5. /\ L!Up(forward) = IF forward = None THEN {} ELSE {j \in L!keys : j >= forward}
      /\ L!Down(backward) = IF backward = None THEN {} ELSE {j \in L!keys : j <= backward}
  BY DEF L!Up, L!Down
<1> HIDE DEF m, p
<1>6. L!Up(forward)' = L!Up(forward) \ {k}
  <2>1. CASE forward # k
    BY <1>2, <1>4, <1>5, <2>1
  <2>2. CASE forward = k /\ m = None
    <3>1. \A j \in L!keys : j <= k
      BY <1>1, <1>3, <2>2
    <3>2. \A j \in L!keys : j >= k => j = k
      BY <1>1, <3>1
    <3>3. k # None /\ L!Up(forward) = {j \in L!keys : j >= k}
      BY <1>1, <1>5, <2>2
    <3>4. L!Up(forward) \ {k} = {}
      BY <3>2, <3>3
    <3> QED
      BY <1>2, <1>4, <2>2, <3>4
  <2>3. CASE forward = k /\ m # None
    <3>1. L!Up(forward)' = {j \in L!keys \ {k} : j >= m} /\ L!Up(forward) = {j \in L!keys : j >= k}
      BY <1>1, <1>2, <1>4, <1>5, <2>3
    <3>2. m \in L!keys /\ m > k /\ \A j \in L!keys : j <= k \/ j >= m
      BY <1>3, <2>3
    <3>3. m \in Nat /\ k \in Nat /\ \A j \in L!keys : j \in Nat
      BY <1>1, <3>2
    <3>4. \A j \in L!keys \ {k} : j >= m <=> j >= k
      BY <3>2, <3>3
    <3> QED
      BY <3>1, <3>4
  <2> QED
    BY <2>1, <2>2, <2>3
<1>7. L!Down(backward)' = L!Down(backward) \ {k}
  <2>1. CASE backward # k
    BY <1>2, <1>4, <1>5, <2>1
  <2>2. CASE backward = k /\ p = None
    <3>1. \A j \in L!keys : j >= k
      BY <1>1, <1>3, <2>2
    <3>2. \A j \in L!keys : j <= k => j = k
      BY <1>1, <3>1
    <3>3. k # None /\ L!Down(backward) = {j \in L!keys : j <= k}
      BY <1>1, <1>5, <2>2
    <3>4. L!Down(backward) \ {k} = {}
      BY <3>2, <3>3
    <3> QED
      BY <1>2, <1>4, <2>2, <3>4
  <2>3. CASE backward = k /\ p # None
    <3>1. L!Down(backward)' = {j \in L!keys \ {k} : j <= p} /\ L!Down(backward) = {j \in L!keys : j <= k}
      BY <1>1, <1>2, <1>4, <1>5, <2>3
    <3>2. p \in L!keys /\ p < k /\ \A j \in L!keys : j >= k \/ j <= p
      BY <1>3, <2>3
    <3>3. p \in Nat /\ k \in Nat /\ \A j \in L!keys : j \in Nat
      BY <1>1, <3>2
    <3>4. \A j \in L!keys \ {k} : j <= p <=> j <= k
      BY <3>2, <3>3
    <3> QED
      BY <3>1, <3>4
  <2> QED
    BY <2>1, <2>2, <2>3
<1> QED
  BY <1>1, <1>6, <1>7 DEF L!Contract!Erase

\* The iterators move on a list that stays.
LEMMA MovesListIInv ==
  ASSUME ListIInv, NEW it \in L!keys \cup {None}, NEW rit \in L!keys \cup {None},
         L!Moves(it, rit)
  PROVE  /\ ListIInv' /\ L!keys' = L!keys
         /\ L!Up(forward)' = IF it = None THEN {} ELSE {j \in L!keys : j >= it}
         /\ L!Down(backward)' = IF rit = None THEN {} ELSE {j \in L!keys : j <= rit}
<1>1. /\ UNCHANGED <<links, height, cur_height, tail, num_nodes>>
      /\ forward' = it /\ backward' = rit
  BY DEF L!Moves
<1>2. L!keys' = L!keys /\ L!keys \subseteq Keys
  BY <1>1 DEF L!keys
<1>3. \A l : L!On(l)' = L!On(l) /\ Onto(l)' = Onto(l)
  BY <1>1, <1>2 DEF L!On, Onto
<1>4. \A n : Pos(n)' = Pos(n)
  BY <1>2 DEF Pos
<1>5. Searchable
  BY SearchableIs
<1>6. L!TypeOK'
  BY <1>1, <1>2 DEF ListIInv, L!TypeOK
<1>7. Nested' /\ Bare'
  BY <1>1, <1>3, <1>5 DEF Searchable, Nested, Bare
<1>8. Exact'
  <2> SUFFICES ASSUME NEW l \in L!Level, NEW n \in Onto(l)', links'[n][l].next # None
               PROVE  (links[n][l].span = Pos(links[n][l].next) - Pos(n))'
    BY DEF Exact
  <2>1. links[n][l].span = Pos(links[n][l].next) - Pos(n)
    BY <1>1, <1>3, <1>5 DEF Searchable, Exact
  <2> QED
    BY <1>1, <1>2, <2>1 DEF Pos
<1>9. TailIsLast' /\ num_nodes' = Cardinality(L!keys') /\ \A j \in L!keys' : height'[j] <= cur_height'
  BY <1>1, <1>2, <1>5 DEF ListIInv, TailIsLast, Searchable
<1>10. ListIInv'
  BY <1>1, <1>2, <1>6, <1>7, <1>8, <1>9, ListIInvNext DEF Searchable
<1>11. /\ L!Up(forward)' = IF it = None THEN {} ELSE {j \in L!keys : j >= it}
       /\ L!Down(backward)' = IF rit = None THEN {} ELSE {j \in L!keys : j <= rit}
  BY <1>1, <1>2 DEF L!Up, L!Down
<1> QED
  BY <1>2, <1>10, <1>11

LEMMA ListInit == L!Init => ListIInv /\ L!Contract!Init
<1> SUFFICES ASSUME L!Init PROVE ListIInv /\ L!Contract!Init
  OBVIOUS
<1>1. L!keys = {} /\ \A l \in L!Level : L!On(l) = {} /\ Onto(l) = {0}
  BY DEF L!Init, L!keys, L!On, Onto
<1>2. 0 \in L!Node /\ \A n \in L!Node, l \in L!Level : links[n][l] = L!Unlinked
  BY ListConstants DEF L!Init
<1>3. Cardinality(L!keys) = 0 /\ L!Cardinality(Keys) \in Nat
  BY <1>1, FS_EmptySet, ListConstants, FS_CardinalityType, SameCount
<1>4. L!TypeOK
  <2>1. L!Unlinked \in L!Links
    BY ListConstants DEF L!Unlinked, L!Links, L!Span
  <2>2. 1 \in L!Level /\ 0 \in 0..L!max_height
    BY ListConstants
  <2>3. 0 \in 0..L!Cardinality(Keys)
    BY <1>3
  <2> QED
    BY <2>1, <2>2, <2>3 DEF L!Init, L!TypeOK
<1>5. Nested /\ Exact /\ Bare
  BY <1>1, <1>2, ListConstants DEF Nested, Exact, Bare, L!Unlinked
<1>6. TailIsLast /\ num_nodes = Cardinality(L!keys) /\ forward = None /\ backward = None
  BY <1>1, <1>3 DEF L!Init, TailIsLast
<1>7. ListIInv
  BY <1>1, <1>4, <1>5, <1>6, ListIInvIs DEF Searchable
<1> QED
  BY <1>1, <1>6, <1>7 DEF L!Contract!Init, L!Up, L!Down

LEMMA PopContract ==
  ASSUME ListIInv
  PROVE  /\ L!PopFront => L!front \in L!keys /\ L!EraseNode(L!front) /\ L!keys # {}
                          /\ L!Contract!Min(L!keys) = L!front
         /\ L!PopBack => tail \in L!keys /\ L!EraseNode(tail) /\ L!keys # {}
                         /\ L!Contract!Max(L!keys) = tail
<1>1. Searchable /\ L!keys \in SUBSET Nat
  BY SearchableIs, ListSets DEF ListIInv
<1>2. \A a \in L!keys : /\ (\A j \in L!keys : a <= j) => L!Contract!Min(L!keys) = a
                        /\ (\A j \in L!keys : j <= a) => L!Contract!Max(L!keys) = a
  <2> SUFFICES ASSUME NEW a \in L!keys
               PROVE  /\ (\A j \in L!keys : a <= j) => L!Contract!Min(L!keys) = a
                      /\ (\A j \in L!keys : j <= a) => L!Contract!Max(L!keys) = a
    OBVIOUS
  <2>1. ASSUME \A j \in L!keys : a <= j PROVE L!Contract!Min(L!keys) = a
    BY <1>1, <2>1, LeastOf
  <2>2. ASSUME \A j \in L!keys : j <= a PROVE L!Contract!Max(L!keys) = a
    <3>1. \A j \in L!keys : a >= j
      BY <1>1, <2>2
    <3> QED
      BY <1>1, <3>1, GreatestOf
  <2> QED
    BY <2>1, <2>2
<1>3. ASSUME L!PopFront
      PROVE  L!front \in L!keys /\ L!EraseNode(L!front) /\ L!keys # {}
             /\ L!Contract!Min(L!keys) = L!front
  <2>1. L!front # None /\ L!EraseNode(L!front)
    BY <1>3 DEF L!PopFront
  <2>2. L!front \in L!keys /\ \A j \in L!keys : L!front <= j
    BY <1>1, <2>1, FrontIs
  <2> QED
    BY <1>2, <2>1, <2>2
<1>4. ASSUME L!PopBack
      PROVE  tail \in L!keys /\ L!EraseNode(tail) /\ L!keys # {}
             /\ L!Contract!Max(L!keys) = tail
  <2>1. tail # None /\ L!EraseNode(tail)
    BY <1>4 DEF L!PopBack
  <2>2. tail \in L!keys /\ \A j \in L!keys : j <= tail
    BY <2>1 DEF ListIInv, TailIsLast
  <2> QED
    BY <1>2, <2>1, <2>2
<1> QED
  BY <1>3, <1>4

\* An iteration up begins at the first key, and one step of it leaves what lies
\* beyond its successor.
LEMMA UpMoves ==
  ASSUME ListIInv
  PROVE  /\ L!BeginIterate => ListIInv' /\ L!Contract!Begin
         /\ L!Iterate => ListIInv' /\ L!Contract!Iterate
         /\ L!EndIterate => ListIInv' /\ L!Contract!End
<1>1. /\ L!keys \in SUBSET Nat /\ None \notin Nat
      /\ forward \in L!keys \cup {None} /\ backward \in L!keys \cup {None}
      /\ L!Down(backward) = IF backward = None THEN {} ELSE {j \in L!keys : j <= backward}
  BY ListSets, ListConstants DEF ListIInv, L!Down
<1>2. ASSUME NEW it \in L!keys \cup {None}, L!Moves(it, backward)
      PROVE  /\ ListIInv' /\ L!keys' = L!keys /\ L!Down(backward)' = L!Down(backward)
             /\ L!Up(forward)' = IF it = None THEN {} ELSE {j \in L!keys : j >= it}
  BY <1>1, <1>2, MovesListIInv
<1>3. ASSUME L!BeginIterate PROVE ListIInv' /\ L!Contract!Begin
  <2>1. L!Moves(L!front, backward)
    BY <1>3 DEF L!BeginIterate
  <2>2. IF L!keys = {} THEN L!front = None
        ELSE L!front \in L!keys /\ \A j \in L!keys : L!front <= j
    BY SearchableIs, FrontIs
  <2>3. /\ ListIInv' /\ L!keys' = L!keys /\ L!Down(backward)' = L!Down(backward)
        /\ L!Up(forward)' = IF L!front = None THEN {} ELSE {j \in L!keys : j >= L!front}
    BY <1>2, <2>1, <2>2
  <2>4. L!Up(forward)' = L!keys
    <3>1. CASE L!keys = {}
      BY <2>2, <2>3, <3>1
    <3>2. CASE L!keys # {}
      <4>1. L!front \in Nat /\ \A j \in L!keys : j \in Nat /\ L!front <= j
        BY <1>1, <2>2, <3>2
      <4>2. L!front # None /\ \A j \in L!keys : j >= L!front
        BY <1>1, <4>1
      <4> QED
        BY <2>3, <4>2
    <3> QED
      BY <3>1, <3>2
  <2> QED
    BY <2>3, <2>4 DEF L!Contract!Begin
<1>4. ASSUME L!Iterate PROVE ListIInv' /\ L!Contract!Iterate
  <2>1. forward # None /\ L!Moves(links[forward][1].next, backward)
    BY <1>4 DEF L!Iterate
  <2>2. /\ forward \in L!keys /\ L!Up(forward) = {j \in L!keys : j >= forward}
        /\ L!Up(forward) # {} /\ L!Contract!Min(L!Up(forward)) = forward
    BY <2>1, UpFrom
  <2> DEFINE m == links[forward][1].next
  <2>3. \/ m = None /\ \A j \in L!keys : j <= forward
        \/ m \in L!keys /\ m > forward /\ m # None /\ \A j \in L!keys : j <= forward \/ j >= m
    BY <2>2, Between
  <2>4. L!Moves(m, backward)
    BY <2>1
  <2> HIDE DEF m
  <2>5. /\ ListIInv' /\ L!keys' = L!keys /\ L!Down(backward)' = L!Down(backward)
        /\ L!Up(forward)' = IF m = None THEN {} ELSE {j \in L!keys : j >= m}
    BY <1>2, <2>3, <2>4
  <2>6. forward \in Nat /\ \A j \in L!keys : j \in Nat
    BY <1>1, <2>2
  <2>7. L!Up(forward)' = L!Up(forward) \ {forward}
    <3>1. CASE m = None
      <4>1. \A j \in L!keys : j <= forward
        BY <1>1, <2>3, <3>1
      <4>2. \A j \in L!keys : j >= forward => j = forward
        BY <2>6, <4>1
      <4> QED
        BY <2>2, <2>5, <3>1, <4>2
    <3>2. CASE m # None
      <4>1. m \in L!keys /\ m > forward /\ \A j \in L!keys : j <= forward \/ j >= m
        BY <2>3, <3>2
      <4>2. \A j \in L!keys : j >= m <=> j >= forward /\ j # forward
        BY <2>6, <4>1
      <4> QED
        BY <2>2, <2>5, <3>2, <4>2
    <3> QED
      BY <3>1, <3>2
  <2> QED
    BY <2>2, <2>5, <2>7 DEF L!Contract!Iterate
<1>5. ASSUME L!EndIterate PROVE ListIInv' /\ L!Contract!End
  <2>1. L!Moves(None, backward)
    BY <1>5 DEF L!EndIterate
  <2> QED
    BY <1>2, <2>1 DEF L!Contract!End
<1> QED
  BY <1>3, <1>4, <1>5

\* An iteration down begins at the last key, likewise.
LEMMA DownMoves ==
  ASSUME ListIInv
  PROVE  /\ L!BeginRIterate => ListIInv' /\ L!Contract!RBegin
         /\ L!RIterate => ListIInv' /\ L!Contract!RIterate
         /\ L!EndRIterate => ListIInv' /\ L!Contract!REnd
<1>1. /\ L!keys \in SUBSET Nat /\ None \notin Nat
      /\ backward \in L!keys \cup {None} /\ forward \in L!keys \cup {None}
      /\ L!Up(forward) = IF forward = None THEN {} ELSE {j \in L!keys : j >= forward}
  BY ListSets, ListConstants DEF ListIInv, L!Up
<1>2. ASSUME NEW it \in L!keys \cup {None}, L!Moves(forward, it)
      PROVE  /\ ListIInv' /\ L!keys' = L!keys /\ L!Up(forward)' = L!Up(forward)
             /\ L!Down(backward)' = IF it = None THEN {} ELSE {j \in L!keys : j <= it}
  BY <1>1, <1>2, MovesListIInv
<1>3. ASSUME L!BeginRIterate PROVE ListIInv' /\ L!Contract!RBegin
  <2>1. L!Moves(forward, tail)
    BY <1>3 DEF L!BeginRIterate
  <2>2. IF L!keys = {} THEN tail = None
        ELSE tail \in L!keys /\ \A j \in L!keys : j <= tail
    BY DEF ListIInv, TailIsLast
  <2>3. /\ ListIInv' /\ L!keys' = L!keys /\ L!Up(forward)' = L!Up(forward)
        /\ L!Down(backward)' = IF tail = None THEN {} ELSE {j \in L!keys : j <= tail}
    BY <1>2, <2>1, <2>2
  <2>4. L!Down(backward)' = L!keys
    <3>1. CASE L!keys = {}
      BY <2>2, <2>3, <3>1
    <3>2. CASE L!keys # {}
      <4>1. tail # None /\ \A j \in L!keys : j <= tail
        BY <1>1, <2>2, <3>2
      <4> QED
        BY <2>3, <4>1
    <3> QED
      BY <3>1, <3>2
  <2> QED
    BY <2>3, <2>4 DEF L!Contract!RBegin
<1>4. ASSUME L!RIterate PROVE ListIInv' /\ L!Contract!RIterate
  <2>1. backward # None /\ L!Moves(forward, L!Previous(backward))
    BY <1>4 DEF L!RIterate
  <2>2. /\ backward \in L!keys /\ L!Down(backward) = {j \in L!keys : j <= backward}
        /\ L!Down(backward) # {} /\ L!Contract!Max(L!Down(backward)) = backward
    BY <2>1, DownFrom
  <2> DEFINE m == L!Previous(backward)
  <2>3. \/ m = None /\ \A j \in L!keys : j >= backward
        \/ m \in L!keys /\ m < backward /\ m # None /\ \A j \in L!keys : j >= backward \/ j <= m
    BY <2>2, Between
  <2>4. L!Moves(forward, m)
    BY <2>1
  <2> HIDE DEF m
  <2>5. /\ ListIInv' /\ L!keys' = L!keys /\ L!Up(forward)' = L!Up(forward)
        /\ L!Down(backward)' = IF m = None THEN {} ELSE {j \in L!keys : j <= m}
    BY <1>2, <2>3, <2>4
  <2>6. backward \in Nat /\ \A j \in L!keys : j \in Nat
    BY <1>1, <2>2
  <2>7. L!Down(backward)' = L!Down(backward) \ {backward}
    <3>1. CASE m = None
      <4>1. \A j \in L!keys : j >= backward
        BY <1>1, <2>3, <3>1
      <4>2. \A j \in L!keys : j <= backward => j = backward
        BY <2>6, <4>1
      <4> QED
        BY <2>2, <2>5, <3>1, <4>2
    <3>2. CASE m # None
      <4>1. m \in L!keys /\ m < backward /\ \A j \in L!keys : j >= backward \/ j <= m
        BY <2>3, <3>2
      <4>2. \A j \in L!keys : j <= m <=> j <= backward /\ j # backward
        BY <2>6, <4>1
      <4> QED
        BY <2>2, <2>5, <3>2, <4>2
    <3> QED
      BY <3>1, <3>2
  <2> QED
    BY <2>2, <2>5, <2>7 DEF L!Contract!RIterate
<1>5. ASSUME L!EndRIterate PROVE ListIInv' /\ L!Contract!REnd
  <2>1. L!Moves(forward, None)
    BY <1>5 DEF L!EndRIterate
  <2> QED
    BY <1>2, <2>1 DEF L!Contract!REnd
<1> QED
  BY <1>3, <1>4, <1>5

LEMMA ListNext ==
  ListIInv /\ [L!Next]_(L!vars) =>
    ListIInv' /\ [L!Contract!Next]_<<L!keys, L!Up(forward), L!Down(backward)>>
<1> SUFFICES ASSUME ListIInv, [L!Next]_(L!vars)
             PROVE  ListIInv' /\ [L!Contract!Next]_<<L!keys, L!Up(forward), L!Down(backward)>>
  OBVIOUS
<1> DEFINE Goal == ListIInv' /\ [L!Contract!Next]_<<L!keys, L!Up(forward), L!Down(backward)>>
<1>1. ASSUME NEW k \in Keys, NEW h \in L!Level, L!Insert(k, h) PROVE Goal
  <2>1. ListIInv' /\ L!Contract!Insert(k)
    BY <1>1, InsertListIInv, InsertContract
  <2> QED
    BY <2>1 DEF L!Contract!Next
<1>2. ASSUME NEW k \in Keys, L!Erase(k) PROVE Goal
  <2>1. k \in L!keys /\ L!EraseNode(k)
    BY <1>2, SearchableIs, FoundIs DEF L!Erase
  <2>2. ListIInv' /\ L!Contract!Erase(k)
    BY <2>1, EraseListIInv, EraseContract
  <2> QED
    BY <2>2 DEF L!Contract!Next
<1>3. CASE L!PopFront
  <2>1. /\ L!front \in L!keys /\ L!EraseNode(L!front) /\ L!keys # {}
        /\ L!Contract!Min(L!keys) = L!front
    BY <1>3, PopContract
  <2>2. ListIInv' /\ L!Contract!Erase(L!front)
    BY <2>1, EraseListIInv, EraseContract
  <2> QED
    BY <2>1, <2>2 DEF L!Contract!Next, L!Contract!PopFront
<1>4. CASE L!PopBack
  <2>1. /\ tail \in L!keys /\ L!EraseNode(tail) /\ L!keys # {}
        /\ L!Contract!Max(L!keys) = tail
    BY <1>4, PopContract
  <2>2. ListIInv' /\ L!Contract!Erase(tail)
    BY <2>1, EraseListIInv, EraseContract
  <2> QED
    BY <2>1, <2>2 DEF L!Contract!Next, L!Contract!PopBack
<1>5. CASE L!BeginIterate \/ L!Iterate \/ L!EndIterate
  BY <1>5, UpMoves DEF L!Contract!Next
<1>6. CASE L!BeginRIterate \/ L!RIterate \/ L!EndRIterate
  BY <1>6, DownMoves DEF L!Contract!Next
<1>7. CASE UNCHANGED L!vars
  <2>1. L!Moves(forward, backward) /\ forward \in L!keys \cup {None} /\ backward \in L!keys \cup {None}
    BY <1>7 DEF L!vars, L!Moves, ListIInv
  <2>2. ListIInv' /\ L!keys' = L!keys
    BY <2>1, MovesListIInv
  <2>3. L!Up(forward)' = L!Up(forward) /\ L!Down(backward)' = L!Down(backward)
    BY <1>7, <2>2 DEF L!vars, L!Up, L!Down
  <2> QED
    BY <2>2, <2>3
<1> QED
  BY <1>1, <1>2, <1>3, <1>4, <1>5, <1>6, <1>7 DEF L!Next

LEMMA SystemList == SystemSpec => L!Init /\ [][L!Next]_(L!vars)
<1>1. SystemInit => L!Init
  BY DEF SystemInit
<1>2. [SystemNext]_<<component, vars, listVars>> => [L!Next]_(L!vars)
  BY DEF SystemNext, TableStep, ListStep, listVars, L!vars
<1> QED
  BY <1>1, <1>2, PTL DEF SystemSpec

\* The levels of the skip list nest, a link skips as many nodes as its span
\* says, and lookups, ranks, the ends and the size are those of the set of keys.
THEOREM ListSoundHolds == SystemSpec => []ListSound
<1>1. L!Init => ListIInv
  BY ListInit
<1>2. ListIInv /\ [L!Next]_(L!vars) => ListIInv'
  BY ListNext
<1>3. ListIInv => ListSound
  BY ListAnswers DEF ListIInv, ListSound
<1> QED
  BY <1>1, <1>2, <1>3, SystemList, PTL

\* The skip list implements SortedSet: both iterations hand out every key that
\* is ahead of them, once, whatever comes and goes meanwhile.
THEOREM ListKeepsContractHolds == SystemSpec => ListKeepsContract
<1>1. L!Init => ListIInv /\ L!Contract!Init
  BY ListInit
<1>2. ListIInv /\ [L!Next]_(L!vars) =>
        ListIInv' /\ [L!Contract!Next]_<<L!keys, L!Up(forward), L!Down(backward)>>
  BY ListNext
<1> QED
  BY <1>1, <1>2, SystemList, PTL DEF ListKeepsContract, L!KeepsContract, L!Contract!Spec
=============================================================================
