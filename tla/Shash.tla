------------------------------- MODULE Shash -------------------------------
(***************************************************************************)
(* struct shash (simple_hash/shash.c): a chained hash table that doubles   *)
(* its buckets a bucket at a time, one per operation, and an iterator that *)
(* survives erasures.                                                      *)
(*                                                                         *)
(* A chain is sorted by key and every walk stops at the first larger key,  *)
(* so it is the set of its keys; `next' is the next larger one.  Values    *)
(* travel with the nodes and are left out.  Numbers of buckets stand for   *)
(* the exponents num_buckets[i], hence % for the masks.                    *)
(***************************************************************************)
EXTENDS Integers, FiniteSets

CONSTANTS
  Key,           \* keys, numbered in the order of _shash_key_compare
  Hash,          \* _shash_hash_key
  InitBuckets,   \* 1 << SHASH_INIT_NUM_BUCKETS
  MaxBuckets,    \* 1 << SHASH_MAX_NUM_BUCKETS
  None           \* the null pointer

ASSUME ShashAssumption ==
  /\ Key \subseteq Nat /\ IsFiniteSet(Key)
  /\ Hash \in [Key -> Nat]
  /\ InitBuckets \in Nat \ {0} /\ MaxBuckets \in Nat
  /\ InitBuckets <= MaxBuckets
  /\ None \notin Key

VARIABLES
  tables,        \* buckets, num_buckets (0 without buckets[1]), rehash_bucket
  num_node,
  iterator,      \* iterator, iterator_index, iterator_bucket
  result,        \* what the last operation handed out and returned
  seen,          \* keys the iteration handed out, not erased since
  todo,          \* keys there since it began, neither handed out nor erased
  midway         \* the iteration began during a rehash

vars == <<tables, num_node, iterator, result, seen, todo, midway>>

Bucket == 0..(MaxBuckets - 1)
Empty == [b \in Bucket |-> {}]
NoPos == [key |-> None, index |-> 0, bucket |-> 0]
Rehashing(t) == t.num[1] # 0

KeysOf(t) == {k \in Key : \E i \in {0, 1} : \E b \in Bucket : k \in t.buckets[i][b]}
keys == KeysOf(tables)

Tables == [buckets : [{0, 1} -> [Bucket -> SUBSET Key]],
           num : [{0, 1} -> 0..MaxBuckets], rehash : 0..MaxBuckets]

TypeOK ==
  /\ tables \in Tables
  /\ num_node \in Nat
  /\ iterator \in [key : Key \cup {None}, index : {0, 1}, bucket : Bucket]
  /\ result \in [key : Key \cup {None}, ret : {0, -1}]
  /\ seen \subseteq Key /\ todo \subseteq Key /\ midway \in BOOLEAN

Init ==
  /\ tables = [buckets |-> [i \in {0, 1} |-> Empty],
               num |-> [i \in {0, 1} |-> IF i = 0 THEN InitBuckets ELSE 0],
               rehash |-> 0]
  /\ num_node = 0
  /\ iterator = NoPos
  /\ result = [key |-> None, ret |-> 0]
  /\ seen = {} /\ todo = {} /\ midway = FALSE

-----------------------------------------------------------------------------
(* _shash_check_rehash. *)

Started(t) ==
  IF ~Rehashing(t) /\ num_node >= t.num[0] /\ 2 * t.num[0] <= MaxBuckets
    THEN [t EXCEPT !.num[1] = 2 * t.num[0], !.rehash = 0]
    ELSE t

\* Wrong: keys move by the old mask.
WrongMoved(t) ==
  [t EXCEPT
     !.buckets = [i \in {0, 1} |-> [b \in Bucket |->
        IF i = 0 THEN IF b = t.rehash THEN {} ELSE t.buckets[0][b]
        ELSE t.buckets[1][b] \cup
               {k \in t.buckets[0][t.rehash] : Hash[k] % t.num[0] = b}]],
     !.rehash = @ + 1]

\* One bucket moves to buckets[1].
Moved(t) ==
  [t EXCEPT
     !.buckets = [i \in {0, 1} |-> [b \in Bucket |->
        IF i = 0 THEN IF b = t.rehash THEN {} ELSE t.buckets[0][b]
        ELSE t.buckets[1][b] \cup
               {k \in t.buckets[0][t.rehash] : Hash[k] % t.num[1] = b}]],
     !.rehash = @ + 1]

\* After the last one buckets[1] takes the place of buckets[0].
Finished(t) ==
  IF t.rehash = t.num[0]
    THEN [t EXCEPT !.buckets = [i \in {0, 1} |-> IF i = 0 THEN t.buckets[1] ELSE Empty],
                   !.num = [i \in {0, 1} |-> IF i = 0 THEN t.num[1] ELSE 0]]
    ELSE t

Advanced(t) == IF Rehashing(t) THEN Finished(Moved(t)) ELSE t

\* Wrong: the rehash goes on under an iterator.
WrongCheckRehash == Advanced(Started(tables))

CheckRehash ==
  IF iterator.key = None THEN Advanced(Started(tables)) ELSE tables

-----------------------------------------------------------------------------
(* Keys. *)

\* Where shash_insert and _shash_find look for k.
Place(t, k) ==
  IF Rehashing(t) /\ Hash[k] % t.num[0] < t.rehash
    THEN [index |-> 1, bucket |-> Hash[k] % t.num[1]]
    ELSE [index |-> 0, bucket |-> Hash[k] % t.num[0]]

Chain(t, p) == t.buckets[p.index][p.bucket]
Has(t, k) == k \in Chain(t, Place(t, k))
WithChain(t, p, c) == [t EXCEPT !.buckets[p.index][p.bucket] = c]

Returns(k, r) == result' = [key |-> k, ret |-> r]

\* shash_insert.
Insert(k) ==
  LET t == CheckRehash
      p == Place(t, k) IN
  /\ \/ /\ Has(t, k) /\ Returns(k, -1)
        /\ tables' = t /\ UNCHANGED num_node
     \/ /\ ~Has(t, k) /\ Returns(k, 0)
        /\ tables' = WithChain(t, p, Chain(t, p) \cup {k})
        /\ num_node' = num_node + 1
  /\ UNCHANGED <<iterator, seen, todo, midway>>

\* shash_find.
Find(k) ==
  /\ tables' = CheckRehash
  /\ Returns(k, IF Has(CheckRehash, k) THEN 0 ELSE -1)
  /\ UNCHANGED <<num_node, iterator, seen, todo, midway>>

-----------------------------------------------------------------------------
(* Iteration. *)

Least(S) == CHOOSE k \in S : \A j \in S : k <= j

At(t, i, b) == [key |-> Least(t.buckets[i][b]), index |-> i, bucket |-> b]

\* The first node of the buckets that are lo <= b < hi in table i.
Filled(t, i, lo, hi) == {b \in Bucket : lo <= b /\ b < hi /\ t.buckets[i][b] # {}}

\* shash_begin_iterate.
FirstPos(t) ==
  IF Filled(t, 0, 0, t.num[0]) # {} THEN At(t, 0, Least(Filled(t, 0, 0, t.num[0])))
  ELSE IF Filled(t, 1, 0, t.num[1]) # {} THEN At(t, 1, Least(Filled(t, 1, 0, t.num[1])))
  ELSE NoPos

\* Wrong: the bucket after the next is scanned first.
WrongNextPos(t) ==
  LET later == {j \in Chain(t, iterator) : iterator.key < j}
      n     == t.num[iterator.index]
      same  == Filled(t, iterator.index, iterator.bucket + 2, n)
      other == IF iterator.index = 0 THEN Filled(t, 1, 0, n) ELSE {} IN
  IF later # {} THEN [iterator EXCEPT !.key = Least(later)]
  ELSE IF same # {} THEN At(t, iterator.index, Least(same))
  ELSE IF other # {} THEN At(t, 1, Least(other))
  ELSE NoPos

\* The iterator after shash_iterate.  The number of buckets is the one of the
\* table the iteration is in, also when it goes on in the other one.
NextPos(t) ==
  LET later == {j \in Chain(t, iterator) : iterator.key < j}
      n     == t.num[iterator.index]
      same  == Filled(t, iterator.index, iterator.bucket + 1, n)
      other == IF iterator.index = 0 THEN Filled(t, 1, 0, n) ELSE {} IN
  IF later # {} THEN [iterator EXCEPT !.key = Least(later)]
  ELSE IF same # {} THEN At(t, iterator.index, Least(same))
  ELSE IF other # {} THEN At(t, 1, Least(other))
  ELSE NoPos

BeginIterate ==
  /\ iterator' = FirstPos(tables)
  /\ seen' = {} /\ todo' = keys /\ midway' = Rehashing(tables)
  /\ UNCHANGED <<tables, num_node, result>>

Iterate ==
  /\ \/ /\ iterator.key = None /\ Returns(None, -1)
        /\ UNCHANGED <<iterator, seen, todo>>
     \/ /\ iterator.key # None /\ Returns(iterator.key, 0)
        /\ iterator' = NextPos(tables)
        /\ seen' = seen \cup {iterator.key}
        /\ todo' = todo \ {iterator.key}
  /\ UNCHANGED <<tables, num_node, midway>>

EndIterate ==
  /\ iterator' = NoPos
  /\ seen' = {} /\ todo' = {} /\ midway' = FALSE
  /\ UNCHANGED <<tables, num_node, result>>

\* shash_erase moves the iterator off the node it deletes.
SteppedOff(t, k) == IF iterator.key = k THEN NextPos(t) ELSE iterator

Counted(t, k) == IF Has(t, k) THEN num_node - 1 ELSE num_node

\* shash_erase.
Erase(k) ==
  LET t == CheckRehash
      p == Place(t, k) IN
  /\ num_node' = Counted(t, k)
  /\ \/ /\ ~Has(t, k) /\ Returns(k, -1)
        /\ tables' = t /\ UNCHANGED <<iterator, seen, todo>>
     \/ /\ Has(t, k) /\ Returns(k, 0)
        /\ iterator' = SteppedOff(t, k)
        /\ tables' = WithChain(t, p, Chain(t, p) \ {k})
        /\ seen' = seen \ {k} /\ todo' = todo \ {k}
  /\ UNCHANGED midway

-----------------------------------------------------------------------------
Next ==
  \/ \E k \in Key : Insert(k) \/ Erase(k) \/ Find(k)
  \/ BeginIterate \/ Iterate \/ EndIterate

Spec == Init /\ [][Next]_vars

-----------------------------------------------------------------------------
(* Properties. *)

\* While buckets move, every key is where a lookup searches it, and only
\* there, and no key is beyond the buckets in use.
Located ==
  \A k \in Key, i \in {0, 1}, b \in Bucket :
    k \in tables.buckets[i][b] =>
      /\ b < tables.num[i]
      /\ Place(tables, k) = [index |-> i, bucket |-> b]

\* shash_size, which also starts the rehashes, is the number of keys.
SizeCounts == num_node = Cardinality(keys)

\* The iterator is on a node of the bucket it names, whatever was inserted or
\* erased since, and nothing is rehashed under it.
IteratorLive ==
  iterator.key # None => iterator.key \in Chain(tables, iterator)

\* Keys the iteration has still to reach.
Ahead ==
  {k \in keys : LET p == Place(tables, k) IN
     /\ iterator.key # None
     /\ \/ p.index > iterator.index
        \/ p.index = iterator.index /\ p.bucket > iterator.bucket
        \/ p.index = iterator.index /\ p.bucket = iterator.bucket /\ k >= iterator.key}

\* An iteration that began outside a rehash has every key ahead that it has
\* not handed out, so it ends only when it has handed out all of them, however
\* its user erases and inserts meanwhile.
NothingMissed == ~midway => todo \subseteq Ahead

\* Any iteration does: test_shash.c erases what it iterates over and expects
\* to have seen every key.
IterationComplete ==
  (result = [key |-> None, ret |-> -1] /\ iterator.key = None) => todo = {}

Contract == INSTANCE KeySet

\* The table behaves as the set of its keys, and an iteration never hands out
\* a key twice, nor one that is gone.
KeepsContract == Contract!Spec
=============================================================================
