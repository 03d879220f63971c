------------------------------- MODULE Slist -------------------------------
(***************************************************************************)
(* struct slist (simple_skiplist/slist.c): a sorted list with several      *)
(* levels of links, spans that count what a link skips, from which ranks   *)
(* are computed, and an iterator in each direction.                        *)
(*                                                                         *)
(* A key stands for its node.  Keys are numbers, which keeps their order   *)
(* and drops their bytes; values travel with the nodes.  rand_r(3) is a    *)
(* choice.  A span that has no successor is never used but is computed on  *)
(* and may be any number, so spans wrap, at 2^64 in the code.              *)
(***************************************************************************)
EXTENDS Integers, FiniteSets

CONSTANTS
  Key,           \* bound: keys in use
  Height,        \* the argument of slist_new
  SpanMod,       \* 2^64, where spans wrap
  None           \* the null pointer

SlistAssumption ==
  /\ Key \subseteq Nat \ {0} /\ IsFiniteSet(Key)
  /\ Height \in Nat
  /\ SpanMod \in Nat /\ SpanMod > Cardinality(Key)
  /\ None \notin Int

VARIABLES
  links,         \* node->levels of every node
  height,        \* node->height, 0 if the node does not exist
  cur_height, tail, num_nodes, iterator, riterator

vars == <<links, height, cur_height, tail, num_nodes, iterator, riterator>>

max_height == Height + 1
Level == 1..max_height
head == 0
Node == Key \cup {head}
Span == 0..SpanMod - 1
Links == [next : Key \cup {None}, prev : Node \cup {None}, span : Span]
Unlinked == [next |-> None, prev |-> None, span |-> 0]

TypeOK ==
  /\ links \in [Node -> [Level -> Links]]
  /\ height \in [Key -> 0..max_height]
  /\ cur_height \in Level
  /\ tail \in Key \cup {None}
  /\ num_nodes \in 0..Cardinality(Key)
  /\ iterator \in Key \cup {None} /\ riterator \in Key \cup {None}

\* slist_new.
Init ==
  /\ links = [n \in Node |-> [l \in Level |-> Unlinked]]
  /\ height = [k \in Key |-> 0]
  /\ cur_height = 1 /\ num_nodes = 0
  /\ tail = None /\ iterator = None /\ riterator = None

-----------------------------------------------------------------------------
(* The search, from the top level down. *)

\* Where the walk along a level ends that looks for k, and what it skips.
Walk(k, l) ==
  LET walk[n \in Node] ==
        LET m == links[n][l].next IN
        IF m # None /\ m < k
          THEN [walk[m] EXCEPT !.rank = (@ + links[n][l].span) % SpanMod]
          ELSE [node |-> n, rank |-> 0]
  IN walk

\* level_node and level_rank: the last node before k on each level, and its rank.
Before(k) ==
  LET start == [node |-> head, rank |-> 0]
      before[l \in Level] ==
        IF l > cur_height THEN start
        ELSE LET from == IF l = cur_height THEN start ELSE before[l + 1]
                 to == Walk(k, l)[from.node]
             IN [to EXCEPT !.rank = (from.rank + @) % SpanMod]
  IN before

\* The levels where the search meets k.
Meets(k) == LET b == Before(k) IN {l \in 1..cur_height : links[b[l].node][l].next = k}

\* _slist_find_node, as slist_find and slist_erase use it.
Found(k) == Meets(k) # {}

\* slist_rank returns as soon as the search meets k.
Rank(k) ==
  LET b == Before(k)
      meets == {l \in 1..cur_height : links[b[l].node][l].next = k}
      l == CHOOSE l \in meets : \A m \in meets : m <= l
  IN IF meets = {} THEN -1 ELSE (b[l].rank + links[b[l].node][l].span) % SpanMod

front == links[head][1].next

-----------------------------------------------------------------------------
(* slist_insert. *)

\* What k skips on level l of what its predecessor there skipped.
Upto(b, l) == b[1].rank - b[l].rank + 1

\* Wrong: links that now jump over the new node skip as much as before.
WrongLinked(k, h, b) ==
  [n \in Node |-> [l \in Level |->
     LET p == b[l].node  old == links[p][l] IN
     IF l > h THEN links[n][l]
     ELSE IF n = k THEN [next |-> old.next, prev |-> p,
                         span |-> (old.span - Upto(b, l) + 1) % SpanMod]
     ELSE IF n = p THEN [links[n][l] EXCEPT !.next = k, !.span = Upto(b, l) % SpanMod]
     ELSE IF n = old.next THEN [links[n][l] EXCEPT !.prev = k]
     ELSE links[n][l]]]

\* The links with k in its place on the levels up to h, after the nodes b.
Linked(k, h, b) ==
  [n \in Node |-> [l \in Level |->
     LET p == b[l].node  old == links[p][l] IN
     IF l > h
       THEN IF l <= cur_height /\ n = p
              THEN [old EXCEPT !.span = (@ + 1) % SpanMod] ELSE links[n][l]
     ELSE IF n = k THEN [next |-> old.next, prev |-> p,
                         span |-> (old.span - Upto(b, l) + 1) % SpanMod]
     ELSE IF n = p THEN [old EXCEPT !.next = k, !.span = Upto(b, l) % SpanMod]
     ELSE IF n = old.next THEN [links[n][l] EXCEPT !.prev = k]
     ELSE links[n][l]]]

\* The tail changes when k has no successor.
NewTail(k, b) == IF links[b[1].node][1].next = None THEN k ELSE tail

\* A key that is there already is refused.
Insert(k, h) ==
  LET b == Before(k) IN
  /\ links[b[1].node][1].next # k
  /\ links' = Linked(k, h, b)
  /\ height' = [height EXCEPT ![k] = h]
  /\ cur_height' = IF h >= cur_height THEN h ELSE cur_height
  /\ tail' = NewTail(k, b)
  /\ num_nodes' = num_nodes + 1
  /\ UNCHANGED <<iterator, riterator>>

-----------------------------------------------------------------------------
(* _slist_erase_node. *)

\* The links without k.
Bypassed(k, b) ==
  [n \in Node |-> [l \in Level |->
     LET p == b[l].node  own == links[k][l] IN
     IF n = k THEN Unlinked
     ELSE IF l > cur_height THEN links[n][l]
     ELSE IF links[p][l].next # k
       THEN IF n = p THEN [links[n][l] EXCEPT !.span = (@ - 1) % SpanMod] ELSE links[n][l]
     ELSE IF n = own.prev
       THEN [links[n][l] EXCEPT !.next = own.next, !.span = (@ + own.span - 1) % SpanMod]
     ELSE IF n = own.next THEN [links[n][l] EXCEPT !.prev = own.prev]
     ELSE links[n][l]]]

\* The top level that is not empty, at most cur_height.
Sunk(ls) ==
  CHOOSE h \in 1..cur_height :
    /\ h = 1 \/ ls[head][h].next # None
    /\ \A g \in h + 1..cur_height : ls[head][g].next = None

\* The node before k, if it is not the head.
Previous(k) == IF links[k][1].prev = head THEN None ELSE links[k][1].prev

\* Wrong: the iterator stays on what is freed.
WrongOff(it, k, to) == it

\* An iterator that stands on k moves on.
Off(it, k, to) == IF it = k THEN to ELSE it

EraseNode(k) ==
  /\ links' = Bypassed(k, Before(k))
  /\ height' = [height EXCEPT ![k] = 0]
  /\ tail' = Off(tail, k, Previous(k))
  /\ cur_height' = Sunk(links')
  /\ iterator' = Off(iterator, k, links[k][1].next)
  /\ riterator' = Off(riterator, k, Previous(k))
  /\ num_nodes' = num_nodes - 1

\* slist_erase, slist_pop_front, slist_pop_back.
Erase(k) == Found(k) /\ EraseNode(k)
PopFront == front # None /\ EraseNode(front)
PopBack == tail # None /\ EraseNode(tail)

-----------------------------------------------------------------------------
(* The iterations. *)

Moves(it, rit) ==
  /\ iterator' = it /\ riterator' = rit
  /\ UNCHANGED <<links, height, cur_height, tail, num_nodes>>

BeginIterate == Moves(front, riterator)
Iterate == iterator # None /\ Moves(links[iterator][1].next, riterator)
EndIterate == Moves(None, riterator)
BeginRIterate == Moves(iterator, tail)
RIterate == riterator # None /\ Moves(iterator, Previous(riterator))
EndRIterate == Moves(iterator, None)

Next ==
  \/ \E k \in Key : (\E h \in Level : Insert(k, h)) \/ Erase(k)
  \/ PopFront \/ PopBack
  \/ BeginIterate \/ Iterate \/ EndIterate
  \/ BeginRIterate \/ RIterate \/ EndRIterate

Spec == Init /\ [][Next]_vars

-----------------------------------------------------------------------------
(* Properties. *)

keys == {k \in Key : height[k] > 0}
On(l) == {k \in keys : height[k] >= l}

\* On every level in use the nodes that are high enough are linked in order,
\* forwards and backwards, and no node is higher than the search begins.
LevelsNest ==
  /\ \A l \in Level, n \in Node : n = head \/ n \in On(l) =>
       LET m == links[n][l].next IN
       IF m = None THEN \A k \in On(l) : k <= n
       ELSE /\ m \in On(l) /\ m > n /\ links[m][l].prev = n
            /\ \A k \in On(l) : k <= n \/ k >= m
  /\ \A k \in keys : height[k] <= cur_height

\* A link that leads somewhere skips as many nodes as its span says, through
\* every insertion and erasure below, at and above its height, although the
\* spans computed from have wrapped.
SpansExact ==
  \A l \in Level, n \in Node :
    (n = head \/ n \in On(l)) /\ links[n][l].next # None =>
      links[n][l].span = Cardinality({k \in keys : k > n /\ k <= links[n][l].next})

\* What slist_find, slist_rank, slist_front, slist_back and slist_size answer:
\* a key is found if and only if it is there, its rank is its place in the
\* order, and the ends of the list are its extremes.
AnswersRight ==
  /\ \A k \in Key :
       Rank(k) = IF k \in keys THEN Cardinality({j \in keys : j <= k}) ELSE -1
  /\ keys = {} => front = None /\ tail = None
  /\ keys # {} => /\ front \in keys /\ \A k \in keys : front <= k
                  /\ tail \in keys /\ \A k \in keys : k <= tail
  /\ num_nodes = Cardinality(keys)

\* The comment on level_rank (slist.h:38): it holds the rank of the
\* predecessor on each level.  It has Height entries.
RanksFit == cur_height <= Height

Up(it) == IF it = None THEN {} ELSE {k \in keys : k >= it}
Down(it) == IF it = None THEN {} ELSE {k \in keys : k <= it}

Contract == INSTANCE SortedSet WITH up <- Up(iterator), down <- Down(riterator)

\* The list is a sorted set: both iterations hand out every key that is ahead
\* of them when its turn comes, once, whatever is inserted and erased meanwhile.
KeepsContract == Contract!Spec
=============================================================================
