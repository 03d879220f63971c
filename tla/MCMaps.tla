------------------------------- MODULE MCMaps -------------------------------
(* Shash and Slist for TLC.  They share no state: a behaviour is one of the    *)
(* table or one of the skip list.                                              *)
(*                                                                             *)
(* Table: five keys whose order is not the order of their hashes, with         *)
(* collisions in small and in large tables, and two rehashes.  Skip list: three *)
(* keys on three levels, so that a link can jump over two nodes of different   *)
(* heights; every height may be drawn for every node.                          *)
EXTENDS Shash

CONSTANTS Keys, Height, SpanMod

VARIABLES
  component,
  links, height, cur_height, tail, num_nodes, forward, backward

listVars == <<links, height, cur_height, tail, num_nodes, forward, backward>>

Hashes == <<6, 1, 2, 7, 6>>
HashOf == [k \in 1..5 |-> Hashes[k]]

L == INSTANCE Slist WITH Key <- Keys, iterator <- forward, riterator <- backward

SlistAssumption == L!SlistAssumption
ASSUME SlistAssumption

SystemInit == component \in {"table", "list"} /\ Init /\ L!Init

TableStep == component = "table" /\ Next /\ UNCHANGED <<component, listVars>>
ListStep == component = "list" /\ L!Next /\ UNCHANGED <<component, vars>>

SystemNext == TableStep \/ ListStep

SystemSpec == SystemInit /\ [][SystemNext]_<<component, vars, listVars>>

-----------------------------------------------------------------------------
\* While buckets move, a key is where a lookup searches it; the size counts the
\* keys, and the iterator stands on a node of the table.
TableSound == component = "table" => TypeOK /\ Located /\ SizeCounts /\ IteratorLive

\* The levels of the skip list nest, spans are exact, and ranks and ends are the
\* right ones.
ListSound ==
  component = "list" => L!TypeOK /\ L!LevelsNest /\ L!SpansExact /\ L!AnswersRight

\* The skip list implements SortedSet.
ListKeepsContract == L!KeepsContract
=============================================================================
