------------------------------ MODULE MCShash ------------------------------
(* Shash for TLC: five keys whose order is not the order of their hashes,    *)
(* with collisions in small and in large tables.                             *)
EXTENDS Shash

Hashes == <<6, 1, 2, 7, 6>>
HashOf == [k \in 1..5 |-> Hashes[k]]
=============================================================================
