------------------------------ MODULE MCSlist ------------------------------
(* Slist for TLC: four keys on three levels, so that a link can jump over     *)
(* two nodes of different heights; every height may be drawn for every node. *)
EXTENDS Slist
=============================================================================
