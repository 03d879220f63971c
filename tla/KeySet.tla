------------------------------- MODULE KeySet -------------------------------
(***************************************************************************)
(* What a shash promises (simple_hash/shash.h), without buckets: a set of  *)
(* keys, operations that tell whether a key is in it, and an iteration     *)
(* that hands out keys of the set, none of them twice.  Shash implements   *)
(* this module.                                                            *)
(***************************************************************************)
EXTENDS Integers

CONSTANTS Key, None
VARIABLES
  keys,      \* the set
  seen,      \* what the iteration handed out and nobody erased since
  result     \* what the last operation returned: [key, ret]

Returns(k, r) == result' = [key |-> k, ret |-> r]

Init == keys = {} /\ seen = {} /\ result = [key |-> None, ret |-> 0]

Insert(k) ==
  /\ Returns(k, IF k \in keys THEN -1 ELSE 0)
  /\ keys' = keys \cup {k}
  /\ UNCHANGED seen

Erase(k) ==
  /\ Returns(k, IF k \in keys THEN 0 ELSE -1)
  /\ keys' = keys \ {k}
  /\ seen' = seen \ {k}

Find(k) ==
  /\ Returns(k, IF k \in keys THEN 0 ELSE -1)
  /\ UNCHANGED <<keys, seen>>

Restart == seen' = {} /\ UNCHANGED <<keys, result>>

Visit ==
  \E k \in keys \ seen :
    Returns(k, 0) /\ seen' = seen \cup {k} /\ UNCHANGED keys

Exhausted == Returns(None, -1) /\ UNCHANGED <<keys, seen>>

Next ==
  \/ \E k \in Key : Insert(k) \/ Erase(k) \/ Find(k)
  \/ Restart \/ Visit \/ Exhausted

Spec == Init /\ [][Next]_<<keys, seen, result>>
=============================================================================
