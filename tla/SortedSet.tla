----------------------------- MODULE SortedSet -----------------------------
(***************************************************************************)
(* What a skip list promises, without nodes and levels: a set of keys with *)
(* an iteration upwards and one downwards, each of which may be under way  *)
(* while keys come and go.  Slist implements this module.                  *)
(***************************************************************************)
EXTENDS Integers, FiniteSetsExt

CONSTANT Key
VARIABLES
  keys,          \* the keys in the set
  up,            \* what the forward iteration has still to hand out
  down           \* what the backward iteration has still to hand out

Init == keys = {} /\ up = {} /\ down = {}

\* A key that comes behind the iterator's position is handed out as well.
Insert(k) ==
  /\ k \notin keys
  /\ keys' = keys \cup {k}
  /\ up' = IF up # {} /\ k > Min(up) THEN up \cup {k} ELSE up
  /\ down' = IF down # {} /\ k < Max(down) THEN down \cup {k} ELSE down

Erase(k) ==
  /\ k \in keys
  /\ keys' = keys \ {k} /\ up' = up \ {k} /\ down' = down \ {k}

PopFront == keys # {} /\ Erase(Min(keys))
PopBack == keys # {} /\ Erase(Max(keys))

Begin == up' = keys /\ UNCHANGED <<keys, down>>
Iterate == up # {} /\ up' = up \ {Min(up)} /\ UNCHANGED <<keys, down>>
End == up' = {} /\ UNCHANGED <<keys, down>>

RBegin == down' = keys /\ UNCHANGED <<keys, up>>
RIterate == down # {} /\ down' = down \ {Max(down)} /\ UNCHANGED <<keys, up>>
REnd == down' = {} /\ UNCHANGED <<keys, up>>

Next ==
  \/ \E k \in Key : Insert(k) \/ Erase(k)
  \/ PopFront \/ PopBack
  \/ Begin \/ Iterate \/ End \/ RBegin \/ RIterate \/ REnd

Spec == Init /\ [][Next]_<<keys, up, down>>
=============================================================================
