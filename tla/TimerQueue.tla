----------------------------- MODULE TimerQueue -----------------------------
(***************************************************************************)
(* What a sio_timer_manager promises, without the heap: timers are started *)
(* and stopped, and the one that is popped is one that expires first.      *)
(* SioTimer implements this module.                                        *)
(***************************************************************************)
EXTENDS Naturals

CONSTANTS Timer, None
VARIABLES
  due,       \* when a timer expires, None if it is not in the queue
  out        \* the timer popped last, None once a timer was inserted

Init == due = [t \in Timer |-> None] /\ out = None

Queued == {t \in Timer : due[t] # None}

\* No other timer changes.
Keeps(t) == due' = [due EXCEPT ![t] = due'[t]]

Insert(t) ==
  /\ t \notin Queued
  /\ due'[t] \in Nat /\ Keeps(t)
  /\ out' = None

Modify(t) ==
  /\ t \in Queued
  /\ due'[t] \in Nat /\ Keeps(t)
  /\ UNCHANGED out

Remove(t) ==
  /\ t \in Queued
  /\ due' = [due EXCEPT ![t] = None]
  /\ UNCHANGED out

Pop(t) ==
  /\ t \in Queued
  /\ \A s \in Queued : due[t] <= due[s]
  /\ due' = [due EXCEPT ![t] = None]
  /\ out' = t

Next == \E t \in Timer : Insert(t) \/ Modify(t) \/ Remove(t) \/ Pop(t)

Spec == Init /\ [][Next]_<<due, out>>
=============================================================================
