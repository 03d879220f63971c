------------------------------- MODULE MCSlog -------------------------------
(* Slog for TLC: two threads in the process that opened the log, one in a    *)
(* child that any of them may fork at any time.                              *)
EXTENDS Slog

CONSTANTS t1, t2, t3, parent, child
Owner == [t \in Thread |-> IF t = t3 THEN child ELSE parent]
=============================================================================
