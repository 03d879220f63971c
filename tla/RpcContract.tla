----------------------------- MODULE RpcContract -----------------------------
(***************************************************************************)
(* What sio_rpc_call promises its user, whatever happens to connections:   *)
(* the callback of a call runs exactly once, with an answer or a timeout.  *)
(*                                                                         *)
(* A call is "new" until it is issued, "pending" until its callback runs   *)
(* and "done" afterwards.  Releasing the client completes every pending    *)
(* call at once.  RpcClient implements this module.                        *)
(***************************************************************************)
CONSTANT Request
VARIABLE phase     \* [Request -> {"new", "pending", "done"}]

Init == phase = [r \in Request |-> "new"]

Issue(r) ==
  /\ phase[r] = "new"
  /\ phase' = [phase EXCEPT ![r] = "pending"]

Complete(r) ==
  /\ phase[r] = "pending"
  /\ phase' = [phase EXCEPT ![r] = "done"]

Shutdown ==
  phase' = [r \in Request |-> IF phase[r] = "pending" THEN "done" ELSE phase[r]]

Next == (\E r \in Request : Issue(r) \/ Complete(r)) \/ Shutdown

Spec == Init /\ [][Next]_phase
=============================================================================
