---------------------------- MODULE MCRpcClient ----------------------------
(* RpcClient for TLC.  Upstreams and calls are interchangeable: no operator  *)
(* of RpcClient chooses among them but by the order of the array.            *)
EXTENDS RpcClient, TLC

Interchangeable == Permutations(Upstream) \cup Permutations(Request)
=============================================================================
