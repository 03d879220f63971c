---------------------------- MODULE MCRpcServer ----------------------------
(* RpcServer for TLC: the constants are given in the configurations. *)
EXTENDS RpcServer
=============================================================================
