----------------------------- MODULE MCRpcServer -----------------------------
(***************************************************************************)
(* An instance of RpcServer for TLC: two clients.                          *)
(***************************************************************************)
EXTENDS RpcServer

CONSTANTS a, b
=============================================================================
