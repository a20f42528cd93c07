---------------------------- MODULE MCRpcWorkers ----------------------------
(* An instance of RpcWorkers for TLC.                                       *)
EXTENDS RpcWorkers

CONSTANTS n1

MCNodes == {n1}
=============================================================================
