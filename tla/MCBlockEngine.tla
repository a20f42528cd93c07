---------------------------- MODULE MCBlockEngine ----------------------------
(* An instance of BlockEngine for TLC.                                      *)
EXTENDS BlockEngine

CONSTANTS p1

MCPeers == {p1}
=============================================================================
