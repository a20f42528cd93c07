------------------------------ MODULE MCMirror ------------------------------
(* Instances of Mirror for TLC.                                             *)
EXTENDS Mirror

CONSTANTS v1

MCValidators == {v1}
=============================================================================
