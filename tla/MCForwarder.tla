---------------------------- MODULE MCForwarder ----------------------------
(* Instance of Forwarder for TLC.                                           *)
EXTENDS Forwarder

CONSTANTS v1, v2

MCValidators == {v1, v2}

\* With BatchSize = 2: everything discarded, and a full message with a rest.
MCLiveCounts == {0, 3}
=============================================================================
