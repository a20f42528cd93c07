--------------------------- MODULE MCDelayForward ---------------------------
(* Instance of DelayForward for TLC.                                        *)
EXTENDS DelayForward

CONSTANTS s1

MCSignatures == {s1}

\* A unit with a signature and one without.
MCResponses == {<<{s1}, {}>>}
=============================================================================
