--------------------------- MODULE MCRelayerDelay ---------------------------
(* Instance of RelayerDelay for TLC.                                        *)
EXTENDS RelayerDelay

CONSTANT s1

P(s, d) == [sig |-> s, discard |-> d]

OneSignature == {s1}

\* A packet that can be filtered, two that sigverify discarded, and two too short to
\* have a signature.
OneBatch == {<<P(s1, FALSE), P(s1, TRUE), P(NoSig, FALSE), P(NoSig, TRUE)>>}
=============================================================================
