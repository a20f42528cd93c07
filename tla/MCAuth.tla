------------------------------- MODULE MCAuth -------------------------------
(* Instances of Auth for TLC.                                               *)
EXTENDS Auth, TLC

CONSTANTS h1, h2, ip1, ip2, ip3, v1, v2

MCHandlers == {h1, h2}
OneIp == {ip1}
ThreeIps == {ip1, ip2, ip3}
OneValidator == {v1}
TwoValidators == {v1, v2}

\* One validator signs every challenge, whoever it was made for, the other one none.
MCSignatures == {<<v2, 1>>, <<v2, 2>>}
NoSignatures == {}

\* Calls, addresses and identities are interchangeable (safety runs only).
Symmetry == Permutations(MCHandlers) \cup Permutations(Ips) \cup Permutations(Pubkeys)
=============================================================================
