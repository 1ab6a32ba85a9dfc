--------------------------- MODULE MCSecretBroker ---------------------------
(* Instances of SecretBroker for TLC.                                      *)
EXTENDS SecretBroker

CONSTANTS l1, l2, a1, a2

TwoAttempts == [l \in Leases |-> IF l = l1 THEN a1 ELSE a2]
=============================================================================
