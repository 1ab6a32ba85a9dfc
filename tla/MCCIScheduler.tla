--------------------------- MODULE MCCIScheduler ---------------------------
(* An instance of CIScheduler for TLC: the push of a commit whose workflow    *)
(* has two jobs and the push of a commit without a workflow.                  *)
EXTENDS CIScheduler

CONSTANTS k1, k2, e1, n1, n2

TwoKeys == [e \in Events |-> IF e = e1 THEN k1 ELSE k2]
Declares == [k \in Keys |-> IF k = k1 THEN {n1, n2} ELSE {}]
=============================================================================
