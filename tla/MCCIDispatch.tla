--------------------------- MODULE MCCIDispatch ---------------------------
(* Instances of CIDispatch for TLC: one run, whose jobs are independent or a *)
(* chain; identifiers that play the same part are interchangeable.           *)
EXTENDS CIDispatch, TLC

CONSTANTS j1, j2, u1

OneRun == [j \in Jobs |-> u1]
NoNeeds == [j \in Jobs |-> {}]
Chain == [j \in Jobs |-> IF j = j2 THEN {j1} ELSE {}]

CredSymmetry == Permutations(Conns) \cup Permutations(Attempts)
ChainSymmetry == Permutations(Conns) \cup Permutations(Runners)
=============================================================================
