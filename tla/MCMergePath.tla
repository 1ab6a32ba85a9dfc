---------------------------- MODULE MCMergePath ----------------------------
(* A small instance of MergePath for TLC. *)
EXTENDS MergePath, TLC
CONSTANTS c1, c2
Handlers == Permutations(Callers)
=============================================================================
