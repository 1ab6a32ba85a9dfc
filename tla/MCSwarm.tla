------------------------------ MODULE MCSwarm ------------------------------
(* Instances of Swarm for TLC.                                             *)
EXTENDS Swarm

CONSTANTS i1, r1, r2

FirstItem == [r \in Runs |-> i1]
NoBlockers == [i \in Items |-> {}]
=============================================================================
