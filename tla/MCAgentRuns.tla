---------------------------- MODULE MCAgentRuns ----------------------------
(* Instances of AgentRuns for TLC; cleaners are interchangeable.           *)
EXTENDS AgentRuns, TLC

CONSTANTS i1, r1, r2

OneItem == [r \in Runs |-> i1]
NoBlockers == [i \in Items |-> {}]
AnyCleaner == Permutations(Cleaners)
=============================================================================
