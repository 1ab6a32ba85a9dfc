--------------------------- MODULE ExecutionLease ---------------------------
(***************************************************************************)
(* What the execution claim of a Work Item promises, whatever protocol     *)
(* keeps it: a run works on an item only while it holds the item's lease,  *)
(* an item has one lease, a lease is given back only by a run that has     *)
(* stopped for good, and a lease given back or refused is never taken      *)
(* again by the same run ("No timeout may free a claim with possibly live  *)
(* work", internal/work/execution.go).                                     *)
(***************************************************************************)
CONSTANTS Runs, ItemOf

VARIABLES
  lease,  \* "free", "held" or "spent", for each run
  busy    \* the runs at work

leaseVars == <<lease, busy>>

Init == lease = [r \in Runs |-> "free"] /\ busy = {}

Take(r) ==
  /\ lease[r] = "free"
  /\ \A q \in Runs : ItemOf[q] = ItemOf[r] => lease[q] # "held"
  /\ lease' = [lease EXCEPT ![r] = "held"]
  /\ UNCHANGED busy

Begin(r) ==
  /\ lease[r] = "held" /\ r \notin busy
  /\ busy' = busy \cup {r}
  /\ UNCHANGED lease

Stop(r) ==
  /\ r \in busy
  /\ busy' = busy \ {r}
  /\ UNCHANGED lease

GiveBack(r) ==
  /\ lease[r] # "spent" /\ r \notin busy
  /\ lease' = [lease EXCEPT ![r] = "spent"]
  /\ UNCHANGED busy

Next == \E r \in Runs : Take(r) \/ Begin(r) \/ Stop(r) \/ GiveBack(r)

Spec == Init /\ [][Next]_leaseVars
=============================================================================
