--------------------------- MODULE WorkExecution ---------------------------
(***************************************************************************)
(* Execution claims of Work Items (internal/work/execution.go).            *)
(*                                                                         *)
(* A Work Item is executed by at most one Agent Run at a time.  The run is *)
(* recorded by agent-runtime before it asks, so a request may be repeated, *)
(* or arrive after its sender has given up; a release of a claim that was  *)
(* never made leaves a tombstone that refuses the late request.  Both      *)
(* operations are one transaction under the lock of the item's row.        *)
(***************************************************************************)
EXTENDS Naturals, FiniteSets

CONSTANTS
  Items,    \* Work Items
  Runs,     \* identities of Agent Runs
  ItemOf,   \* the Work Item a run is bound to
  Blockers, \* the Work Items an item depends on
  None      \* no run

ASSUME WorkAssumption ==
  /\ ItemOf \in [Runs -> Items]
  /\ Blockers \in [Items -> SUBSET Items]
  /\ None \notin Runs

VARIABLES
  itemState,  \* work_items.state
  claimed,    \* work_items.execution_claimed: the item was executed before
  active,     \* work_items.active_execution_run_id
  claim       \* execution_claims row of a run: "none", "held" or its outcome

workVars == <<itemState, claimed, active, claim>>

ItemStates == {"open", "in_progress", "review", "blocked", "done"}
RunOutcomes == {"succeeded", "failed", "cancelled", "over_budget"}
Outcomes == RunOutcomes \cup {"admission_failed"}

WorkTypes ==
  /\ itemState \in [Items -> ItemStates]
  /\ claimed \in [Items -> BOOLEAN]
  /\ active \in [Items -> Runs \cup {None}]
  /\ claim \in [Runs -> Outcomes \cup {"none", "held"}]

WorkInit ==
  /\ itemState = [i \in Items |-> "open"]
  /\ claimed = [i \in Items |-> FALSE]
  /\ active = [i \in Items |-> None]
  /\ claim = [r \in Runs |-> "none"]

\* Everything the item depends on is done.
Unblocked(i) == \A b \in Blockers[i] : itemState[b] = "done"

\* Mutant of Admits: the identity's own history is not looked up.
AdmitsAgain(r) == itemState[ItemOf[r]] = "open" /\ active[ItemOf[r]] = None

\* The item is free for a run that has never asked.
Admits(r) ==
  /\ claim[r] = "none"
  /\ itemState[ItemOf[r]] = "open"
  /\ active[ItemOf[r]] = None
  /\ Unblocked(ItemOf[r])

\* The run asks again after an answer it did not see.
Replays(r) == claim[r] = "held" /\ active[ItemOf[r]] = r

ClaimExecution(r) ==
  \/ /\ Admits(r)
     /\ claim' = [claim EXCEPT ![r] = "held"]
     /\ active' = [active EXCEPT ![ItemOf[r]] = r]
     /\ itemState' = [itemState EXCEPT ![ItemOf[r]] = "in_progress"]
     /\ claimed' = [claimed EXCEPT ![ItemOf[r]] = TRUE]
  \/ Replays(r) /\ UNCHANGED workVars

\* The state of an item whose run was released with outcome o.
AfterRelease(o) ==
  CASE o = "succeeded"        -> "review"
    [] o = "admission_failed" -> "open"
    [] OTHER                  -> "blocked"

Releasable(r, o) ==
  \/ claim[r] = "none" /\ o = "admission_failed"
  \/ claim[r] = o
  \/ claim[r] = "held" /\ active[ItemOf[r]] = r

\* Mutant of ReleaseExecution: an absent claim is nothing to release.
ReleaseExecutionNoTombstone(r, o) ==
  \/ claim[r] \in {"none", o} /\ UNCHANGED workVars
  \/ /\ claim[r] = "held" /\ active[ItemOf[r]] = r
     /\ claim' = [claim EXCEPT ![r] = o]
     /\ active' = [active EXCEPT ![ItemOf[r]] = None]
     /\ itemState' = [itemState EXCEPT ![ItemOf[r]] = AfterRelease(o)]
     /\ UNCHANGED claimed

ReleaseExecution(r, o) ==
  \/ /\ claim[r] = "none" /\ o = "admission_failed"
     /\ claim' = [claim EXCEPT ![r] = o]
     /\ UNCHANGED <<itemState, claimed, active>>
  \/ claim[r] = o /\ UNCHANGED workVars
  \/ /\ claim[r] = "held" /\ active[ItemOf[r]] = r
     /\ claim' = [claim EXCEPT ![r] = o]
     /\ active' = [active EXCEPT ![ItemOf[r]] = None]
     /\ itemState' = [itemState EXCEPT ![ItemOf[r]] = AfterRelease(o)]
     /\ UNCHANGED claimed

\* A person moves an item that has no execution history (edit.go).
TransitionItem(i) ==
  /\ ~claimed[i]
  /\ \/ itemState[i] = "open" /\ itemState' = [itemState EXCEPT ![i] = "blocked"]
     \/ itemState[i] = "blocked" /\ itemState' = [itemState EXCEPT ![i] = "open"]
  /\ UNCHANGED <<claimed, active, claim>>

\* The swarm scheduler's compare-and-swap and its unconditional setter (deps.go).
ClaimOpen(i) ==
  /\ itemState[i] = "open" /\ active[i] = None
  /\ itemState' = [itemState EXCEPT ![i] = "in_progress"]
  /\ UNCHANGED <<claimed, active, claim>>

SetState(i, s) ==
  /\ active[i] = None
  /\ itemState' = [itemState EXCEPT ![i] = s]
  /\ UNCHANGED <<claimed, active, claim>>

TransitionState(i, from, to) ==
  /\ itemState[i] = from /\ active[i] = None
  /\ itemState' = [itemState EXCEPT ![i] = to]
  /\ UNCHANGED <<claimed, active, claim>>
=============================================================================
