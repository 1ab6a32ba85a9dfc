-------------------------- MODULE AgentRunsProofs --------------------------
(***************************************************************************)
(* Proofs about AgentRuns, for every set of runs, items and cleaners, with *)
(* any number of faults, and whether or not the runs are purged.           *)
(***************************************************************************)
EXTENDS AgentRuns, TLAPS

\* The workspace holds no session of the run that could still act, or whose end
\* was not seen.
Safe(r) == session[r] \in {"none", "ended"}

\* The Work Item was given back, or will never be taken.
Spent(r) == claim[r] \in Outcomes

\* Work keeps one claim for an item, and the item names it.
HeldInv == \A r \in Runs : claim[r] = "held" <=> active[ItemOf[r]] = r

\* A row that does not exist owns nothing.
NoneOK(r) ==
  /\ state[r] = "none" <=> pc[r] = "none"
  /\ state[r] = "none" => /\ claim[r] = "none" /\ grant[r] = "none"
                          /\ session[r] = "none" /\ owed[r] = {} /\ ~tool[r]
  /\ state[r] = "gone" => owed[r] = {}

\* How far an executor has come.
ExecOK(r) ==
  /\ pc[r] \in Executing \cup {"complete"} => started[r] /\ ~finished[r]
  /\ pc[r] \in {"freeze", "issue", "drive"} => claim[r] # "none"
  /\ finished[r] => started[r] /\ pc[r] = "done"
  /\ started[r] => claim[r] # "none" /\ state[r] \notin {"none", "queued"}
  /\ state[r] = "running" => started[r]
  /\ session[r] # "none" => started[r]

\* What is not owed any more was discharged.
OwedOK(r) ==
  /\ Active(r) => "work" \in owed[r]
  /\ Stopped(r) /\ "work" \notin owed[r] => Spent(r)
  /\ Stopped(r) /\ "grant" \notin owed[r] => grant[r] = "fenced"
  /\ "ws" \notin owed[r] => Safe(r)
  /\ "ws" \in owed[r] => session[r] # "none"

\* Work is given back by a run that has stopped for good.
SpentOK(r) ==
  /\ Spent(r) => Stopped(r) /\ Safe(r)
  /\ claim[r] = "admission_failed" => ~started[r]
  /\ claim[r] \in RunOutcomes =>
       started[r] /\ finished[r] /\ state[r] \in {claim[r], "gone"}

\* A success is complete.
SuccessOK(r) ==
  state[r] = "succeeded" => finished[r] /\ ~tool[r] /\ "ws" \notin owed[r]

RowInv ==
  \A r \in Runs : NoneOK(r) /\ ExecOK(r) /\ OwedOK(r) /\ SpentOK(r) /\ SuccessOK(r)

\* What a cleaner has read, and what it has done since.
CleanerOK(c) ==
  LET r == job[c] IN
  /\ cpc[c] \in {"idle", "read", "revoke"} => errs[c] = {}
  /\ cpc[c] # "idle" => r \in Runs /\ Stopped(r)
  /\ cpc[c] \in {"revoke", "workspace", "release", "ack"} =>
       /\ seen[c].state \in RunOutcomes /\ state[r] \in {seen[c].state, "gone"}
       /\ seen[c].finished => finished[r]
       /\ "grant" \notin seen[c].owed => grant[r] = "fenced"
       /\ "ws" \notin seen[c].owed => Safe(r)
       /\ "work" \notin seen[c].owed => Spent(r)
       /\ "ws" \in errs[c] => state[r] # "succeeded" /\ session[r] # "none"
  /\ cpc[c] \in {"workspace", "release", "ack"} /\ "grant" \notin errs[c] => grant[r] = "fenced"
  /\ cpc[c] \in {"release", "ack"} /\ "ws" \notin errs[c] => Safe(r)
  /\ cpc[c] = "ack" /\ "work" \notin errs[c] => Spent(r)

CleanerInv == \A c \in Cleaners : CleanerOK(c)

\* The outcome o may be told of a run.
Truthful(r, o) ==
  /\ Stopped(r) /\ Safe(r)
  /\ o = "admission_failed" => ~started[r]
  /\ o \in RunOutcomes => started[r] /\ finished[r] /\ state[r] \in {o, "gone"}

\* What a request on its way asks for is still true.
LateInv ==
  \A m \in late :
    /\ state[m[2]] # "none"
    /\ m[1] = "release" => Truthful(m[2], m[3])

IInv == TypeOK /\ HeldInv /\ RowInv /\ CleanerInv /\ LateInv

USE WorkAssumption, AgentAssumption

\* Nothing exists at the start.
LEMMA InitIInv == Init => IInv
<1> SUFFICES ASSUME Init PROVE IInv
  OBVIOUS
<1>1. TypeOK
  BY DEF Init, TypeOK, WorkInit, WorkTypes, ItemStates, RunOutcomes, Outcomes, States,
         Sessions, Steps, Admission, Executing, CleanSteps, NotRead, Obligations
<1>2. HeldInv
  BY DEF Init, WorkInit, HeldInv
<1>3. RowInv
  BY DEF Init, WorkInit, RowInv, NoneOK, ExecOK, OwedOK, SpentOK, SuccessOK, Executing,
         Active, Stopped, RunOutcomes, Outcomes, Spent, Safe
<1>4. CleanerInv /\ LateInv
  BY DEF Init, CleanerInv, CleanerOK, LateInv
<1> QED
  BY <1>1, <1>2, <1>3, <1>4 DEF IInv

-----------------------------------------------------------------------------
(* The Work service *)

\* A run takes a free item.
Takes(r) ==
  /\ claim[r] = "none" /\ active[ItemOf[r]] = None
  /\ claim'[r] = "held" /\ \A q \in Runs : q # r => claim'[q] = claim[q]
  /\ active'[ItemOf[r]] = r /\ \A i \in Items : i # ItemOf[r] => active'[i] = active[i]

\* A run gives its item back, or is refused it for good.
Yields(r, o) ==
  /\ claim[r] \in {"none", "held"} /\ o \in Outcomes
  /\ claim[r] = "none" => o = "admission_failed"
  /\ claim'[r] = o /\ \A q \in Runs : q # r => claim'[q] = claim[q]
  /\ \A i \in Items : i # ItemOf[r] \/ claim[r] = "none" => active'[i] = active[i]
  /\ claim[r] = "held" => active[ItemOf[r]] = r /\ active'[ItemOf[r]] = None

WorkKept == claim' = claim /\ active' = active

\* ClaimExecution takes the item, or answers again.
LEMMA ClaimEffect ==
  ASSUME WorkTypes, NEW r \in Runs, ClaimExecution(r)
  PROVE  WorkTypes' /\ (Takes(r) \/ (WorkKept /\ claim[r] = "held"))
<1>1. ItemOf[r] \in Items
  OBVIOUS
<1>2. CASE Admits(r)
  <2>1. /\ claim' = [claim EXCEPT ![r] = "held"]
        /\ active' = [active EXCEPT ![ItemOf[r]] = r]
        /\ itemState' = [itemState EXCEPT ![ItemOf[r]] = "in_progress"]
        /\ claimed' = [claimed EXCEPT ![ItemOf[r]] = TRUE]
    BY <1>2 DEF ClaimExecution, Admits, Replays
  <2>2. Takes(r)
    BY <1>1, <1>2, <2>1 DEF WorkTypes, Takes, Admits
  <2>3. WorkTypes'
    BY <1>1, <2>1 DEF WorkTypes, ItemStates
  <2> QED
    BY <2>2, <2>3
<1>3. CASE Replays(r) /\ UNCHANGED workVars
  BY <1>3 DEF WorkTypes, WorkKept, workVars, Replays
<1> QED
  BY <1>2, <1>3 DEF ClaimExecution

\* ReleaseExecution gives it back, or has done so before.
LEMMA ReleaseEffect ==
  ASSUME WorkTypes, NEW r \in Runs, NEW o \in Outcomes, ReleaseExecution(r, o)
  PROVE  WorkTypes' /\ (Yields(r, o) \/ (WorkKept /\ claim[r] = o))
<1>1. ItemOf[r] \in Items /\ o \notin {"none", "held"}
  BY DEF Outcomes, RunOutcomes
<1>2. CASE /\ claim[r] = "none" /\ o = "admission_failed"
           /\ claim' = [claim EXCEPT ![r] = o]
           /\ UNCHANGED <<itemState, claimed, active>>
  BY <1>1, <1>2 DEF WorkTypes, Yields
<1>3. CASE claim[r] = o /\ UNCHANGED workVars
  BY <1>3 DEF WorkTypes, WorkKept, workVars
<1>4. CASE /\ claim[r] = "held" /\ active[ItemOf[r]] = r
           /\ claim' = [claim EXCEPT ![r] = o]
           /\ active' = [active EXCEPT ![ItemOf[r]] = None]
           /\ itemState' = [itemState EXCEPT ![ItemOf[r]] = AfterRelease(o)]
           /\ UNCHANGED claimed
  <2>1. AfterRelease(o) \in ItemStates
    BY DEF AfterRelease, ItemStates
  <2>2. WorkTypes'
    BY <1>1, <1>4, <2>1 DEF WorkTypes
  <2>3. Yields(r, o)
    BY <1>1, <1>4 DEF WorkTypes, Yields
  <2> QED
    BY <2>2, <2>3
<1> QED
  BY <1>2, <1>3, <1>4 DEF ReleaseExecution

\* What Work does in a step.
WorkMoves ==
  /\ WorkTypes'
  /\ \/ WorkKept
     \/ \E r \in Runs : Takes(r)
     \/ \E r \in Runs : \E o \in Outcomes : Yields(r, o)

\* Work was not asked.
LEMMA WorkIdle == ASSUME WorkTypes, UNCHANGED workVars PROVE WorkMoves
BY DEF WorkTypes, WorkMoves, WorkKept, workVars

\* The outcome a cleaner tells, and the request it leaves behind.
LEMMA OutcomeTyped ==
  ASSUME TypeOK, CleanerInv, NEW c \in Cleaners, cpc[c] = "release"
  PROVE  job[c] \in Runs /\ ReleaseOutcome(c) \in Outcomes
BY DEF CleanerInv, CleanerOK, ReleaseOutcome, Outcomes

\* A request on its way names a run.
LEMMA LateTyped ==
  ASSUME TypeOK, NEW m \in late
  PROVE  /\ m = <<m[1], m[2], m[3]>> /\ m[2] \in Runs
         /\ m[1] \in {"claim", "issue"} => m[3] = "none"
         /\ m[1] \notin {"claim", "issue"} => m[1] = "release" /\ m[3] \in Outcomes
BY DEF TypeOK, Requests

\* Every step is one of Work's, or none.
LEMMA WorkStep ==
  ASSUME TypeOK, CleanerInv, [Next]_vars
  PROVE  WorkMoves
<1>0. WorkTypes
  BY DEF TypeOK
<1>1. ASSUME NEW r \in Runs, CreateRun(r) PROVE WorkMoves
  BY <1>1, <1>0, WorkIdle DEF CreateRun
<1>2. ASSUME NEW r \in Runs, CancelRun(r) PROVE WorkMoves
  BY <1>2, <1>0, WorkIdle DEF CancelRun
<1>3. ASSUME NEW r \in Runs, RecoverOrphan(r) PROVE WorkMoves
  BY <1>3, <1>0, WorkIdle DEF RecoverOrphan
<1>4. ASSUME NEW r \in Runs, AdmissionTimesOut(r) PROVE WorkMoves
  BY <1>4, <1>0, WorkIdle DEF AdmissionTimesOut
<1>5. ASSUME NEW r \in Runs, ClaimWork(r) PROVE WorkMoves
  <2>1. CASE ClaimExecution(r)
    BY <1>0, <2>1, ClaimEffect DEF WorkMoves
  <2> QED
    BY <1>5, <1>0, <2>1, WorkIdle DEF ClaimWork
<1>6. ASSUME NEW r \in Runs, FreezeWorkItem(r) PROVE WorkMoves
  BY <1>6, <1>0, WorkIdle DEF FreezeWorkItem
<1>7. ASSUME NEW r \in Runs, IssueGrant(r) PROVE WorkMoves
  BY <1>7, <1>0, WorkIdle DEF IssueGrant
<1>8. ASSUME NEW r \in Runs, RefuseRun(r) PROVE WorkMoves
  BY <1>8, <1>0, WorkIdle DEF RefuseRun
<1>9. ASSUME NEW r \in Runs, Acquire(r) PROVE WorkMoves
  BY <1>9, <1>0, WorkIdle DEF Acquire
<1>10. ASSUME NEW r \in Runs, Prepare(r) PROVE WorkMoves
  BY <1>10, <1>0, WorkIdle DEF Prepare
<1>11. ASSUME NEW r \in Runs, RecordSession(r) PROVE WorkMoves
  BY <1>11, <1>0, WorkIdle DEF RecordSession
<1>12. ASSUME NEW r \in Runs, OpenSession(r) PROVE WorkMoves
  BY <1>12, <1>0, WorkIdle DEF OpenSession
<1>13. ASSUME NEW r \in Runs, CheckRun(r) PROVE WorkMoves
  BY <1>13, <1>0, WorkIdle DEF CheckRun
<1>14. ASSUME NEW r \in Runs, EndLoop(r) PROVE WorkMoves
  BY <1>14, <1>0, WorkIdle DEF EndLoop
<1>15. ASSUME NEW r \in Runs, RecordCall(r) PROVE WorkMoves
  BY <1>15, <1>0, WorkIdle DEF RecordCall
<1>16. ASSUME NEW r \in Runs, CompleteCall(r) PROVE WorkMoves
  BY <1>16, <1>0, WorkIdle DEF CompleteCall
<1>17. ASSUME NEW r \in Runs, BeforeFinish(r) PROVE WorkMoves
  BY <1>17, <1>0, WorkIdle DEF BeforeFinish
<1>18. ASSUME NEW r \in Runs, CompleteRun(r) PROVE WorkMoves
  BY <1>18, <1>0, WorkIdle DEF CompleteRun
<1>19. ASSUME NEW r \in Runs, Crash(r) PROVE WorkMoves
  BY <1>19, <1>0, WorkIdle DEF Crash
<1>20. ASSUME NEW r \in Runs, LeaseExpires(r) PROVE WorkMoves
  BY <1>20, <1>0, WorkIdle DEF LeaseExpires
<1>21. ASSUME NEW c \in Cleaners, NEW r \in Runs, ClaimCleanup(c, r) PROVE WorkMoves
  BY <1>21, <1>0, WorkIdle DEF ClaimCleanup
<1>22. ASSUME NEW c \in Cleaners, ReadRun(c) PROVE WorkMoves
  BY <1>22, <1>0, WorkIdle DEF ReadRun
<1>23. ASSUME NEW c \in Cleaners, RevokeGrant(c) PROVE WorkMoves
  BY <1>23, <1>0, WorkIdle DEF RevokeGrant
<1>24. ASSUME NEW c \in Cleaners, CleanWorkspace(c) PROVE WorkMoves
  BY <1>24, <1>0, WorkIdle DEF CleanWorkspace
<1>25. ASSUME NEW c \in Cleaners, Release(c) PROVE WorkMoves
  <2>1. job[c] \in Runs /\ ReleaseOutcome(c) \in Outcomes
    BY <1>25, OutcomeTyped DEF Release, CleanStep
  <2>2. CASE ReleaseExecution(job[c], ReleaseOutcome(c))
    BY <1>0, <2>1, <2>2, ReleaseEffect DEF WorkMoves
  <2> QED
    BY <1>25, <1>0, <2>2, WorkIdle DEF Release, ReleaseWork
<1>26. ASSUME NEW c \in Cleaners, Ack(c) PROVE WorkMoves
  BY <1>26, <1>0, WorkIdle DEF Ack
<1>27. ASSUME NEW c \in Cleaners, CleanerStops(c) PROVE WorkMoves
  BY <1>27, <1>0, WorkIdle DEF CleanerStops
<1>28. ASSUME NEW m \in late, Arrives(m) PROVE WorkMoves
  <2>1. m[2] \in Runs /\ (m[1] = "release" => m[3] \in Outcomes)
    BY LateTyped
  <2>2. CASE ClaimExecution(m[2])
    BY <1>0, <2>1, <2>2, ClaimEffect DEF WorkMoves
  <2>3. CASE m[1] = "release" /\ ReleaseExecution(m[2], m[3])
    BY <1>0, <2>1, <2>3, ReleaseEffect DEF WorkMoves
  <2> QED
    BY <1>28, <1>0, <2>2, <2>3, WorkIdle DEF Arrives, ReleaseWork
<1>29. ASSUME FenceScope PROVE WorkMoves
  BY <1>29, <1>0, WorkIdle DEF FenceScope
<1>30. ASSUME CancelScope PROVE WorkMoves
  BY <1>30, <1>0, WorkIdle DEF CancelScope
<1>31. ASSUME DeleteScope PROVE WorkMoves
  BY <1>31, <1>0, WorkIdle DEF DeleteScope
<1>32. ASSUME NEW i \in Items, EditItem(i) PROVE WorkMoves
  BY <1>32, <1>0 DEF EditItem, TransitionItem, WorkTypes, WorkMoves, WorkKept,
     ItemStates
<1>33. CASE UNCHANGED vars
  BY <1>0, <1>33, WorkIdle DEF vars
<1> QED
  BY <1>1, <1>2, <1>3, <1>4, <1>5, <1>6, <1>7, <1>8, <1>9, <1>10, <1>11, <1>12,
     <1>13, <1>14, <1>15, <1>16, <1>17, <1>18, <1>19, <1>20, <1>21, <1>22, <1>23,
     <1>24, <1>25, <1>26, <1>27, <1>28, <1>29, <1>30, <1>31, <1>32, <1>33 DEF
     Next, Execute, Clean

\* An item names the run that holds it.
LEMMA HeldStep ==
  ASSUME TypeOK, CleanerInv, HeldInv, [Next]_vars
  PROVE  HeldInv'
<1>1. WorkMoves
  BY WorkStep
<1>2. CASE WorkKept
  BY <1>2 DEF WorkKept, HeldInv
<1>3. ASSUME NEW r \in Runs, Takes(r) PROVE HeldInv'
  BY <1>3 DEF Takes, HeldInv
<1>4. ASSUME NEW r \in Runs, NEW o \in Outcomes, Yields(r, o) PROVE HeldInv'
  <2>1. o # "held"
    BY DEF Outcomes, RunOutcomes
  <2> QED
    BY <1>4, <2>1 DEF Yields, HeldInv
<1> QED
  BY <1>1, <1>2, <1>3, <1>4 DEF WorkMoves

-----------------------------------------------------------------------------
(***************************************************************************)
(* The life of one run.  Whatever step is taken, a run makes one of the    *)
(* moves below; the invariants of a run are proved from them.              *)
(***************************************************************************)

Same(r) ==
  UNCHANGED <<state[r], started[r], finished[r], owed[r], tool[r], session[r], grant[r],
              claim[r], pc[r]>>

Created(r) ==
  /\ state[r] = "none" /\ state'[r] = "queued" /\ owed'[r] = {"work"} /\ pc'[r] = "claim"
  /\ UNCHANGED <<started[r], finished[r], tool[r], session[r], grant[r], claim[r]>>

\* Cancelled, recovered or refused.
EndedEarly(r) ==
  /\ Active(r) /\ state'[r] \in {"cancelled", "failed"} /\ owed'[r] = owed[r] \cup {"grant"}
  /\ pc'[r] = pc[r] \/ (pc[r] = "refuse" /\ pc'[r] = "done")
  /\ UNCHANGED <<started[r], finished[r], tool[r], session[r], grant[r], claim[r]>>

\* The executor goes on, or stops.
Walks(r) ==
  /\ pc[r] \notin {"none", "done"} /\ pc'[r] # "none"
  /\ pc'[r] \in {"freeze", "issue", "drive"} => claim[r] # "none"
  /\ pc'[r] \in Executing \cup {"complete"} => pc[r] \in Executing
  /\ UNCHANGED <<state[r], started[r], finished[r], owed[r], tool[r], session[r], grant[r],
                 claim[r]>>

\* The Work Item is taken, by the executor or by a request it no longer awaits.
TakesItem(r) ==
  /\ state[r] # "none" /\ claim[r] = "none" /\ claim'[r] = "held"
  /\ pc'[r] = pc[r] \/ (pc[r] \in {"claim", "reclaim"} /\ pc'[r] \in {"reclaim", "freeze", "refuse"})
  /\ UNCHANGED <<state[r], started[r], finished[r], owed[r], tool[r], session[r], grant[r]>>

Issued(r) ==
  /\ state[r] # "none" /\ grant[r] # "fenced" /\ grant'[r] = "live"
  /\ pc'[r] = pc[r] \/ (pc[r] = "issue" /\ pc'[r] \in {"drive", "refuse"})
  /\ UNCHANGED <<state[r], started[r], finished[r], owed[r], tool[r], session[r], claim[r]>>

Started(r) ==
  /\ pc[r] = "drive" /\ pc'[r] \in {"prepare", "done"}
  /\ state[r] = "queued" /\ state'[r] = "running" /\ started'[r] = TRUE
  /\ UNCHANGED <<finished[r], owed[r], tool[r], session[r], grant[r], claim[r]>>

Recorded(r) ==
  /\ pc[r] = "stdio" /\ pc'[r] = "exec" /\ Active(r)
  /\ session'[r] = "recorded" /\ owed'[r] = owed[r] \cup {"ws"}
  /\ UNCHANGED <<state[r], started[r], finished[r], tool[r], grant[r], claim[r]>>

Opened(r) ==
  /\ pc[r] = "exec" /\ pc'[r] = "loop"
  /\ session[r] = "recorded" /\ session'[r] = "open"
  /\ UNCHANGED <<state[r], started[r], finished[r], owed[r], tool[r], grant[r], claim[r]>>

Called(r) ==
  /\ pc[r] \in {"call", "tool"} /\ pc'[r] \in {"tool", "loop", "finish"}
  /\ UNCHANGED <<state[r], started[r], finished[r], owed[r], session[r], grant[r], claim[r]>>

\* The workspace is destroyed, or that fails.
Destroys(r) ==
  /\ "ws" \in owed[r]
  /\ \/ session'[r] = "ended" /\ owed'[r] = owed[r] \ {"ws"}
     \/ /\ session'[r] \in {session[r], "ended", "lost"} /\ owed'[r] = owed[r]
        /\ session[r] = "ended" => session'[r] = "ended"
  /\ pc'[r] = pc[r] \/ (pc[r] = "finish" /\ pc'[r] = "complete")
  /\ UNCHANGED <<state[r], started[r], finished[r], tool[r], grant[r], claim[r]>>

Completed(r) ==
  /\ pc[r] = "complete" /\ pc'[r] = "done" /\ finished'[r] = TRUE
  /\ \/ Terminal(r) /\ state[r] # "succeeded" /\ UNCHANGED <<state[r], owed[r]>>
     \/ /\ ~Stopped(r) /\ state'[r] \in RunOutcomes /\ owed'[r] = owed[r] \cup {"grant"}
        /\ state'[r] = "succeeded" => ~tool[r] /\ "ws" \notin owed[r]
  /\ UNCHANGED <<started[r], tool[r], session[r], grant[r], claim[r]>>

Fenced(r) ==
  /\ grant'[r] = "fenced"
  /\ Stopped(r)
  /\ UNCHANGED <<state[r], started[r], finished[r], owed[r], tool[r], session[r], claim[r],
                 pc[r]>>

\* Work is given the item back, and told what is true.
Released(r) ==
  /\ claim[r] \in {"none", "held"} /\ claim'[r] \in Outcomes /\ Truthful(r, claim'[r])
  /\ UNCHANGED <<state[r], started[r], finished[r], owed[r], tool[r], session[r], grant[r],
                 pc[r]>>

\* A cleaner writes down what is left to do.
Acknowledged(r) ==
  /\ Stopped(r) /\ owed[r] # {} /\ owed'[r] \subseteq Obligations
  /\ "grant" \notin owed'[r] => grant[r] = "fenced"
  /\ "ws" \notin owed'[r] => Safe(r)
  /\ "ws" \in owed'[r] => state[r] # "succeeded" /\ session[r] # "none"
  /\ "work" \notin owed'[r] => Spent(r)
  /\ UNCHANGED <<state[r], started[r], finished[r], tool[r], session[r], grant[r], claim[r],
                 pc[r]>>

Deleted(r) ==
  /\ Terminal(r) /\ owed[r] = {} /\ state'[r] = "gone" /\ tool'[r] = FALSE
  /\ UNCHANGED <<started[r], finished[r], owed[r], session[r], grant[r], claim[r], pc[r]>>

RunMove(r) ==
  \/ Same(r) \/ Created(r) \/ EndedEarly(r) \/ Walks(r) \/ TakesItem(r) \/ Issued(r)
  \/ Started(r) \/ Recorded(r) \/ Opened(r) \/ Called(r) \/ Destroys(r) \/ Completed(r)
  \/ Fenced(r) \/ Released(r) \/ Acknowledged(r) \/ Deleted(r)

RunMoves == \A r \in Runs : RunMove(r)

\* The variables are functions.
Shape ==
  /\ DOMAIN state = Runs /\ DOMAIN started = Runs /\ DOMAIN finished = Runs
  /\ DOMAIN owed = Runs /\ DOMAIN tool = Runs /\ DOMAIN session = Runs
  /\ DOMAIN grant = Runs /\ DOMAIN claim = Runs /\ DOMAIN pc = Runs

\* They are, when the types are right.
LEMMA Shapes == TypeOK => Shape
BY DEF TypeOK, WorkTypes, Shape

\* CreateRun writes the row.
LEMMA CreateRunRuns ==
  ASSUME TypeOK, NEW r \in Runs, CreateRun(r)
  PROVE  RunMoves
<1>1. Shape
  BY Shapes
<1>2. \A q \in Runs : q # r => Same(q)
  BY <1>1 DEF CreateRun, Shape, Same, workVars, rowVars, worldVars, execVars,
     cleanVars, Goto
<1>3. Created(r)
  BY <1>1 DEF CreateRun, Shape, Same, workVars, rowVars, worldVars, execVars,
     cleanVars, Goto, Created
<1> QED
  BY <1>2, <1>3 DEF RunMoves, RunMove

\* CancelRun ends it.
LEMMA CancelRunRuns ==
  ASSUME TypeOK, NEW r \in Runs, CancelRun(r)
  PROVE  RunMoves
<1>1. Shape
  BY Shapes
<1>2. \A q \in Runs : q # r => Same(q)
  BY <1>1 DEF CancelRun, Shape, Same, workVars, rowVars, worldVars, execVars,
     cleanVars, End, Active
<1>3. EndedEarly(r)
  BY <1>1 DEF CancelRun, Shape, Same, workVars, rowVars, worldVars, execVars,
     cleanVars, End, Active, EndedEarly
<1> QED
  BY <1>2, <1>3 DEF RunMoves, RunMove

\* So does the recovery sweep.
LEMMA RecoverOrphanRuns ==
  ASSUME TypeOK, NEW r \in Runs, RecoverOrphan(r)
  PROVE  RunMoves
<1>1. Shape
  BY Shapes
<1>2. \A q \in Runs : q # r => Same(q)
  BY <1>1 DEF RecoverOrphan, Shape, Same, workVars, rowVars, worldVars, execVars,
     cleanVars, End, Active
<1>3. EndedEarly(r)
  BY <1>1 DEF RecoverOrphan, Shape, Same, workVars, rowVars, worldVars, execVars,
     cleanVars, End, Active, EndedEarly
<1> QED
  BY <1>2, <1>3 DEF RunMoves, RunMove

\* A start whose caller has gone is refused.
LEMMA AdmissionTimesOutRuns ==
  ASSUME TypeOK, NEW r \in Runs, AdmissionTimesOut(r)
  PROVE  RunMoves
<1>1. Shape
  BY Shapes
<1>2. \A q \in Runs : q # r => Same(q)
  BY <1>1 DEF AdmissionTimesOut, Shape, Same, workVars, rowVars, worldVars,
     execVars, cleanVars, Goto, Admission, Executing
<1>3. Walks(r)
  BY <1>1 DEF AdmissionTimesOut, Shape, Same, workVars, rowVars, worldVars,
     execVars, cleanVars, Goto, Admission, Executing, Walks
<1> QED
  BY <1>2, <1>3 DEF RunMoves, RunMove

\* The item is read again under the claim.
LEMMA FreezeWorkItemRuns ==
  ASSUME TypeOK, RowInv, NEW r \in Runs, FreezeWorkItem(r)
  PROVE  RunMoves
<1>1. Shape
  BY Shapes
<1>2. \A q \in Runs : q # r => Same(q)
  BY <1>1 DEF FreezeWorkItem, Shape, Same, workVars, rowVars, worldVars, execVars,
     cleanVars, Goto, Executing, RowInv, ExecOK
<1>3. Walks(r)
  BY <1>1 DEF FreezeWorkItem, Shape, Same, workVars, rowVars, worldVars, execVars,
     cleanVars, Goto, Executing, RowInv, ExecOK, Walks
<1> QED
  BY <1>2, <1>3 DEF RunMoves, RunMove

\* The grant is issued, or refused.
LEMMA IssueGrantRuns ==
  ASSUME TypeOK, RowInv, NEW r \in Runs, IssueGrant(r)
  PROVE  RunMoves
<1>1. Shape
  BY Shapes
<1>2. \A q \in Runs : q # r => Same(q)
  BY <1>1 DEF IssueGrant, Shape, Same, workVars, rowVars, worldVars, execVars,
     cleanVars, Goto, Executing, IssueIntent, Fault, RowInv, ExecOK, NoneOK
<1>3. Walks(r) \/ Issued(r)
  BY <1>1 DEF IssueGrant, Shape, Same, workVars, rowVars, worldVars, execVars,
     cleanVars, Goto, Executing, IssueIntent, Fault, RowInv, ExecOK, NoneOK,
     Walks, Issued
<1> QED
  BY <1>2, <1>3 DEF RunMoves, RunMove

\* A run that is not admitted ends.
LEMMA RefuseRunRuns ==
  ASSUME TypeOK, NEW r \in Runs, RefuseRun(r)
  PROVE  RunMoves
<1>1. Shape
  BY Shapes
<1>2. \A q \in Runs : q # r => Same(q)
  BY <1>1 DEF RefuseRun, Shape, Same, workVars, rowVars, worldVars, execVars,
     cleanVars, Goto, End, Active, Executing
<1>3. Walks(r) \/ EndedEarly(r)
  BY <1>1 DEF RefuseRun, Shape, Same, workVars, rowVars, worldVars, execVars,
     cleanVars, Goto, End, Active, Executing, Walks, EndedEarly
<1> QED
  BY <1>2, <1>3 DEF RunMoves, RunMove

\* The branch is taken by a queued run.
LEMMA AcquireRuns ==
  ASSUME TypeOK, NEW r \in Runs, Acquire(r)
  PROVE  RunMoves
<1>1. Shape
  BY Shapes
<1>2. \A q \in Runs : q # r => Same(q)
  BY <1>1 DEF Acquire, Shape, Same, workVars, rowVars, worldVars, execVars,
     cleanVars, Goto, Acquirable, Executing, Fault
<1>3. Walks(r) \/ Started(r)
  BY <1>1 DEF Acquire, Shape, Same, workVars, rowVars, worldVars, execVars,
     cleanVars, Goto, Acquirable, Executing, Fault, Walks, Started
<1> QED
  BY <1>2, <1>3 DEF RunMoves, RunMove

\* The executor prepares its loop.
LEMMA PrepareRuns ==
  ASSUME TypeOK, NEW r \in Runs, Prepare(r)
  PROVE  RunMoves
<1>1. Shape
  BY Shapes
<1>2. \A q \in Runs : q # r => Same(q)
  BY <1>1 DEF Prepare, Shape, Same, workVars, rowVars, worldVars, execVars,
     cleanVars, Goto, Executing
<1>3. Walks(r)
  BY <1>1 DEF Prepare, Shape, Same, workVars, rowVars, worldVars, execVars,
     cleanVars, Goto, Executing, Walks
<1> QED
  BY <1>2, <1>3 DEF RunMoves, RunMove

\* The session is recorded before it is opened.
LEMMA RecordSessionRuns ==
  ASSUME TypeOK, NEW r \in Runs, RecordSession(r)
  PROVE  RunMoves
<1>1. Shape
  BY Shapes
<1>2. \A q \in Runs : q # r => Same(q)
  BY <1>1 DEF RecordSession, Shape, Same, workVars, rowVars, worldVars, execVars,
     cleanVars, Goto, Executing, Active
<1>3. Walks(r) \/ Recorded(r)
  BY <1>1 DEF RecordSession, Shape, Same, workVars, rowVars, worldVars, execVars,
     cleanVars, Goto, Executing, Active, Walks, Recorded
<1> QED
  BY <1>2, <1>3 DEF RunMoves, RunMove

\* The session is opened.
LEMMA OpenSessionRuns ==
  ASSUME TypeOK, NEW r \in Runs, OpenSession(r)
  PROVE  RunMoves
<1>1. Shape
  BY Shapes
<1>2. \A q \in Runs : q # r => Same(q)
  BY <1>1 DEF OpenSession, Shape, Same, workVars, rowVars, worldVars, execVars,
     cleanVars, Goto, Executing
<1>3. Walks(r) \/ Opened(r)
  BY <1>1 DEF OpenSession, Shape, Same, workVars, rowVars, worldVars, execVars,
     cleanVars, Goto, Executing, Walks, Opened
<1> QED
  BY <1>2, <1>3 DEF RunMoves, RunMove

\* A step of the loop begins.
LEMMA CheckRunRuns ==
  ASSUME TypeOK, NEW r \in Runs, CheckRun(r)
  PROVE  RunMoves
<1>1. Shape
  BY Shapes
<1>2. \A q \in Runs : q # r => Same(q)
  BY <1>1 DEF CheckRun, Shape, Same, workVars, rowVars, worldVars, execVars,
     cleanVars, Goto, Executing
<1>3. Walks(r)
  BY <1>1 DEF CheckRun, Shape, Same, workVars, rowVars, worldVars, execVars,
     cleanVars, Goto, Executing, Walks
<1> QED
  BY <1>2, <1>3 DEF RunMoves, RunMove

\* The loop ends.
LEMMA EndLoopRuns ==
  ASSUME TypeOK, NEW r \in Runs, EndLoop(r)
  PROVE  RunMoves
<1>1. Shape
  BY Shapes
<1>2. \A q \in Runs : q # r => Same(q)
  BY <1>1 DEF EndLoop, Shape, Same, workVars, rowVars, worldVars, execVars,
     cleanVars, Goto, Executing
<1>3. Walks(r)
  BY <1>1 DEF EndLoop, Shape, Same, workVars, rowVars, worldVars, execVars,
     cleanVars, Goto, Executing, Walks
<1> QED
  BY <1>2, <1>3 DEF RunMoves, RunMove

\* A tool call is recorded.
LEMMA RecordCallRuns ==
  ASSUME TypeOK, NEW r \in Runs, RecordCall(r)
  PROVE  RunMoves
<1>1. Shape
  BY Shapes
<1>2. \A q \in Runs : q # r => Same(q)
  BY <1>1 DEF RecordCall, Shape, Same, workVars, rowVars, worldVars, execVars,
     cleanVars, Goto
<1>3. Called(r)
  BY <1>1 DEF RecordCall, Shape, Same, workVars, rowVars, worldVars, execVars,
     cleanVars, Goto, Called
<1> QED
  BY <1>2, <1>3 DEF RunMoves, RunMove

\* Its outcome is recorded.
LEMMA CompleteCallRuns ==
  ASSUME TypeOK, NEW r \in Runs, CompleteCall(r)
  PROVE  RunMoves
<1>1. Shape
  BY Shapes
<1>2. \A q \in Runs : q # r => Same(q)
  BY <1>1 DEF CompleteCall, Shape, Same, workVars, rowVars, worldVars, execVars,
     cleanVars, Goto
<1>3. Called(r)
  BY <1>1 DEF CompleteCall, Shape, Same, workVars, rowVars, worldVars, execVars,
     cleanVars, Goto, Called
<1> QED
  BY <1>2, <1>3 DEF RunMoves, RunMove

\* The sessions are closed.
LEMMA BeforeFinishRuns ==
  ASSUME TypeOK, NEW r \in Runs, BeforeFinish(r)
  PROVE  RunMoves
<1>1. Shape
  BY Shapes
<1>2. \A q \in Runs : q # r => Same(q)
  BY <1>1 DEF BeforeFinish, Shape, Same, workVars, rowVars, worldVars, execVars,
     cleanVars, Goto, Executing, Destroyed, DestroyFails, Fault
<1>3. Walks(r) \/ Destroys(r)
  BY <1>1 DEF BeforeFinish, Shape, Same, workVars, rowVars, worldVars, execVars,
     cleanVars, Goto, Executing, Destroyed, DestroyFails, Fault, Walks, Destroys
<1> QED
  BY <1>2, <1>3 DEF RunMoves, RunMove

\* The completion receipt is written.
LEMMA CompleteRunRuns ==
  ASSUME TypeOK, RowInv, NEW r \in Runs, CompleteRun(r)
  PROVE  RunMoves
<1>1. Shape
  BY Shapes
<1>2. \A q \in Runs : q # r => Same(q)
  BY <1>1 DEF CompleteRun, Shape, Same, workVars, rowVars, worldVars, execVars,
     cleanVars, Goto, Executing, Refuses, Conclude, End, Terminal, Stopped,
     TypeOK, RowInv, ExecOK
<1>3. Walks(r) \/ Completed(r)
  BY <1>1 DEF CompleteRun, Shape, Same, workVars, rowVars, worldVars, execVars,
     cleanVars, Goto, Executing, Refuses, Conclude, End, Terminal, Stopped,
     TypeOK, RowInv, ExecOK, Walks, Completed
<1> QED
  BY <1>2, <1>3 DEF RunMoves, RunMove

\* The executor's replica stops.
LEMMA CrashRuns ==
  ASSUME TypeOK, NEW r \in Runs, Crash(r)
  PROVE  RunMoves
<1>1. Shape
  BY Shapes
<1>2. \A q \in Runs : q # r => Same(q)
  BY <1>1 DEF Crash, Shape, Same, workVars, rowVars, worldVars, execVars,
     cleanVars, Goto, Executing
<1>3. Walks(r)
  BY <1>1 DEF Crash, Shape, Same, workVars, rowVars, worldVars, execVars,
     cleanVars, Goto, Executing, Walks
<1> QED
  BY <1>2, <1>3 DEF RunMoves, RunMove

\* The item is claimed, answered again, or refused.
LEMMA ClaimWorkRuns ==
  ASSUME TypeOK, RowInv, NEW r \in Runs, ClaimWork(r)
  PROVE  RunMoves
<1>1. Shape /\ WorkTypes
  BY Shapes DEF TypeOK
<1>2. /\ pc[r] \in {"claim", "reclaim"} /\ state[r] # "none"
      /\ UNCHANGED <<state, started, finished, owed, tool, session, grant>>
  BY DEF ClaimWork, RowInv, NoneOK, rowVars
<1>3. /\ \A q \in Runs : q # r => pc'[q] = pc[q]
      /\ pc'[r] \in {"reclaim", "freeze", "refuse"}
      /\ pc'[r] = "freeze" => ClaimExecution(r)
      /\ ClaimExecution(r) \/ UNCHANGED workVars
  BY <1>1, <1>2 DEF ClaimWork, Goto, Resend, Shape
<1>4. CASE Takes(r)
  <2>1. \A q \in Runs : q # r => Same(q)
    BY <1>2, <1>3, <1>4 DEF Same, Takes
  <2>2. TakesItem(r)
    BY <1>2, <1>3, <1>4 DEF TakesItem, Takes
  <2> QED
    BY <2>1, <2>2 DEF RunMoves, RunMove
<1>5. CASE claim' = claim /\ (pc'[r] = "freeze" => claim[r] = "held")
  <2>1. \A q \in Runs : q # r => Same(q)
    BY <1>2, <1>3, <1>5 DEF Same
  <2>2. Walks(r)
    BY <1>2, <1>3, <1>5 DEF Walks, Executing
  <2> QED
    BY <2>1, <2>2 DEF RunMoves, RunMove
<1>6. CASE ClaimExecution(r)
  BY <1>1, <1>4, <1>5, <1>6, ClaimEffect DEF WorkKept
<1>7. CASE UNCHANGED workVars /\ ~ClaimExecution(r)
  BY <1>3, <1>5, <1>7 DEF workVars
<1> QED
  BY <1>3, <1>6, <1>7

\* A cleaner fences the grant of a run that has stopped.
LEMMA RevokeGrantRuns ==
  ASSUME TypeOK, CleanerInv, NEW c \in Cleaners, RevokeGrant(c)
  PROVE  RunMoves
<1>1. Shape /\ job[c] \in Runs /\ Stopped(job[c])
  BY Shapes DEF CleanerInv, CleanerOK, RevokeGrant, CleanStep
<1>2. grant' \in {grant, [grant EXCEPT ![job[c]] = "fenced"]}
  BY DEF RevokeGrant
<1>3. UNCHANGED <<state, started, finished, owed, tool, session, claim, pc>>
  BY DEF RevokeGrant, rowVars, execVars, workVars
<1>4. \A q \in Runs : Same(q) \/ Fenced(q)
  BY <1>1, <1>2, <1>3 DEF Same, Fenced, Shape
<1> QED
  BY <1>4 DEF RunMoves, RunMove

\* A cleaner destroys the workspace.
LEMMA CleanWorkspaceRuns ==
  ASSUME TypeOK, CleanerInv, NEW c \in Cleaners, CleanWorkspace(c)
  PROVE  RunMoves
<1>1. Shape /\ job[c] \in Runs
  BY Shapes DEF CleanerInv, CleanerOK, CleanWorkspace, CleanStep
<1>2. PICK r \in Runs : r = job[c]
  BY <1>1
<1>3. UNCHANGED <<state, started, finished, tool, grant, claim, pc>>
  BY DEF CleanWorkspace, rowVars, execVars, workVars
<1>4. CASE UNCHANGED <<session, owed>>
  BY <1>3, <1>4 DEF Same, RunMoves, RunMove
<1>5. CASE "ws" \in owed[r] /\ (Destroyed(r) \/ DestroyFails(r))
  <2>1. \A q \in Runs : q # r => Same(q)
    BY <1>1, <1>3, <1>5 DEF Same, Shape, Destroyed, DestroyFails
  <2>2. Destroys(r)
    BY <1>1, <1>3, <1>5 DEF Destroys, Shape, Destroyed, DestroyFails
  <2> QED
    BY <2>1, <2>2 DEF RunMoves, RunMove
<1> QED
  BY <1>2, <1>4, <1>5 DEF CleanWorkspace

\* What a cleaner that is not held back tells Work is true.
LEMMA OutcomeTrue ==
  ASSUME TypeOK, CleanerInv, NEW c \in Cleaners, cpc[c] = "release", ~ReleaseBlocked(c)
  PROVE  Truthful(job[c], ReleaseOutcome(c))
<1>1. /\ job[c] \in Runs /\ Stopped(job[c]) /\ errs[c] = {}
      /\ seen[c].state \in RunOutcomes /\ state[job[c]] \in {seen[c].state, "gone"}
      /\ started[job[c]] => finished[job[c]]
      /\ Safe(job[c])
  BY DEF CleanerInv, CleanerOK, ReleaseBlocked
<1>2. "admission_failed" \notin RunOutcomes
  BY DEF RunOutcomes
<1> QED
  BY <1>1, <1>2 DEF Truthful, ReleaseOutcome

\* Work changes the claim of one run and no other.
LEMMA YieldsRuns ==
  ASSUME NEW r \in Runs, NEW o \in Outcomes, Yields(r, o), Truthful(r, o),
         UNCHANGED <<state, started, finished, owed, tool, session, grant, pc>>
  PROVE  RunMoves
BY DEF RunMoves, RunMove, Same, Released, Yields

\* A cleaner gives the Work Item back.
LEMMA ReleaseRuns ==
  ASSUME TypeOK, CleanerInv, NEW c \in Cleaners, Release(c)
  PROVE  RunMoves
<1>1. /\ job[c] \in Runs /\ ReleaseOutcome(c) \in Outcomes /\ WorkTypes
      /\ cpc[c] = "release"
  BY OutcomeTyped DEF Release, CleanStep, TypeOK
<1>2. UNCHANGED <<state, started, finished, owed, tool, session, grant, pc>>
  BY DEF Release, rowVars, execVars
<1>3. CASE claim' = claim
  BY <1>2, <1>3 DEF Same, RunMoves, RunMove
<1>4. CASE ~ReleaseBlocked(c) /\ ReleaseExecution(job[c], ReleaseOutcome(c))
  <2>1. PICK r \in Runs, o \in Outcomes : r = job[c] /\ o = ReleaseOutcome(c)
    BY <1>1
  <2>2. ReleaseExecution(r, o) /\ Truthful(r, o)
    BY <1>1, <1>4, <2>1, OutcomeTrue
  <2> QED
    BY <1>1, <1>2, <1>3, <2>2, ReleaseEffect, YieldsRuns DEF WorkKept
<1> QED
  BY <1>3, <1>4 DEF Release, ReleaseWork, workVars

\* A cleaner acknowledges what it has done.
LEMMA AckRuns ==
  ASSUME TypeOK, CleanerInv, NEW c \in Cleaners, Ack(c)
  PROVE  RunMoves
<1>1. Shape /\ errs[c] \subseteq Obligations
  BY Shapes DEF TypeOK
<1>0. PICK r \in Runs : r = job[c]
  BY DEF CleanerInv, CleanerOK, Ack
<1>2. /\ Stopped(r)
      /\ "grant" \notin errs[c] => grant[r] = "fenced"
      /\ "ws" \notin errs[c] => Safe(r)
      /\ "ws" \in errs[c] => state[r] # "succeeded" /\ session[r] # "none"
      /\ "work" \notin errs[c] => Spent(r)
  BY <1>0 DEF CleanerInv, CleanerOK, Ack
<1>3. UNCHANGED <<state, started, finished, tool, session, grant, claim, pc>>
  BY DEF Ack, worldVars, execVars, workVars
<1>4. CASE owed' = owed
  BY <1>3, <1>4 DEF Same, RunMoves, RunMove
<1>5. CASE owed[r] # {} /\ owed' = [owed EXCEPT ![r] = errs[c]]
  <2>1. \A q \in Runs : q # r => Same(q)
    BY <1>1, <1>3, <1>5 DEF Same, Shape
  <2>2. owed'[r] = errs[c]
    BY <1>1, <1>5 DEF Shape
  <2>3. Acknowledged(r)
    BY <1>1, <1>2, <1>3, <1>5, <2>2 DEF Acknowledged
  <2> QED
    BY <2>1, <2>3 DEF RunMoves, RunMove
<1> QED
  BY <1>0, <1>4, <1>5 DEF Ack

\* A request arrives after its sender gave up.
LEMMA ArrivesRuns ==
  ASSUME TypeOK, LateInv, NEW m \in late, Arrives(m)
  PROVE  RunMoves
<1>1. Shape /\ WorkTypes /\ m[2] \in Runs /\ (m[1] = "release" => m[3] \in Outcomes)
  BY LateTyped, Shapes DEF TypeOK
<1>2. state[m[2]] # "none" /\ (m[1] = "release" => Truthful(m[2], m[3]))
  BY DEF LateInv
<1>3. UNCHANGED <<state, started, finished, owed, tool, session, pc>>
  BY DEF Arrives, rowVars, execVars
<1>4. CASE claim' = claim /\ grant' = grant
  BY <1>3, <1>4 DEF Same, RunMoves, RunMove
<1>5. CASE ClaimExecution(m[2]) /\ grant' = grant
  <2>1. CASE Takes(m[2])
    <3>1. \A q \in Runs : q # m[2] => Same(q)
      BY <1>3, <1>5, <2>1 DEF Takes, Same
    <3>2. TakesItem(m[2])
      BY <1>2, <1>3, <1>5, <2>1 DEF Takes, TakesItem
    <3> QED
      BY <3>1, <3>2 DEF RunMoves, RunMove
  <2> QED
    BY <1>1, <1>4, <1>5, <2>1, ClaimEffect DEF WorkKept
<1>6. CASE IssueIntent(m[2]) /\ claim' = claim
  <2>1. \A q \in Runs : q # m[2] => Same(q)
    BY <1>1, <1>3, <1>6 DEF Shape, IssueIntent, Same
  <2>2. Same(m[2]) \/ Issued(m[2])
    BY <1>1, <1>2, <1>3, <1>6 DEF Shape, IssueIntent, Same, Issued
  <2> QED
    BY <2>1, <2>2 DEF RunMoves, RunMove
<1>7. CASE m[1] = "release" /\ ReleaseExecution(m[2], m[3]) /\ grant' = grant
  BY <1>1, <1>2, <1>3, <1>4, <1>7, ReleaseEffect, YieldsRuns DEF WorkKept
<1> QED
  BY <1>4, <1>5, <1>6, <1>7 DEF Arrives, ReleaseWork, workVars

\* The purge cancels what is active.
LEMMA CancelScopeRuns ==
  ASSUME TypeOK, CancelScope
  PROVE  RunMoves
<1>1. \A r \in Runs : EndedEarly(r) \/ Same(r)
  BY DEF CancelScope, EndedEarly, Same, worldVars, execVars, workVars
<1> QED
  BY <1>1 DEF RunMoves, RunMove

\* The purge deletes what has stopped and owes nothing.
LEMMA DeleteScopeRuns ==
  ASSUME TypeOK, RowInv, DeleteScope
  PROVE  RunMoves
<1>1. \A r \in Runs : state[r] = "none" => tool[r] = FALSE
  BY DEF TypeOK, RowInv, NoneOK
<1>2. \A r \in Runs : Deleted(r) \/ Same(r)
  BY <1>1 DEF DeleteScope, Deleted, Same, worldVars, execVars, workVars
<1> QED
  BY <1>2 DEF RunMoves, RunMove

\* A step that changes no row and asks nothing of anybody.
LEMMA SameRuns ==
  ASSUME UNCHANGED <<state, started, finished, owed, tool, session, grant, claim, pc>>
  PROVE  RunMoves
BY DEF RunMoves, RunMove, Same

\* Every step moves every run along its life.
LEMMA RunStep ==
  ASSUME TypeOK, RowInv, CleanerInv, LateInv, [Next]_vars
  PROVE  RunMoves
<1>1. ASSUME NEW r \in Runs, CreateRun(r) PROVE RunMoves
  BY <1>1, CreateRunRuns
<1>2. ASSUME NEW r \in Runs, CancelRun(r) PROVE RunMoves
  BY <1>2, CancelRunRuns
<1>3. ASSUME NEW r \in Runs, RecoverOrphan(r) PROVE RunMoves
  BY <1>3, RecoverOrphanRuns
<1>4. ASSUME NEW r \in Runs, AdmissionTimesOut(r) PROVE RunMoves
  BY <1>4, AdmissionTimesOutRuns
<1>5. ASSUME NEW r \in Runs, ClaimWork(r) PROVE RunMoves
  BY <1>5, ClaimWorkRuns
<1>6. ASSUME NEW r \in Runs, FreezeWorkItem(r) PROVE RunMoves
  BY <1>6, FreezeWorkItemRuns
<1>7. ASSUME NEW r \in Runs, IssueGrant(r) PROVE RunMoves
  BY <1>7, IssueGrantRuns
<1>8. ASSUME NEW r \in Runs, RefuseRun(r) PROVE RunMoves
  BY <1>8, RefuseRunRuns
<1>9. ASSUME NEW r \in Runs, Acquire(r) PROVE RunMoves
  BY <1>9, AcquireRuns
<1>10. ASSUME NEW r \in Runs, Prepare(r) PROVE RunMoves
  BY <1>10, PrepareRuns
<1>11. ASSUME NEW r \in Runs, RecordSession(r) PROVE RunMoves
  BY <1>11, RecordSessionRuns
<1>12. ASSUME NEW r \in Runs, OpenSession(r) PROVE RunMoves
  BY <1>12, OpenSessionRuns
<1>13. ASSUME NEW r \in Runs, CheckRun(r) PROVE RunMoves
  BY <1>13, CheckRunRuns
<1>14. ASSUME NEW r \in Runs, EndLoop(r) PROVE RunMoves
  BY <1>14, EndLoopRuns
<1>15. ASSUME NEW r \in Runs, RecordCall(r) PROVE RunMoves
  BY <1>15, RecordCallRuns
<1>16. ASSUME NEW r \in Runs, CompleteCall(r) PROVE RunMoves
  BY <1>16, CompleteCallRuns
<1>17. ASSUME NEW r \in Runs, BeforeFinish(r) PROVE RunMoves
  BY <1>17, BeforeFinishRuns
<1>18. ASSUME NEW r \in Runs, CompleteRun(r) PROVE RunMoves
  BY <1>18, CompleteRunRuns
<1>19. ASSUME NEW r \in Runs, Crash(r) PROVE RunMoves
  BY <1>19, CrashRuns
<1>20. ASSUME NEW r \in Runs, LeaseExpires(r) PROVE RunMoves
  BY <1>20, SameRuns DEF LeaseExpires, workVars, rowVars, worldVars, execVars, cleanVars
<1>21. ASSUME NEW c \in Cleaners, NEW r \in Runs, ClaimCleanup(c, r) PROVE RunMoves
  BY <1>21, SameRuns DEF ClaimCleanup, workVars, rowVars, worldVars, execVars, cleanVars
<1>22. ASSUME NEW c \in Cleaners, ReadRun(c) PROVE RunMoves
  BY <1>22, SameRuns DEF ReadRun, workVars, rowVars, worldVars, execVars, cleanVars
<1>23. ASSUME NEW c \in Cleaners, RevokeGrant(c) PROVE RunMoves
  BY <1>23, RevokeGrantRuns
<1>24. ASSUME NEW c \in Cleaners, CleanWorkspace(c) PROVE RunMoves
  BY <1>24, CleanWorkspaceRuns
<1>25. ASSUME NEW c \in Cleaners, Release(c) PROVE RunMoves
  BY <1>25, ReleaseRuns
<1>26. ASSUME NEW c \in Cleaners, Ack(c) PROVE RunMoves
  BY <1>26, AckRuns
<1>27. ASSUME NEW c \in Cleaners, CleanerStops(c) PROVE RunMoves
  BY <1>27, SameRuns DEF CleanerStops, workVars, rowVars, worldVars, execVars, cleanVars
<1>28. ASSUME NEW m \in late, Arrives(m) PROVE RunMoves
  BY <1>28, ArrivesRuns
<1>29. ASSUME FenceScope PROVE RunMoves
  BY <1>29, SameRuns DEF FenceScope, workVars, rowVars, worldVars, execVars, cleanVars
<1>30. ASSUME CancelScope PROVE RunMoves
  BY <1>30, CancelScopeRuns
<1>31. ASSUME DeleteScope PROVE RunMoves
  BY <1>31, DeleteScopeRuns
<1>32. ASSUME NEW i \in Items, EditItem(i) PROVE RunMoves
  BY <1>32, SameRuns DEF EditItem, workVars, rowVars, worldVars, execVars, cleanVars,
     TransitionItem
<1>33. CASE UNCHANGED vars
  BY <1>33, SameRuns DEF vars, workVars, rowVars, worldVars, execVars, cleanVars
<1> QED
  BY <1>1, <1>2, <1>3, <1>4, <1>5, <1>6, <1>7, <1>8, <1>9, <1>10, <1>11, <1>12,
     <1>13, <1>14, <1>15, <1>16, <1>17, <1>18, <1>19, <1>20, <1>21, <1>22, <1>23,
     <1>24, <1>25, <1>26, <1>27, <1>28, <1>29, <1>30, <1>31, <1>32, <1>33 DEF
     Next, Execute, Clean

-----------------------------------------------------------------------------
(* The invariants of a run *)

\* A row that does not exist owns nothing.
LEMMA NoneMove ==
  ASSUME TypeOK, RowInv, NEW r \in Runs, RunMove(r)
  PROVE  NoneOK(r)'
<1>0. /\ NoneOK(r) /\ ExecOK(r) /\ OwedOK(r) /\ SpentOK(r) /\ SuccessOK(r)
      /\ state[r] \in States
  BY DEF RowInv, TypeOK
<1>1. CASE Same(r)
  BY <1>0, <1>1 DEF Same, NoneOK, ExecOK, Active, Stopped, Terminal, States,
     RunOutcomes, Executing
<1>2. CASE Created(r)
  BY <1>0, <1>2 DEF Created, NoneOK, ExecOK, Active, Stopped, Terminal, States,
     RunOutcomes, Executing
<1>3. CASE EndedEarly(r)
  BY <1>0, <1>3 DEF EndedEarly, NoneOK, ExecOK, Active, Stopped, Terminal, States,
     RunOutcomes, Executing
<1>4. CASE Walks(r)
  BY <1>0, <1>4 DEF Walks, NoneOK, ExecOK, Active, Stopped, Terminal, States,
     RunOutcomes, Executing
<1>5. CASE TakesItem(r)
  BY <1>0, <1>5 DEF TakesItem, NoneOK, ExecOK, Active, Stopped, Terminal, States,
     RunOutcomes, Executing
<1>6. CASE Issued(r)
  BY <1>0, <1>6 DEF Issued, NoneOK, ExecOK, Active, Stopped, Terminal, States,
     RunOutcomes, Executing
<1>7. CASE Started(r)
  BY <1>0, <1>7 DEF Started, NoneOK, ExecOK, Active, Stopped, Terminal, States,
     RunOutcomes, Executing
<1>8. CASE Recorded(r)
  BY <1>0, <1>8 DEF Recorded, NoneOK, ExecOK, Active, Stopped, Terminal, States,
     RunOutcomes, Executing
<1>9. CASE Opened(r)
  BY <1>0, <1>9 DEF Opened, NoneOK, ExecOK, Active, Stopped, Terminal, States,
     RunOutcomes, Executing
<1>10. CASE Called(r)
  BY <1>0, <1>10 DEF Called, NoneOK, ExecOK, Active, Stopped, Terminal, States,
     RunOutcomes, Executing
<1>11. CASE Destroys(r)
  BY <1>0, <1>11 DEF Destroys, NoneOK, ExecOK, Active, Stopped, Terminal, States,
     RunOutcomes, Executing
<1>12. CASE Completed(r)
  BY <1>0, <1>12 DEF Completed, NoneOK, ExecOK, Active, Stopped, Terminal, States,
     RunOutcomes, Executing
<1>13. CASE Fenced(r)
  BY <1>0, <1>13 DEF Fenced, NoneOK, ExecOK, Active, Stopped, Terminal, States,
     RunOutcomes, Executing
<1>14. CASE Released(r)
  BY <1>0, <1>14 DEF Released, NoneOK, Truthful, Stopped, RunOutcomes
<1>15. CASE Acknowledged(r)
  BY <1>0, <1>15 DEF Acknowledged, NoneOK, ExecOK, Active, Stopped, Terminal,
     States, RunOutcomes, Executing
<1>16. CASE Deleted(r)
  BY <1>0, <1>16 DEF Deleted, NoneOK, ExecOK, Active, Stopped, Terminal, States,
     RunOutcomes, Executing
<1> QED
  BY <1>1, <1>2, <1>3, <1>4, <1>5, <1>6, <1>7, <1>8, <1>9, <1>10, <1>11, <1>12,
     <1>13, <1>14, <1>15, <1>16 DEF RunMove

\* How far the executor has come.
LEMMA ExecMove ==
  ASSUME TypeOK, RowInv, NEW r \in Runs, RunMove(r)
  PROVE  ExecOK(r)'
<1>0. /\ NoneOK(r) /\ ExecOK(r) /\ OwedOK(r) /\ SpentOK(r) /\ SuccessOK(r)
      /\ state[r] \in States
  BY DEF RowInv, TypeOK
<1>1. CASE Same(r)
  BY <1>0, <1>1 DEF Same, NoneOK, ExecOK, Active, States, RunOutcomes, Executing,
     OwedOK, Outcomes
<1>2. CASE Created(r)
  BY <1>0, <1>2 DEF Created, NoneOK, ExecOK, Active, States, RunOutcomes,
     Executing, OwedOK, Outcomes
<1>3. CASE EndedEarly(r)
  BY <1>0, <1>3 DEF EndedEarly, NoneOK, ExecOK, Active, States, RunOutcomes,
     Executing, OwedOK, Outcomes
<1>4. CASE Walks(r)
  BY <1>0, <1>4 DEF Walks, NoneOK, ExecOK, Active, States, RunOutcomes, Executing,
     OwedOK, Outcomes
<1>5. CASE TakesItem(r)
  BY <1>0, <1>5 DEF TakesItem, NoneOK, ExecOK, Active, States, RunOutcomes,
     Executing, OwedOK, Outcomes
<1>6. CASE Issued(r)
  BY <1>0, <1>6 DEF Issued, NoneOK, ExecOK, Active, States, RunOutcomes,
     Executing, OwedOK, Outcomes
<1>7. CASE Started(r)
  BY <1>0, <1>7 DEF Started, NoneOK, ExecOK, Active, States, RunOutcomes,
     Executing, OwedOK, Outcomes
<1>8. CASE Recorded(r)
  BY <1>0, <1>8 DEF Recorded, NoneOK, ExecOK, Active, States, RunOutcomes,
     Executing, OwedOK, Outcomes
<1>9. CASE Opened(r)
  BY <1>0, <1>9 DEF Opened, NoneOK, ExecOK, Active, States, RunOutcomes,
     Executing, OwedOK, Outcomes
<1>10. CASE Called(r)
  BY <1>0, <1>10 DEF Called, NoneOK, ExecOK, Active, States, RunOutcomes,
     Executing, OwedOK, Outcomes
<1>11. CASE Destroys(r)
  BY <1>0, <1>11 DEF Destroys, NoneOK, ExecOK, Active, States, RunOutcomes,
     Executing, OwedOK, Outcomes
<1>12. CASE Completed(r)
  BY <1>0, <1>12 DEF Completed, NoneOK, ExecOK, Active, States, RunOutcomes,
     Executing, OwedOK, Outcomes
<1>13. CASE Fenced(r)
  BY <1>0, <1>13 DEF Fenced, NoneOK, ExecOK, Active, States, RunOutcomes,
     Executing, OwedOK, Outcomes
<1>14. CASE Released(r)
  BY <1>0, <1>14 DEF Released, NoneOK, ExecOK, Active, States, RunOutcomes,
     Executing, OwedOK, Outcomes
<1>15. CASE Acknowledged(r)
  BY <1>0, <1>15 DEF Acknowledged, NoneOK, ExecOK, Active, States, RunOutcomes,
     Executing, OwedOK, Outcomes
<1>16. CASE Deleted(r)
  BY <1>0, <1>16 DEF Deleted, NoneOK, ExecOK, Active, States, RunOutcomes,
     Executing, OwedOK, Outcomes
<1> QED
  BY <1>1, <1>2, <1>3, <1>4, <1>5, <1>6, <1>7, <1>8, <1>9, <1>10, <1>11, <1>12,
     <1>13, <1>14, <1>15, <1>16 DEF RunMove

\* What is owed.
LEMMA OwedMove ==
  ASSUME TypeOK, RowInv, NEW r \in Runs, RunMove(r)
  PROVE  OwedOK(r)'
<1>0. /\ NoneOK(r) /\ ExecOK(r) /\ OwedOK(r) /\ SpentOK(r) /\ SuccessOK(r)
      /\ state[r] \in States
  BY DEF RowInv, TypeOK
<1>1. CASE Same(r)
  BY <1>0, <1>1 DEF Same, NoneOK, ExecOK, OwedOK, Active, Stopped, Terminal,
     Spent, Safe, States, RunOutcomes, Outcomes
<1>2. CASE Created(r)
  BY <1>0, <1>2 DEF Created, NoneOK, ExecOK, OwedOK, Active, Stopped, Terminal,
     Spent, Safe, States, RunOutcomes, Outcomes
<1>3. CASE EndedEarly(r)
  BY <1>0, <1>3 DEF EndedEarly, NoneOK, ExecOK, OwedOK, Active, Stopped, Terminal,
     Spent, Safe, States, RunOutcomes, Outcomes
<1>4. CASE Walks(r)
  BY <1>0, <1>4 DEF Walks, NoneOK, ExecOK, OwedOK, Active, Stopped, Terminal,
     Spent, Safe, States, RunOutcomes, Outcomes
<1>5. CASE TakesItem(r)
  BY <1>0, <1>5 DEF TakesItem, NoneOK, ExecOK, OwedOK, Active, Stopped, Terminal,
     Spent, Safe, States, RunOutcomes, Outcomes
<1>6. CASE Issued(r)
  BY <1>0, <1>6 DEF Issued, NoneOK, ExecOK, OwedOK, Active, Stopped, Terminal,
     Spent, Safe, States, RunOutcomes, Outcomes
<1>7. CASE Started(r)
  BY <1>0, <1>7 DEF Started, NoneOK, ExecOK, OwedOK, Active, Stopped, Terminal,
     Spent, Safe, States, RunOutcomes, Outcomes
<1>8. CASE Recorded(r)
  BY <1>0, <1>8 DEF Recorded, NoneOK, ExecOK, OwedOK, Active, Stopped, Terminal,
     Spent, Safe, States, RunOutcomes, Outcomes
<1>9. CASE Opened(r)
  BY <1>0, <1>9 DEF Opened, NoneOK, ExecOK, OwedOK, Active, Stopped, Terminal,
     Spent, Safe, States, RunOutcomes, Outcomes
<1>10. CASE Called(r)
  BY <1>0, <1>10 DEF Called, NoneOK, ExecOK, OwedOK, Active, Stopped, Terminal,
     Spent, Safe, States, RunOutcomes, Outcomes
<1>11. CASE Destroys(r)
  BY <1>0, <1>11 DEF Destroys, NoneOK, ExecOK, OwedOK, Active, Stopped, Terminal,
     Spent, Safe, States, RunOutcomes, Outcomes
<1>12. CASE Completed(r)
  BY <1>0, <1>12 DEF Completed, NoneOK, ExecOK, OwedOK, Active, Stopped, Terminal,
     Spent, Safe, States, RunOutcomes, Outcomes
<1>13. CASE Fenced(r)
  BY <1>0, <1>13 DEF Fenced, NoneOK, ExecOK, OwedOK, Active, Stopped, Terminal,
     Spent, Safe, States, RunOutcomes, Outcomes
<1>14. CASE Released(r)
  BY <1>0, <1>14 DEF Released, NoneOK, ExecOK, OwedOK, Active, Stopped, Terminal,
     Spent, Safe, States, RunOutcomes, Outcomes
<1>15. CASE Acknowledged(r)
  BY <1>0, <1>15 DEF Acknowledged, NoneOK, ExecOK, OwedOK, Active, Stopped,
     Terminal, Spent, Safe, States, RunOutcomes, Outcomes
<1>16. CASE Deleted(r)
  BY <1>0, <1>16 DEF Deleted, NoneOK, ExecOK, OwedOK, Active, Stopped, Terminal,
     Spent, Safe, States, RunOutcomes, Outcomes
<1> QED
  BY <1>1, <1>2, <1>3, <1>4, <1>5, <1>6, <1>7, <1>8, <1>9, <1>10, <1>11, <1>12,
     <1>13, <1>14, <1>15, <1>16 DEF RunMove

\* What Work was told.
LEMMA SpentMove ==
  ASSUME TypeOK, RowInv, NEW r \in Runs, RunMove(r)
  PROVE  SpentOK(r)'
<1>0. /\ NoneOK(r) /\ ExecOK(r) /\ OwedOK(r) /\ SpentOK(r) /\ SuccessOK(r)
      /\ state[r] \in States
  BY DEF RowInv, TypeOK
<1>1. CASE Same(r)
  BY <1>0, <1>1 DEF Same, NoneOK, ExecOK, OwedOK, SpentOK, Active, Stopped,
     Terminal, Spent, Safe, States, RunOutcomes, Outcomes, Truthful, Executing
<1>2. CASE Created(r)
  BY <1>0, <1>2 DEF Created, NoneOK, ExecOK, OwedOK, SpentOK, Active, Stopped,
     Terminal, Spent, Safe, States, RunOutcomes, Outcomes, Truthful, Executing
<1>3. CASE EndedEarly(r)
  BY <1>0, <1>3 DEF EndedEarly, NoneOK, ExecOK, OwedOK, SpentOK, Active, Stopped,
     Terminal, Spent, Safe, States, RunOutcomes, Outcomes, Truthful, Executing
<1>4. CASE Walks(r)
  BY <1>0, <1>4 DEF Walks, NoneOK, ExecOK, OwedOK, SpentOK, Active, Stopped,
     Terminal, Spent, Safe, States, RunOutcomes, Outcomes, Truthful, Executing
<1>5. CASE TakesItem(r)
  BY <1>0, <1>5 DEF TakesItem, NoneOK, ExecOK, OwedOK, SpentOK, Active, Stopped,
     Terminal, Spent, Safe, States, RunOutcomes, Outcomes, Truthful, Executing
<1>6. CASE Issued(r)
  BY <1>0, <1>6 DEF Issued, NoneOK, ExecOK, OwedOK, SpentOK, Active, Stopped,
     Terminal, Spent, Safe, States, RunOutcomes, Outcomes, Truthful, Executing
<1>7. CASE Started(r)
  BY <1>0, <1>7 DEF Started, NoneOK, ExecOK, OwedOK, SpentOK, Active, Stopped,
     Terminal, Spent, Safe, States, RunOutcomes, Outcomes, Truthful, Executing
<1>8. CASE Recorded(r)
  BY <1>0, <1>8 DEF Recorded, NoneOK, ExecOK, OwedOK, SpentOK, Active, Stopped,
     Terminal, Spent, Safe, States, RunOutcomes, Outcomes, Truthful, Executing
<1>9. CASE Opened(r)
  BY <1>0, <1>9 DEF Opened, NoneOK, ExecOK, OwedOK, SpentOK, Active, Stopped,
     Terminal, Spent, Safe, States, RunOutcomes, Outcomes, Truthful, Executing
<1>10. CASE Called(r)
  BY <1>0, <1>10 DEF Called, NoneOK, ExecOK, OwedOK, SpentOK, Active, Stopped,
     Terminal, Spent, Safe, States, RunOutcomes, Outcomes, Truthful, Executing
<1>11. CASE Destroys(r)
  BY <1>0, <1>11 DEF Destroys, NoneOK, ExecOK, OwedOK, SpentOK, Active, Stopped,
     Terminal, Spent, Safe, States, RunOutcomes, Outcomes, Truthful, Executing
<1>12. CASE Completed(r)
  BY <1>0, <1>12 DEF Completed, NoneOK, ExecOK, OwedOK, SpentOK, Active, Stopped,
     Terminal, Spent, Safe, States, RunOutcomes, Outcomes, Truthful, Executing
<1>13. CASE Fenced(r)
  BY <1>0, <1>13 DEF Fenced, NoneOK, ExecOK, OwedOK, SpentOK, Active, Stopped,
     Terminal, Spent, Safe, States, RunOutcomes, Outcomes, Truthful, Executing
<1>14. CASE Released(r)
  BY <1>0, <1>14 DEF Released, NoneOK, ExecOK, OwedOK, SpentOK, Active, Stopped,
     Terminal, Spent, Safe, States, RunOutcomes, Outcomes, Truthful, Executing
<1>15. CASE Acknowledged(r)
  BY <1>0, <1>15 DEF Acknowledged, NoneOK, ExecOK, OwedOK, SpentOK, Active,
     Stopped, Terminal, Spent, Safe, States, RunOutcomes, Outcomes, Truthful,
     Executing
<1>16. CASE Deleted(r)
  BY <1>0, <1>16 DEF Deleted, NoneOK, ExecOK, OwedOK, SpentOK, Active, Stopped,
     Terminal, Spent, Safe, States, RunOutcomes, Outcomes, Truthful, Executing
<1> QED
  BY <1>1, <1>2, <1>3, <1>4, <1>5, <1>6, <1>7, <1>8, <1>9, <1>10, <1>11, <1>12,
     <1>13, <1>14, <1>15, <1>16 DEF RunMove

\* A success is complete.
LEMMA SuccessMove ==
  ASSUME TypeOK, RowInv, NEW r \in Runs, RunMove(r)
  PROVE  SuccessOK(r)'
<1>0. /\ NoneOK(r) /\ ExecOK(r) /\ OwedOK(r) /\ SpentOK(r) /\ SuccessOK(r)
      /\ state[r] \in States
  BY DEF RowInv, TypeOK
<1>1. CASE Same(r)
  BY <1>0, <1>1 DEF Same, ExecOK, SuccessOK, Active, Stopped, Terminal,
     RunOutcomes, Executing
<1>2. CASE Created(r)
  BY <1>0, <1>2 DEF Created, ExecOK, SuccessOK, Active, Stopped, Terminal,
     RunOutcomes, Executing
<1>3. CASE EndedEarly(r)
  BY <1>0, <1>3 DEF EndedEarly, ExecOK, SuccessOK, Active, Stopped, Terminal,
     RunOutcomes, Executing
<1>4. CASE Walks(r)
  BY <1>0, <1>4 DEF Walks, ExecOK, SuccessOK, Active, Stopped, Terminal,
     RunOutcomes, Executing
<1>5. CASE TakesItem(r)
  BY <1>0, <1>5 DEF TakesItem, ExecOK, SuccessOK, Active, Stopped, Terminal,
     RunOutcomes, Executing
<1>6. CASE Issued(r)
  BY <1>0, <1>6 DEF Issued, ExecOK, SuccessOK, Active, Stopped, Terminal,
     RunOutcomes, Executing
<1>7. CASE Started(r)
  BY <1>0, <1>7 DEF Started, ExecOK, SuccessOK, Active, Stopped, Terminal,
     RunOutcomes, Executing
<1>8. CASE Recorded(r)
  BY <1>0, <1>8 DEF Recorded, ExecOK, SuccessOK, Active, Stopped, Terminal,
     RunOutcomes, Executing
<1>9. CASE Opened(r)
  BY <1>0, <1>9 DEF Opened, ExecOK, SuccessOK, Active, Stopped, Terminal,
     RunOutcomes, Executing
<1>10. CASE Called(r)
  BY <1>0, <1>10 DEF Called, ExecOK, SuccessOK, Active, Stopped, Terminal,
     RunOutcomes, Executing
<1>11. CASE Destroys(r)
  BY <1>0, <1>11 DEF Destroys, ExecOK, SuccessOK, Active, Stopped, Terminal,
     RunOutcomes, Executing
<1>12. CASE Completed(r)
  BY <1>0, <1>12 DEF Completed, ExecOK, SuccessOK, Active, Stopped, Terminal,
     RunOutcomes, Executing
<1>13. CASE Fenced(r)
  BY <1>0, <1>13 DEF Fenced, ExecOK, SuccessOK, Active, Stopped, Terminal,
     RunOutcomes, Executing
<1>14. CASE Released(r)
  BY <1>0, <1>14 DEF Released, ExecOK, SuccessOK, Active, Stopped, Terminal,
     RunOutcomes, Executing
<1>15. CASE Acknowledged(r)
  BY <1>0, <1>15 DEF Acknowledged, ExecOK, SuccessOK, Active, Stopped, Terminal,
     RunOutcomes, Executing
<1>16. CASE Deleted(r)
  BY <1>0, <1>16 DEF Deleted, ExecOK, SuccessOK, Active, Stopped, Terminal,
     RunOutcomes, Executing
<1> QED
  BY <1>1, <1>2, <1>3, <1>4, <1>5, <1>6, <1>7, <1>8, <1>9, <1>10, <1>11, <1>12,
     <1>13, <1>14, <1>15, <1>16 DEF RunMove

\* Every step keeps the invariant of every run.
LEMMA RowStep ==
  ASSUME TypeOK, RowInv, CleanerInv, LateInv, [Next]_vars
  PROVE  RowInv'
<1>1. RunMoves
  BY RunStep
<1> QED
  BY <1>1, NoneMove, ExecMove, OwedMove, SpentMove, SuccessMove DEF RunMoves, RowInv

-----------------------------------------------------------------------------
(* Cleaners, and requests on their way *)

\* What stays true of a run.
Stable(r) ==
  /\ Stopped(r) => /\ Stopped(r)' /\ state'[r] \in {state[r], "gone"}
                   /\ started'[r] = started[r]
                   /\ Safe(r) => Safe(r)'
  /\ finished[r] => finished'[r]
  /\ grant[r] = "fenced" => grant'[r] = "fenced"
  /\ Spent(r) => Spent(r)'
  /\ session[r] # "none" => session'[r] # "none"
  /\ state[r] # "none" => state'[r] # "none"

\* Every move keeps it.
LEMMA StableMove ==
  ASSUME TypeOK, RowInv, NEW r \in Runs, RunMove(r)
  PROVE  Stable(r)
<1>0. /\ NoneOK(r) /\ ExecOK(r) /\ OwedOK(r) /\ SpentOK(r) /\ SuccessOK(r)
      /\ state[r] \in States
  BY DEF RowInv, TypeOK
<1>1. CASE Same(r)
  BY <1>0, <1>1 DEF Same, Stable, NoneOK, ExecOK, OwedOK, Active, Stopped,
     Terminal, Spent, Safe, States, RunOutcomes, Outcomes, Executing
<1>2. CASE Created(r)
  BY <1>0, <1>2 DEF Created, Stable, NoneOK, ExecOK, OwedOK, Active, Stopped,
     Terminal, Spent, Safe, States, RunOutcomes, Outcomes, Executing
<1>3. CASE EndedEarly(r)
  BY <1>0, <1>3 DEF EndedEarly, Stable, NoneOK, ExecOK, OwedOK, Active, Stopped,
     Terminal, Spent, Safe, States, RunOutcomes, Outcomes, Executing
<1>4. CASE Walks(r)
  BY <1>0, <1>4 DEF Walks, Stable, NoneOK, ExecOK, OwedOK, Active, Stopped,
     Terminal, Spent, Safe, States, RunOutcomes, Outcomes, Executing
<1>5. CASE TakesItem(r)
  BY <1>0, <1>5 DEF TakesItem, Stable, NoneOK, ExecOK, OwedOK, Active, Stopped,
     Terminal, Spent, Safe, States, RunOutcomes, Outcomes, Executing
<1>6. CASE Issued(r)
  BY <1>0, <1>6 DEF Issued, Stable, NoneOK, ExecOK, OwedOK, Active, Stopped,
     Terminal, Spent, Safe, States, RunOutcomes, Outcomes, Executing
<1>7. CASE Started(r)
  BY <1>0, <1>7 DEF Started, Stable, NoneOK, ExecOK, OwedOK, Active, Stopped,
     Terminal, Spent, Safe, States, RunOutcomes, Outcomes, Executing
<1>8. CASE Recorded(r)
  BY <1>0, <1>8 DEF Recorded, Stable, NoneOK, ExecOK, OwedOK, Active, Stopped,
     Terminal, Spent, Safe, States, RunOutcomes, Outcomes, Executing
<1>9. CASE Opened(r)
  BY <1>0, <1>9 DEF Opened, Stable, NoneOK, ExecOK, OwedOK, Active, Stopped,
     Terminal, Spent, Safe, States, RunOutcomes, Outcomes, Executing
<1>10. CASE Called(r)
  BY <1>0, <1>10 DEF Called, Stable, NoneOK, ExecOK, OwedOK, Active, Stopped,
     Terminal, Spent, Safe, States, RunOutcomes, Outcomes, Executing
<1>11. CASE Destroys(r)
  BY <1>0, <1>11 DEF Destroys, Stable, NoneOK, ExecOK, OwedOK, Active, Stopped,
     Terminal, Spent, Safe, States, RunOutcomes, Outcomes, Executing
<1>12. CASE Completed(r)
  BY <1>0, <1>12 DEF Completed, Stable, NoneOK, ExecOK, OwedOK, Active, Stopped,
     Terminal, Spent, Safe, States, RunOutcomes, Outcomes, Executing
<1>13. CASE Fenced(r)
  BY <1>0, <1>13 DEF Fenced, Stable, NoneOK, ExecOK, OwedOK, Active, Stopped,
     Terminal, Spent, Safe, States, RunOutcomes, Outcomes, Executing
<1>14. CASE Released(r)
  <2>1. claim'[r] \in Outcomes /\ claim[r] \notin Outcomes
    BY <1>14 DEF Released, Outcomes, RunOutcomes
  <2> QED
    BY <1>14, <2>1 DEF Released, Stable, Stopped, Spent, Safe
<1>15. CASE Acknowledged(r)
  BY <1>0, <1>15 DEF Acknowledged, Stable, NoneOK, ExecOK, OwedOK, Active,
     Stopped, Terminal, Spent, Safe, States, RunOutcomes, Outcomes, Executing
<1>16. CASE Deleted(r)
  BY <1>0, <1>16 DEF Deleted, Stable, NoneOK, ExecOK, OwedOK, Active, Stopped,
     Terminal, Spent, Safe, States, RunOutcomes, Outcomes, Executing
<1> QED
  BY <1>1, <1>2, <1>3, <1>4, <1>5, <1>6, <1>7, <1>8, <1>9, <1>10, <1>11, <1>12,
     <1>13, <1>14, <1>15, <1>16 DEF RunMove

\* The invariant of a cleaner that takes no part in the step.
LEMMA CleanerKept ==
  ASSUME NEW c \in Cleaners, CleanerOK(c), \A r \in Runs : Stable(r),
         UNCHANGED <<cpc[c], job[c], seen[c], errs[c]>>
  PROVE  CleanerOK(c)'
<1>1. CASE cpc[c] = "idle"
  BY <1>1 DEF CleanerOK
<1>2. CASE cpc[c] # "idle"
  <2>1. PICK r \in Runs : r = job[c]
    BY <1>2 DEF CleanerOK
  <2>2. job'[c] = r /\ Stable(r)
    BY <2>1
  <2> QED
    BY <1>2, <2>1, <2>2 DEF CleanerOK, Stable
<1> QED
  BY <1>1, <1>2

\* A cleaner that gives up remembers nothing.
LEMMA IdleOK ==
  ASSUME TypeOK, NEW c \in Cleaners, Idle(c)
  PROVE  CleanerOK(c)' /\ \A d \in Cleaners : d # c =>
           UNCHANGED <<cpc[d], job[d], seen[d], errs[d]>>
BY DEF TypeOK, Idle, CleanerOK

\* ClaimCleanup: the run has ended.
LEMMA ClaimCleanupOK ==
  ASSUME TypeOK, NEW c \in Cleaners, CleanerOK(c), NEW r \in Runs, ClaimCleanup(c, r)
  PROVE  CleanerOK(c)' /\ \A d \in Cleaners : d # c =>
           UNCHANGED <<cpc[d], job[d], seen[d], errs[d]>>
<1>1. /\ cpc[c] = "idle" /\ Terminal(r) /\ UNCHANGED <<state, seen, errs>>
      /\ cpc' = [cpc EXCEPT ![c] = "read"] /\ job' = [job EXCEPT ![c] = r]
  BY DEF ClaimCleanup, CleanupDue
<1>2. /\ cpc'[c] = "read" /\ job'[c] = r
      /\ \A d \in Cleaners : d # c => cpc'[d] = cpc[d] /\ job'[d] = job[d]
  BY <1>1 DEF TypeOK
<1>3. errs'[c] = {} /\ Stopped(r)'
  BY <1>1 DEF CleanerOK, Terminal, Stopped
<1> QED
  BY <1>1, <1>2, <1>3 DEF CleanerOK

\* The run is read after it was claimed.
LEMMA ReadRunOK ==
  ASSUME TypeOK, RowInv, NEW c \in Cleaners, CleanerOK(c), ReadRun(c)
  PROVE  CleanerOK(c)' /\ \A d \in Cleaners : d # c =>
           UNCHANGED <<cpc[d], job[d], seen[d], errs[d]>>
<1>1. PICK r \in Runs : r = job[c]
  BY DEF ReadRun, CleanerOK
<1>2. CASE Idle(c)
  BY <1>2, IdleOK
<1>3. CASE ~Idle(c)
  <2>1. /\ Terminal(r) /\ UNCHANGED <<job, errs>> /\ cpc[c] = "read"
        /\ cpc' = [cpc EXCEPT ![c] = "revoke"]
        /\ seen' = [seen EXCEPT ![c] = [owed |-> owed[r], finished |-> finished[r],
                                        state |-> state[r]]]
        /\ UNCHANGED <<state, finished, grant, session, claim>>
    BY <1>1, <1>3 DEF ReadRun, rowVars, worldVars, workVars
  <2>2. /\ cpc'[c] = "revoke" /\ job'[c] = r /\ errs'[c] = {}
        /\ seen'[c].owed = owed[r] /\ seen'[c].finished = finished[r]
        /\ seen'[c].state = state[r]
        /\ \A d \in Cleaners : d # c => cpc'[d] = cpc[d] /\ seen'[d] = seen[d]
    BY <1>1, <2>1 DEF TypeOK, CleanerOK
  <2>3. /\ Stopped(r)
        /\ "grant" \notin owed[r] => grant[r] = "fenced"
        /\ "ws" \notin owed[r] => Safe(r)
        /\ "work" \notin owed[r] => Spent(r)
    BY <2>1 DEF RowInv, OwedOK, Stopped, Terminal
  <2>4. Stopped(r)' /\ (Safe(r) => Safe(r)') /\ (Spent(r) => Spent(r)')
    BY <2>1, <2>3 DEF Stopped, Safe, Spent
  <2> QED
    BY <2>1, <2>2, <2>3, <2>4 DEF CleanerOK, Terminal
<1> QED
  BY <1>2, <1>3

\* The grant is fenced, or its cancellation is recorded as failed.
LEMMA RevokeGrantOK ==
  ASSUME TypeOK, NEW c \in Cleaners, CleanerOK(c), \A r \in Runs : Stable(r),
         RevokeGrant(c)
  PROVE  CleanerOK(c)' /\ \A d \in Cleaners : d # c =>
           UNCHANGED <<cpc[d], job[d], seen[d], errs[d]>>
<1>1. PICK r \in Runs : r = job[c]
  BY DEF RevokeGrant, CleanStep, CleanerOK
<1>2. /\ cpc[c] = "revoke" /\ cpc'[c] = "workspace" /\ job' = job /\ seen' = seen
      /\ \A d \in Cleaners : d # c => cpc'[d] = cpc[d]
  BY DEF RevokeGrant, CleanStep, TypeOK
<1>3. /\ \A d \in Cleaners : d # c => errs'[d] = errs[d]
      /\ \/ errs'[c] = {} /\ ("grant" \in seen[c].owed => grant'[r] = "fenced")
         \/ errs'[c] = {"grant"}
  BY <1>1, <1>2 DEF RevokeGrant, Failed, TypeOK, CleanerOK
<1>4. job'[c] = r /\ Stable(r)
  BY <1>1, <1>2
<1> QED
  BY <1>1, <1>2, <1>3, <1>4 DEF CleanerOK, Stable

\* The workspace is gone, or its destruction is recorded as failed.
LEMMA CleanWorkspaceOK ==
  ASSUME TypeOK, RowInv, NEW c \in Cleaners, CleanerOK(c), \A r \in Runs : Stable(r),
         CleanWorkspace(c)
  PROVE  CleanerOK(c)' /\ \A d \in Cleaners : d # c =>
           UNCHANGED <<cpc[d], job[d], seen[d], errs[d]>>
<1>1. PICK r \in Runs : r = job[c]
  BY DEF CleanWorkspace, CleanStep, CleanerOK
<1>2. /\ cpc[c] = "workspace" /\ cpc'[c] = "release" /\ job' = job /\ seen' = seen
      /\ \A d \in Cleaners : d # c => cpc'[d] = cpc[d]
      /\ state' = state
  BY DEF CleanWorkspace, CleanStep, TypeOK
<1>3. job'[c] = r /\ Stable(r)
  BY <1>1, <1>2
<1>4. /\ "ws" \notin owed[r] => Safe(r)
      /\ "ws" \in owed[r] => session[r] # "none" /\ state[r] # "succeeded"
      /\ "ws" \notin seen[c].owed => Safe(r)
      /\ Stopped(r)
  BY <1>1, <1>2 DEF RowInv, OwedOK, SuccessOK, CleanerOK
<1>5. \A d \in Cleaners : d # c => errs'[d] = errs[d]
  BY DEF CleanWorkspace, Failed, TypeOK
<1>6. \/ errs'[c] = errs[c] /\ Safe(r)'
      \/ errs'[c] = errs[c] \cup {"ws"} /\ "ws" \in owed[r]
  <2>1. CASE "ws" \notin seen[c].owed \cap owed[r] /\ errs' = errs
    BY <1>3, <1>4, <2>1 DEF Stable
  <2>2. CASE Destroyed(r) /\ errs' = errs
    <3>1. session'[r] = "ended"
      BY <2>2 DEF Destroyed, TypeOK
    <3> QED
      BY <2>2, <3>1 DEF Safe
  <2>3. CASE "ws" \in owed[r] /\ Failed(c, "ws")
    BY <2>3 DEF Failed, TypeOK
  <2> QED
    BY <1>1, <2>1, <2>2, <2>3 DEF CleanWorkspace
<1> QED
  BY <1>1, <1>2, <1>3, <1>4, <1>5, <1>6 DEF CleanerOK, Stable

\* The Work Item is given back, or its release is recorded as failed.
LEMMA ReleaseOK ==
  ASSUME TypeOK, CleanerInv, NEW c \in Cleaners, CleanerOK(c), \A r \in Runs : Stable(r),
         Release(c)
  PROVE  CleanerOK(c)' /\ \A d \in Cleaners : d # c =>
           UNCHANGED <<cpc[d], job[d], seen[d], errs[d]>>
<1>1. /\ cpc[c] = "release" /\ cpc'[c] = "ack" /\ job' = job /\ seen' = seen
      /\ \A d \in Cleaners : d # c => cpc'[d] = cpc[d]
  BY DEF Release, CleanStep, TypeOK
<1>2. PICK r \in Runs, o \in Outcomes : r = job[c] /\ o = ReleaseOutcome(c)
  BY <1>1, OutcomeTyped
<1>3. job'[c] = r /\ Stable(r)
  BY <1>1, <1>2
<1>4. /\ \A d \in Cleaners : d # c => errs'[d] = errs[d]
      /\ errs'[c] \in {errs[c], errs[c] \cup {"work"}}
  BY DEF Release, Failed, TypeOK
<1>5. "work" \in errs'[c] \/ Spent(r)'
  <2>1. CASE "work" \notin seen[c].owed
    BY <1>1, <1>2, <1>3, <2>1 DEF CleanerOK, Stable
  <2>2. CASE ReleaseExecution(r, o)
    <3>1. Yields(r, o) \/ (WorkKept /\ claim[r] = o)
      BY <1>2, <2>2, ReleaseEffect DEF TypeOK
    <3> QED
      BY <3>1 DEF Yields, WorkKept, Spent
  <2>3. CASE Failed(c, "work")
    BY <2>3 DEF Failed, TypeOK
  <2> QED
    BY <1>2, <2>1, <2>2, <2>3 DEF Release
<1> QED
  BY <1>1, <1>2, <1>3, <1>4, <1>5 DEF CleanerOK, Stable

\* Every cleaner's account stays true.
LEMMA CleanerStep ==
  ASSUME TypeOK, RowInv, CleanerInv, LateInv, [Next]_vars
  PROVE  CleanerInv'
<1>0. (\A r \in Runs : Stable(r)) /\ (\A c \in Cleaners : CleanerOK(c))
  BY RunStep, StableMove DEF RunMoves, CleanerInv
<1>1. ASSUME NEW r \in Runs, CreateRun(r) PROVE CleanerInv'
  BY <1>1, <1>0, CleanerKept DEF CreateRun, cleanVars, CleanerInv
<1>2. ASSUME NEW r \in Runs, CancelRun(r) PROVE CleanerInv'
  BY <1>2, <1>0, CleanerKept DEF CancelRun, cleanVars, CleanerInv
<1>3. ASSUME NEW r \in Runs, RecoverOrphan(r) PROVE CleanerInv'
  BY <1>3, <1>0, CleanerKept DEF RecoverOrphan, cleanVars, CleanerInv
<1>4. ASSUME NEW r \in Runs, AdmissionTimesOut(r) PROVE CleanerInv'
  BY <1>4, <1>0, CleanerKept DEF AdmissionTimesOut, cleanVars, CleanerInv
<1>5. ASSUME NEW r \in Runs, ClaimWork(r) PROVE CleanerInv'
  BY <1>5, <1>0, CleanerKept DEF ClaimWork, cleanVars, CleanerInv
<1>6. ASSUME NEW r \in Runs, FreezeWorkItem(r) PROVE CleanerInv'
  BY <1>6, <1>0, CleanerKept DEF FreezeWorkItem, cleanVars, CleanerInv
<1>7. ASSUME NEW r \in Runs, IssueGrant(r) PROVE CleanerInv'
  BY <1>7, <1>0, CleanerKept DEF IssueGrant, cleanVars, CleanerInv
<1>8. ASSUME NEW r \in Runs, RefuseRun(r) PROVE CleanerInv'
  BY <1>8, <1>0, CleanerKept DEF RefuseRun, cleanVars, CleanerInv
<1>9. ASSUME NEW r \in Runs, Acquire(r) PROVE CleanerInv'
  BY <1>9, <1>0, CleanerKept DEF Acquire, cleanVars, CleanerInv
<1>10. ASSUME NEW r \in Runs, Prepare(r) PROVE CleanerInv'
  BY <1>10, <1>0, CleanerKept DEF Prepare, cleanVars, CleanerInv
<1>11. ASSUME NEW r \in Runs, RecordSession(r) PROVE CleanerInv'
  BY <1>11, <1>0, CleanerKept DEF RecordSession, cleanVars, CleanerInv
<1>12. ASSUME NEW r \in Runs, OpenSession(r) PROVE CleanerInv'
  BY <1>12, <1>0, CleanerKept DEF OpenSession, cleanVars, CleanerInv
<1>13. ASSUME NEW r \in Runs, CheckRun(r) PROVE CleanerInv'
  BY <1>13, <1>0, CleanerKept DEF CheckRun, cleanVars, CleanerInv
<1>14. ASSUME NEW r \in Runs, EndLoop(r) PROVE CleanerInv'
  BY <1>14, <1>0, CleanerKept DEF EndLoop, cleanVars, CleanerInv
<1>15. ASSUME NEW r \in Runs, RecordCall(r) PROVE CleanerInv'
  BY <1>15, <1>0, CleanerKept DEF RecordCall, cleanVars, CleanerInv
<1>16. ASSUME NEW r \in Runs, CompleteCall(r) PROVE CleanerInv'
  BY <1>16, <1>0, CleanerKept DEF CompleteCall, cleanVars, CleanerInv
<1>17. ASSUME NEW r \in Runs, BeforeFinish(r) PROVE CleanerInv'
  BY <1>17, <1>0, CleanerKept DEF BeforeFinish, cleanVars, CleanerInv
<1>18. ASSUME NEW r \in Runs, CompleteRun(r) PROVE CleanerInv'
  BY <1>18, <1>0, CleanerKept DEF CompleteRun, cleanVars, CleanerInv
<1>19. ASSUME NEW r \in Runs, Crash(r) PROVE CleanerInv'
  BY <1>19, <1>0, CleanerKept DEF Crash, cleanVars, CleanerInv
<1>20. ASSUME NEW r \in Runs, LeaseExpires(r) PROVE CleanerInv'
  BY <1>20, <1>0, CleanerKept DEF LeaseExpires, cleanVars, CleanerInv
<1>21. ASSUME NEW c \in Cleaners, NEW r \in Runs, ClaimCleanup(c, r) PROVE CleanerInv'
  BY <1>21, <1>0, CleanerKept, ClaimCleanupOK DEF CleanerInv
<1>22. ASSUME NEW c \in Cleaners, ReadRun(c) PROVE CleanerInv'
  BY <1>22, <1>0, CleanerKept, ReadRunOK DEF CleanerInv
<1>23. ASSUME NEW c \in Cleaners, RevokeGrant(c) PROVE CleanerInv'
  BY <1>23, <1>0, CleanerKept, RevokeGrantOK DEF CleanerInv
<1>24. ASSUME NEW c \in Cleaners, CleanWorkspace(c) PROVE CleanerInv'
  BY <1>24, <1>0, CleanerKept, CleanWorkspaceOK DEF CleanerInv
<1>25. ASSUME NEW c \in Cleaners, Release(c) PROVE CleanerInv'
  BY <1>25, <1>0, CleanerKept, ReleaseOK DEF CleanerInv
<1>26. ASSUME NEW c \in Cleaners, Ack(c) PROVE CleanerInv'
  BY <1>26, <1>0, CleanerKept, IdleOK DEF Ack, CleanerInv
<1>27. ASSUME NEW c \in Cleaners, CleanerStops(c) PROVE CleanerInv'
  BY <1>27, <1>0, CleanerKept, IdleOK DEF CleanerStops, CleanerInv
<1>28. ASSUME NEW m \in late, Arrives(m) PROVE CleanerInv'
  BY <1>28, <1>0, CleanerKept DEF Arrives, cleanVars, CleanerInv
<1>29. ASSUME FenceScope PROVE CleanerInv'
  BY <1>29, <1>0, CleanerKept DEF FenceScope, cleanVars, CleanerInv
<1>30. ASSUME CancelScope PROVE CleanerInv'
  BY <1>30, <1>0, CleanerKept DEF CancelScope, cleanVars, CleanerInv
<1>31. ASSUME DeleteScope PROVE CleanerInv'
  BY <1>31, <1>0, CleanerKept DEF DeleteScope, cleanVars, CleanerInv
<1>32. ASSUME NEW i \in Items, EditItem(i) PROVE CleanerInv'
  BY <1>32, <1>0, CleanerKept DEF EditItem, cleanVars, CleanerInv
<1>33. CASE UNCHANGED vars
  BY <1>0, <1>33, CleanerKept DEF vars, cleanVars, CleanerInv
<1> QED
  BY <1>1, <1>2, <1>3, <1>4, <1>5, <1>6, <1>7, <1>8, <1>9, <1>10, <1>11, <1>12,
     <1>13, <1>14, <1>15, <1>16, <1>17, <1>18, <1>19, <1>20, <1>21, <1>22, <1>23,
     <1>24, <1>25, <1>26, <1>27, <1>28, <1>29, <1>30, <1>31, <1>32, <1>33 DEF
     Next, Execute, Clean

\* What is true of a run that has stopped stays true.
LEMMA TruthKept ==
  ASSUME NEW r \in Runs, NEW o, Truthful(r, o), Stable(r)
  PROVE  Truthful(r, o)'
BY DEF Truthful, Stable

\* A request that goes on its way.
NewRequest(m) ==
  /\ m[2] \in Runs /\ state[m[2]] # "none"
  /\ \/ m = <<"claim", m[2], "none">>
     \/ m = <<"issue", m[2], "none">>
     \/ m = <<"release", m[2], m[3]>> /\ m[3] \in Outcomes /\ Truthful(m[2], m[3])

LateMoves == \A m \in late' : m \in late \/ NewRequest(m)

\* Nothing untrue is asked for.
LEMMA LateMovesStep ==
  ASSUME TypeOK, RowInv, CleanerInv, [Next]_vars
  PROVE  LateMoves
<1>1. ASSUME NEW r \in Runs, CreateRun(r) PROVE LateMoves
  BY <1>1 DEF CreateRun, worldVars, LateMoves
<1>2. ASSUME NEW r \in Runs, CancelRun(r) PROVE LateMoves
  BY <1>2 DEF CancelRun, worldVars, LateMoves
<1>3. ASSUME NEW r \in Runs, RecoverOrphan(r) PROVE LateMoves
  BY <1>3 DEF RecoverOrphan, worldVars, LateMoves
<1>4. ASSUME NEW r \in Runs, AdmissionTimesOut(r) PROVE LateMoves
  BY <1>4 DEF AdmissionTimesOut, worldVars, LateMoves
<1>5. ASSUME NEW r \in Runs, ClaimWork(r) PROVE LateMoves
  <2>1. state[r] # "none"
    BY <1>5 DEF ClaimWork, RowInv, NoneOK
  <2> QED
    BY <1>5, <2>1 DEF ClaimWork, LateMoves, NewRequest
<1>6. ASSUME NEW r \in Runs, FreezeWorkItem(r) PROVE LateMoves
  BY <1>6 DEF FreezeWorkItem, worldVars, LateMoves
<1>7. ASSUME NEW r \in Runs, IssueGrant(r) PROVE LateMoves
  <2>1. state[r] # "none"
    BY <1>7 DEF IssueGrant, RowInv, NoneOK
  <2> QED
    BY <1>7, <2>1 DEF IssueGrant, LateMoves, NewRequest
<1>8. ASSUME NEW r \in Runs, RefuseRun(r) PROVE LateMoves
  BY <1>8 DEF RefuseRun, worldVars, LateMoves
<1>9. ASSUME NEW r \in Runs, Acquire(r) PROVE LateMoves
  BY <1>9 DEF Acquire, worldVars, LateMoves
<1>10. ASSUME NEW r \in Runs, Prepare(r) PROVE LateMoves
  BY <1>10 DEF Prepare, worldVars, LateMoves
<1>11. ASSUME NEW r \in Runs, RecordSession(r) PROVE LateMoves
  BY <1>11 DEF RecordSession, worldVars, LateMoves
<1>12. ASSUME NEW r \in Runs, OpenSession(r) PROVE LateMoves
  BY <1>12 DEF OpenSession, worldVars, LateMoves
<1>13. ASSUME NEW r \in Runs, CheckRun(r) PROVE LateMoves
  BY <1>13 DEF CheckRun, worldVars, LateMoves
<1>14. ASSUME NEW r \in Runs, EndLoop(r) PROVE LateMoves
  BY <1>14 DEF EndLoop, worldVars, LateMoves
<1>15. ASSUME NEW r \in Runs, RecordCall(r) PROVE LateMoves
  BY <1>15 DEF RecordCall, worldVars, LateMoves
<1>16. ASSUME NEW r \in Runs, CompleteCall(r) PROVE LateMoves
  BY <1>16 DEF CompleteCall, worldVars, LateMoves
<1>17. ASSUME NEW r \in Runs, BeforeFinish(r) PROVE LateMoves
  BY <1>17 DEF BeforeFinish, worldVars, LateMoves
<1>18. ASSUME NEW r \in Runs, CompleteRun(r) PROVE LateMoves
  BY <1>18 DEF CompleteRun, worldVars, LateMoves
<1>19. ASSUME NEW r \in Runs, Crash(r) PROVE LateMoves
  BY <1>19 DEF Crash, worldVars, LateMoves
<1>20. ASSUME NEW r \in Runs, LeaseExpires(r) PROVE LateMoves
  BY <1>20 DEF LeaseExpires, worldVars, LateMoves
<1>21. ASSUME NEW c \in Cleaners, NEW r \in Runs, ClaimCleanup(c, r) PROVE LateMoves
  BY <1>21 DEF ClaimCleanup, worldVars, LateMoves
<1>22. ASSUME NEW c \in Cleaners, ReadRun(c) PROVE LateMoves
  BY <1>22 DEF ReadRun, worldVars, LateMoves
<1>23. ASSUME NEW c \in Cleaners, RevokeGrant(c) PROVE LateMoves
  BY <1>23 DEF RevokeGrant, worldVars, LateMoves
<1>24. ASSUME NEW c \in Cleaners, CleanWorkspace(c) PROVE LateMoves
  BY <1>24 DEF CleanWorkspace, worldVars, LateMoves
<1>25. ASSUME NEW c \in Cleaners, Release(c) PROVE LateMoves
  <2>1. PICK r \in Runs, o \in Outcomes : r = job[c] /\ o = ReleaseOutcome(c)
    BY <1>25, OutcomeTyped DEF Release, CleanStep
  <2>2. CASE late' = late
    BY <2>2 DEF LateMoves
  <2>3. CASE ~ReleaseBlocked(c) /\ late' = late \cup {<<"release", r, o>>}
    <3>1. Truthful(r, o)
      BY <1>25, <2>1, <2>3, OutcomeTrue DEF Release, CleanStep
    <3>2. state[r] # "none"
      BY <3>1 DEF Truthful, Stopped, RunOutcomes
    <3> QED
      BY <2>3, <3>1, <3>2 DEF LateMoves, NewRequest
  <2> QED
    BY <1>25, <2>1, <2>2, <2>3 DEF Release
<1>26. ASSUME NEW c \in Cleaners, Ack(c) PROVE LateMoves
  BY <1>26 DEF Ack, worldVars, LateMoves
<1>27. ASSUME NEW c \in Cleaners, CleanerStops(c) PROVE LateMoves
  BY <1>27 DEF CleanerStops, worldVars, LateMoves
<1>28. ASSUME NEW m \in late, Arrives(m) PROVE LateMoves
  BY <1>28 DEF Arrives, worldVars, LateMoves
<1>29. ASSUME FenceScope PROVE LateMoves
  BY <1>29 DEF FenceScope, worldVars, LateMoves
<1>30. ASSUME CancelScope PROVE LateMoves
  BY <1>30 DEF CancelScope, worldVars, LateMoves
<1>31. ASSUME DeleteScope PROVE LateMoves
  BY <1>31 DEF DeleteScope, worldVars, LateMoves
<1>32. ASSUME NEW i \in Items, EditItem(i) PROVE LateMoves
  BY <1>32 DEF EditItem, worldVars, LateMoves
<1>33. CASE UNCHANGED vars
  BY <1>33 DEF vars, worldVars, LateMoves
<1> QED
  BY <1>1, <1>2, <1>3, <1>4, <1>5, <1>6, <1>7, <1>8, <1>9, <1>10, <1>11, <1>12,
     <1>13, <1>14, <1>15, <1>16, <1>17, <1>18, <1>19, <1>20, <1>21, <1>22, <1>23,
     <1>24, <1>25, <1>26, <1>27, <1>28, <1>29, <1>30, <1>31, <1>32, <1>33 DEF
     Next, Execute, Clean

\* A request on its way may arrive at any time.
LEMMA LateStep ==
  ASSUME TypeOK, RowInv, CleanerInv, LateInv, [Next]_vars
  PROVE  LateInv'
<1>1. \A r \in Runs : Stable(r)
  BY RunStep, StableMove DEF RunMoves
<1>2. LateMoves
  BY LateMovesStep
<1> SUFFICES ASSUME NEW m \in late'
             PROVE  state'[m[2]] # "none" /\ (m[1] = "release" => Truthful(m[2], m[3])')
  BY DEF LateInv
<1>3. m[2] \in Runs /\ state[m[2]] # "none" /\ (m[1] = "release" => Truthful(m[2], m[3]))
  BY <1>2, LateTyped DEF LateMoves, NewRequest, LateInv
<1> QED
  BY <1>1, <1>3, TruthKept DEF Stable

-----------------------------------------------------------------------------
(* Types *)

RowTypes ==
  /\ state \in [Runs -> States]
  /\ started \in [Runs -> BOOLEAN] /\ finished \in [Runs -> BOOLEAN]
  /\ owed \in [Runs -> SUBSET Obligations]
  /\ tool \in [Runs -> BOOLEAN]

SessionTypes ==
  session \in [Runs -> Sessions] /\ grant \in [Runs -> {"none", "live", "fenced"}]

ExecTypes == pc \in [Runs -> Steps] /\ want \in [Runs -> RunOutcomes]

CleanTypes ==
  /\ holder \in [Runs -> Cleaners \cup {None}] /\ leased \in [Runs -> BOOLEAN]
  /\ cpc \in [Cleaners -> CleanSteps]
  /\ job \in [Cleaners -> Runs \cup {None}]
  /\ seen \in [Cleaners -> [owed : SUBSET Obligations, finished : BOOLEAN,
                            state : RunOutcomes \cup {"none"}]]
  /\ errs \in [Cleaners -> SUBSET Obligations]

CountTypes == purge \in {"no", "fenced", "cancelled", "done"} /\ faults \in 0..MaxFaults

\* Rows keep their types.
LEMMA RowTyped ==
  ASSUME TypeOK, CleanerInv, [Next]_vars
  PROVE  RowTypes'
<1>0. RowTypes
  BY DEF TypeOK, RowTypes
<1>1. ASSUME NEW r \in Runs, CreateRun(r) PROVE RowTypes'
  BY <1>1, <1>0 DEF CreateRun, rowVars, States, Obligations, RowTypes
<1>2. ASSUME NEW r \in Runs, CancelRun(r) PROVE RowTypes'
  BY <1>2, <1>0 DEF CancelRun, rowVars, End, RunOutcomes, States, Obligations,
     RowTypes
<1>3. ASSUME NEW r \in Runs, RecoverOrphan(r) PROVE RowTypes'
  BY <1>3, <1>0 DEF RecoverOrphan, rowVars, End, RunOutcomes, States, Obligations,
     RowTypes
<1>4. ASSUME NEW r \in Runs, AdmissionTimesOut(r) PROVE RowTypes'
  BY <1>4, <1>0 DEF AdmissionTimesOut, rowVars, RowTypes
<1>5. ASSUME NEW r \in Runs, ClaimWork(r) PROVE RowTypes'
  BY <1>5, <1>0 DEF ClaimWork, rowVars, RowTypes
<1>6. ASSUME NEW r \in Runs, FreezeWorkItem(r) PROVE RowTypes'
  BY <1>6, <1>0 DEF FreezeWorkItem, rowVars, RowTypes
<1>7. ASSUME NEW r \in Runs, IssueGrant(r) PROVE RowTypes'
  BY <1>7, <1>0 DEF IssueGrant, rowVars, RowTypes
<1>8. ASSUME NEW r \in Runs, RefuseRun(r) PROVE RowTypes'
  BY <1>8, <1>0 DEF RefuseRun, rowVars, End, RunOutcomes, States, Obligations,
     RowTypes
<1>9. ASSUME NEW r \in Runs, Acquire(r) PROVE RowTypes'
  BY <1>9, <1>0 DEF Acquire, rowVars, States, RowTypes
<1>10. ASSUME NEW r \in Runs, Prepare(r) PROVE RowTypes'
  BY <1>10, <1>0 DEF Prepare, rowVars, RowTypes
<1>11. ASSUME NEW r \in Runs, RecordSession(r) PROVE RowTypes'
  BY <1>11, <1>0 DEF RecordSession, rowVars, Obligations, RowTypes
<1>12. ASSUME NEW r \in Runs, OpenSession(r) PROVE RowTypes'
  BY <1>12, <1>0 DEF OpenSession, rowVars, RowTypes
<1>13. ASSUME NEW r \in Runs, CheckRun(r) PROVE RowTypes'
  BY <1>13, <1>0 DEF CheckRun, rowVars, RowTypes
<1>14. ASSUME NEW r \in Runs, EndLoop(r) PROVE RowTypes'
  BY <1>14, <1>0 DEF EndLoop, rowVars, RowTypes
<1>15. ASSUME NEW r \in Runs, RecordCall(r) PROVE RowTypes'
  BY <1>15, <1>0 DEF RecordCall, rowVars, RowTypes
<1>16. ASSUME NEW r \in Runs, CompleteCall(r) PROVE RowTypes'
  BY <1>16, <1>0 DEF CompleteCall, rowVars, RowTypes
<1>17. ASSUME NEW r \in Runs, BeforeFinish(r) PROVE RowTypes'
  BY <1>17, <1>0 DEF BeforeFinish, rowVars, Destroyed, DestroyFails, Obligations,
     RowTypes
<1>18. ASSUME NEW r \in Runs, CompleteRun(r) PROVE RowTypes'
  <2>1. want[r] \in States
    BY DEF TypeOK, States
  <2>2. UNCHANGED <<started, tool>> /\ finished' \in [Runs -> BOOLEAN]
    BY <1>18, <1>0 DEF CompleteRun, Conclude, RowTypes
  <2>3. state' \in [Runs -> States]
    BY <1>18, <1>0, <2>1 DEF CompleteRun, Conclude, End, RowTypes
  <2>4. owed' \in [Runs -> SUBSET Obligations]
    BY <1>18, <1>0 DEF CompleteRun, Conclude, End, RowTypes, Obligations
  <2> QED
    BY <1>0, <2>2, <2>3, <2>4 DEF RowTypes
<1>19. ASSUME NEW r \in Runs, Crash(r) PROVE RowTypes'
  BY <1>19, <1>0 DEF Crash, rowVars, RowTypes
<1>20. ASSUME NEW r \in Runs, LeaseExpires(r) PROVE RowTypes'
  BY <1>20, <1>0 DEF LeaseExpires, rowVars, RowTypes
<1>21. ASSUME NEW c \in Cleaners, NEW r \in Runs, ClaimCleanup(c, r) PROVE RowTypes'
  BY <1>21, <1>0 DEF ClaimCleanup, rowVars, RowTypes
<1>22. ASSUME NEW c \in Cleaners, ReadRun(c) PROVE RowTypes'
  BY <1>22, <1>0 DEF ReadRun, rowVars, RowTypes
<1>23. ASSUME NEW c \in Cleaners, RevokeGrant(c) PROVE RowTypes'
  BY <1>23, <1>0 DEF RevokeGrant, rowVars, RowTypes
<1>24. ASSUME NEW c \in Cleaners, CleanWorkspace(c) PROVE RowTypes'
  BY <1>24, <1>0 DEF CleanWorkspace, rowVars, Destroyed, DestroyFails, Obligations,
     RowTypes
<1>25. ASSUME NEW c \in Cleaners, Release(c) PROVE RowTypes'
  BY <1>25, <1>0 DEF Release, rowVars, RowTypes
<1>26. ASSUME NEW c \in Cleaners, Ack(c) PROVE RowTypes'
  BY <1>26, <1>0 DEF Ack, RowTypes, TypeOK
<1>27. ASSUME NEW c \in Cleaners, CleanerStops(c) PROVE RowTypes'
  BY <1>27, <1>0 DEF CleanerStops, rowVars, RowTypes
<1>28. ASSUME NEW m \in late, Arrives(m) PROVE RowTypes'
  BY <1>28, <1>0 DEF Arrives, rowVars, RowTypes
<1>29. ASSUME FenceScope PROVE RowTypes'
  BY <1>29, <1>0 DEF FenceScope, rowVars, RowTypes
<1>30. ASSUME CancelScope PROVE RowTypes'
  BY <1>30, <1>0 DEF CancelScope, rowVars, States, RunOutcomes, Obligations,
     RowTypes
<1>31. ASSUME DeleteScope PROVE RowTypes'
  BY <1>31, <1>0 DEF DeleteScope, rowVars, States, RowTypes
<1>32. ASSUME NEW i \in Items, EditItem(i) PROVE RowTypes'
  BY <1>32, <1>0 DEF EditItem, rowVars, RowTypes
<1>33. CASE UNCHANGED vars
  BY <1>0, <1>33 DEF vars, rowVars, RowTypes
<1> QED
  BY <1>1, <1>2, <1>3, <1>4, <1>5, <1>6, <1>7, <1>8, <1>9, <1>10, <1>11, <1>12,
     <1>13, <1>14, <1>15, <1>16, <1>17, <1>18, <1>19, <1>20, <1>21, <1>22, <1>23,
     <1>24, <1>25, <1>26, <1>27, <1>28, <1>29, <1>30, <1>31, <1>32, <1>33 DEF
     Next, Execute, Clean

\* Sessions and grants keep their types.
LEMMA SessionTyped ==
  ASSUME TypeOK, CleanerInv, [Next]_vars
  PROVE  SessionTypes'
<1>0. SessionTypes
  BY DEF TypeOK, SessionTypes
<1>1. ASSUME NEW r \in Runs, CreateRun(r) PROVE SessionTypes'
  BY <1>1, <1>0 DEF CreateRun, worldVars, SessionTypes
<1>2. ASSUME NEW r \in Runs, CancelRun(r) PROVE SessionTypes'
  BY <1>2, <1>0 DEF CancelRun, worldVars, SessionTypes
<1>3. ASSUME NEW r \in Runs, RecoverOrphan(r) PROVE SessionTypes'
  BY <1>3, <1>0 DEF RecoverOrphan, worldVars, SessionTypes
<1>4. ASSUME NEW r \in Runs, AdmissionTimesOut(r) PROVE SessionTypes'
  BY <1>4, <1>0 DEF AdmissionTimesOut, worldVars, SessionTypes
<1>5. ASSUME NEW r \in Runs, ClaimWork(r) PROVE SessionTypes'
  BY <1>5, <1>0 DEF ClaimWork, worldVars, SessionTypes
<1>6. ASSUME NEW r \in Runs, FreezeWorkItem(r) PROVE SessionTypes'
  BY <1>6, <1>0 DEF FreezeWorkItem, worldVars, SessionTypes
<1>7. ASSUME NEW r \in Runs, IssueGrant(r) PROVE SessionTypes'
  BY <1>7, <1>0 DEF IssueGrant, worldVars, IssueIntent, SessionTypes
<1>8. ASSUME NEW r \in Runs, RefuseRun(r) PROVE SessionTypes'
  BY <1>8, <1>0 DEF RefuseRun, worldVars, SessionTypes
<1>9. ASSUME NEW r \in Runs, Acquire(r) PROVE SessionTypes'
  BY <1>9, <1>0 DEF Acquire, worldVars, SessionTypes
<1>10. ASSUME NEW r \in Runs, Prepare(r) PROVE SessionTypes'
  BY <1>10, <1>0 DEF Prepare, worldVars, SessionTypes
<1>11. ASSUME NEW r \in Runs, RecordSession(r) PROVE SessionTypes'
  BY <1>11, <1>0 DEF RecordSession, worldVars, Sessions, SessionTypes
<1>12. ASSUME NEW r \in Runs, OpenSession(r) PROVE SessionTypes'
  BY <1>12, <1>0 DEF OpenSession, worldVars, Sessions, SessionTypes
<1>13. ASSUME NEW r \in Runs, CheckRun(r) PROVE SessionTypes'
  BY <1>13, <1>0 DEF CheckRun, worldVars, SessionTypes
<1>14. ASSUME NEW r \in Runs, EndLoop(r) PROVE SessionTypes'
  BY <1>14, <1>0 DEF EndLoop, worldVars, SessionTypes
<1>15. ASSUME NEW r \in Runs, RecordCall(r) PROVE SessionTypes'
  BY <1>15, <1>0 DEF RecordCall, worldVars, SessionTypes
<1>16. ASSUME NEW r \in Runs, CompleteCall(r) PROVE SessionTypes'
  BY <1>16, <1>0 DEF CompleteCall, worldVars, SessionTypes
<1>17. ASSUME NEW r \in Runs, BeforeFinish(r) PROVE SessionTypes'
  BY <1>17, <1>0 DEF BeforeFinish, worldVars, Destroyed, DestroyFails, Sessions,
     SessionTypes
<1>18. ASSUME NEW r \in Runs, CompleteRun(r) PROVE SessionTypes'
  BY <1>18, <1>0 DEF CompleteRun, worldVars, SessionTypes
<1>19. ASSUME NEW r \in Runs, Crash(r) PROVE SessionTypes'
  BY <1>19, <1>0 DEF Crash, worldVars, SessionTypes
<1>20. ASSUME NEW r \in Runs, LeaseExpires(r) PROVE SessionTypes'
  BY <1>20, <1>0 DEF LeaseExpires, worldVars, SessionTypes
<1>21. ASSUME NEW c \in Cleaners, NEW r \in Runs, ClaimCleanup(c, r) PROVE SessionTypes'
  BY <1>21, <1>0 DEF ClaimCleanup, worldVars, SessionTypes
<1>22. ASSUME NEW c \in Cleaners, ReadRun(c) PROVE SessionTypes'
  BY <1>22, <1>0 DEF ReadRun, worldVars, SessionTypes
<1>23. ASSUME NEW c \in Cleaners, RevokeGrant(c) PROVE SessionTypes'
  BY <1>23, <1>0 DEF RevokeGrant, worldVars, SessionTypes
<1>24. ASSUME NEW c \in Cleaners, CleanWorkspace(c) PROVE SessionTypes'
  BY <1>24, <1>0 DEF CleanWorkspace, worldVars, Destroyed, DestroyFails, Sessions,
     SessionTypes
<1>25. ASSUME NEW c \in Cleaners, Release(c) PROVE SessionTypes'
  BY <1>25, <1>0 DEF Release, worldVars, SessionTypes
<1>26. ASSUME NEW c \in Cleaners, Ack(c) PROVE SessionTypes'
  BY <1>26, <1>0 DEF Ack, worldVars, SessionTypes
<1>27. ASSUME NEW c \in Cleaners, CleanerStops(c) PROVE SessionTypes'
  BY <1>27, <1>0 DEF CleanerStops, worldVars, SessionTypes
<1>28. ASSUME NEW m \in late, Arrives(m) PROVE SessionTypes'
  BY <1>28, <1>0 DEF Arrives, worldVars, IssueIntent, SessionTypes
<1>29. ASSUME FenceScope PROVE SessionTypes'
  BY <1>29, <1>0 DEF FenceScope, worldVars, SessionTypes
<1>30. ASSUME CancelScope PROVE SessionTypes'
  BY <1>30, <1>0 DEF CancelScope, worldVars, SessionTypes
<1>31. ASSUME DeleteScope PROVE SessionTypes'
  BY <1>31, <1>0 DEF DeleteScope, worldVars, SessionTypes
<1>32. ASSUME NEW i \in Items, EditItem(i) PROVE SessionTypes'
  BY <1>32, <1>0 DEF EditItem, worldVars, SessionTypes
<1>33. CASE UNCHANGED vars
  BY <1>0, <1>33 DEF vars, worldVars, SessionTypes
<1> QED
  BY <1>1, <1>2, <1>3, <1>4, <1>5, <1>6, <1>7, <1>8, <1>9, <1>10, <1>11, <1>12,
     <1>13, <1>14, <1>15, <1>16, <1>17, <1>18, <1>19, <1>20, <1>21, <1>22, <1>23,
     <1>24, <1>25, <1>26, <1>27, <1>28, <1>29, <1>30, <1>31, <1>32, <1>33 DEF
     Next, Execute, Clean

\* Executors keep their types.
LEMMA ExecTyped ==
  ASSUME TypeOK, CleanerInv, [Next]_vars
  PROVE  ExecTypes'
<1>0. ExecTypes
  BY DEF TypeOK, ExecTypes
<1>1. ASSUME NEW r \in Runs, CreateRun(r) PROVE ExecTypes'
  BY <1>1, <1>0 DEF CreateRun, execVars, Goto, Steps, Admission, Executing,
     ExecTypes
<1>2. ASSUME NEW r \in Runs, CancelRun(r) PROVE ExecTypes'
  BY <1>2, <1>0 DEF CancelRun, execVars, ExecTypes
<1>3. ASSUME NEW r \in Runs, RecoverOrphan(r) PROVE ExecTypes'
  BY <1>3, <1>0 DEF RecoverOrphan, execVars, ExecTypes
<1>4. ASSUME NEW r \in Runs, AdmissionTimesOut(r) PROVE ExecTypes'
  BY <1>4, <1>0 DEF AdmissionTimesOut, execVars, Goto, Steps, Admission, Executing,
     ExecTypes
<1>5. ASSUME NEW r \in Runs, ClaimWork(r) PROVE ExecTypes'
  BY <1>5, <1>0 DEF ClaimWork, execVars, Goto, Steps, Admission, Executing, Resend,
     ExecTypes
<1>6. ASSUME NEW r \in Runs, FreezeWorkItem(r) PROVE ExecTypes'
  BY <1>6, <1>0 DEF FreezeWorkItem, execVars, Goto, Steps, Admission, Executing,
     ExecTypes
<1>7. ASSUME NEW r \in Runs, IssueGrant(r) PROVE ExecTypes'
  BY <1>7, <1>0 DEF IssueGrant, execVars, Goto, Steps, Admission, Executing,
     ExecTypes
<1>8. ASSUME NEW r \in Runs, RefuseRun(r) PROVE ExecTypes'
  BY <1>8, <1>0 DEF RefuseRun, execVars, Goto, Steps, Admission, Executing,
     ExecTypes
<1>9. ASSUME NEW r \in Runs, Acquire(r) PROVE ExecTypes'
  BY <1>9, <1>0 DEF Acquire, execVars, Goto, Steps, Admission, Executing, ExecTypes
<1>10. ASSUME NEW r \in Runs, Prepare(r) PROVE ExecTypes'
  BY <1>10, <1>0 DEF Prepare, execVars, Goto, Steps, Admission, Executing,
     RunOutcomes, Failures, ExecTypes
<1>11. ASSUME NEW r \in Runs, RecordSession(r) PROVE ExecTypes'
  BY <1>11, <1>0 DEF RecordSession, execVars, Goto, Steps, Admission, Executing,
     ExecTypes
<1>12. ASSUME NEW r \in Runs, OpenSession(r) PROVE ExecTypes'
  BY <1>12, <1>0 DEF OpenSession, execVars, Goto, Steps, Admission, Executing,
     ExecTypes
<1>13. ASSUME NEW r \in Runs, CheckRun(r) PROVE ExecTypes'
  BY <1>13, <1>0 DEF CheckRun, execVars, Goto, Steps, Admission, Executing,
     ExecTypes
<1>14. ASSUME NEW r \in Runs, EndLoop(r) PROVE ExecTypes'
  BY <1>14, <1>0 DEF EndLoop, execVars, Goto, Steps, Admission, Executing,
     RunOutcomes, Failures, ExecTypes
<1>15. ASSUME NEW r \in Runs, RecordCall(r) PROVE ExecTypes'
  BY <1>15, <1>0 DEF RecordCall, execVars, Goto, Steps, Admission, Executing,
     RunOutcomes, Failures, ExecTypes
<1>16. ASSUME NEW r \in Runs, CompleteCall(r) PROVE ExecTypes'
  BY <1>16, <1>0 DEF CompleteCall, execVars, Goto, Steps, Admission, Executing,
     RunOutcomes, Failures, ExecTypes
<1>17. ASSUME NEW r \in Runs, BeforeFinish(r) PROVE ExecTypes'
  BY <1>17, <1>0 DEF BeforeFinish, execVars, Goto, Steps, Admission, Executing,
     RunOutcomes, Failures, ExecTypes
<1>18. ASSUME NEW r \in Runs, CompleteRun(r) PROVE ExecTypes'
  BY <1>18, <1>0 DEF CompleteRun, execVars, Goto, Steps, Admission, Executing,
     ExecTypes
<1>19. ASSUME NEW r \in Runs, Crash(r) PROVE ExecTypes'
  BY <1>19, <1>0 DEF Crash, execVars, Goto, Steps, Admission, Executing, ExecTypes
<1>20. ASSUME NEW r \in Runs, LeaseExpires(r) PROVE ExecTypes'
  BY <1>20, <1>0 DEF LeaseExpires, execVars, ExecTypes
<1>21. ASSUME NEW c \in Cleaners, NEW r \in Runs, ClaimCleanup(c, r) PROVE ExecTypes'
  BY <1>21, <1>0 DEF ClaimCleanup, execVars, ExecTypes
<1>22. ASSUME NEW c \in Cleaners, ReadRun(c) PROVE ExecTypes'
  BY <1>22, <1>0 DEF ReadRun, execVars, ExecTypes
<1>23. ASSUME NEW c \in Cleaners, RevokeGrant(c) PROVE ExecTypes'
  BY <1>23, <1>0 DEF RevokeGrant, execVars, ExecTypes
<1>24. ASSUME NEW c \in Cleaners, CleanWorkspace(c) PROVE ExecTypes'
  BY <1>24, <1>0 DEF CleanWorkspace, execVars, ExecTypes
<1>25. ASSUME NEW c \in Cleaners, Release(c) PROVE ExecTypes'
  BY <1>25, <1>0 DEF Release, execVars, ExecTypes
<1>26. ASSUME NEW c \in Cleaners, Ack(c) PROVE ExecTypes'
  BY <1>26, <1>0 DEF Ack, execVars, ExecTypes
<1>27. ASSUME NEW c \in Cleaners, CleanerStops(c) PROVE ExecTypes'
  BY <1>27, <1>0 DEF CleanerStops, execVars, ExecTypes
<1>28. ASSUME NEW m \in late, Arrives(m) PROVE ExecTypes'
  BY <1>28, <1>0 DEF Arrives, execVars, ExecTypes
<1>29. ASSUME FenceScope PROVE ExecTypes'
  BY <1>29, <1>0 DEF FenceScope, execVars, ExecTypes
<1>30. ASSUME CancelScope PROVE ExecTypes'
  BY <1>30, <1>0 DEF CancelScope, execVars, ExecTypes
<1>31. ASSUME DeleteScope PROVE ExecTypes'
  BY <1>31, <1>0 DEF DeleteScope, execVars, ExecTypes
<1>32. ASSUME NEW i \in Items, EditItem(i) PROVE ExecTypes'
  BY <1>32, <1>0 DEF EditItem, execVars, ExecTypes
<1>33. CASE UNCHANGED vars
  BY <1>0, <1>33 DEF vars, execVars, ExecTypes
<1> QED
  BY <1>1, <1>2, <1>3, <1>4, <1>5, <1>6, <1>7, <1>8, <1>9, <1>10, <1>11, <1>12,
     <1>13, <1>14, <1>15, <1>16, <1>17, <1>18, <1>19, <1>20, <1>21, <1>22, <1>23,
     <1>24, <1>25, <1>26, <1>27, <1>28, <1>29, <1>30, <1>31, <1>32, <1>33 DEF
     Next, Execute, Clean

\* Cleaners keep their types.
LEMMA CleanTyped ==
  ASSUME TypeOK, CleanerInv, [Next]_vars
  PROVE  CleanTypes'
<1>0. CleanTypes
  BY DEF TypeOK, CleanTypes
<1>1. ASSUME NEW r \in Runs, CreateRun(r) PROVE CleanTypes'
  BY <1>1, <1>0 DEF CreateRun, rowVars, cleanVars, CleanTypes
<1>2. ASSUME NEW r \in Runs, CancelRun(r) PROVE CleanTypes'
  BY <1>2, <1>0 DEF CancelRun, rowVars, cleanVars, CleanTypes
<1>3. ASSUME NEW r \in Runs, RecoverOrphan(r) PROVE CleanTypes'
  BY <1>3, <1>0 DEF RecoverOrphan, rowVars, cleanVars, CleanTypes
<1>4. ASSUME NEW r \in Runs, AdmissionTimesOut(r) PROVE CleanTypes'
  BY <1>4, <1>0 DEF AdmissionTimesOut, rowVars, cleanVars, CleanTypes
<1>5. ASSUME NEW r \in Runs, ClaimWork(r) PROVE CleanTypes'
  BY <1>5, <1>0 DEF ClaimWork, rowVars, cleanVars, CleanTypes
<1>6. ASSUME NEW r \in Runs, FreezeWorkItem(r) PROVE CleanTypes'
  BY <1>6, <1>0 DEF FreezeWorkItem, rowVars, cleanVars, CleanTypes
<1>7. ASSUME NEW r \in Runs, IssueGrant(r) PROVE CleanTypes'
  BY <1>7, <1>0 DEF IssueGrant, rowVars, cleanVars, CleanTypes
<1>8. ASSUME NEW r \in Runs, RefuseRun(r) PROVE CleanTypes'
  BY <1>8, <1>0 DEF RefuseRun, rowVars, cleanVars, CleanTypes
<1>9. ASSUME NEW r \in Runs, Acquire(r) PROVE CleanTypes'
  BY <1>9, <1>0 DEF Acquire, rowVars, cleanVars, CleanTypes
<1>10. ASSUME NEW r \in Runs, Prepare(r) PROVE CleanTypes'
  BY <1>10, <1>0 DEF Prepare, rowVars, cleanVars, CleanTypes
<1>11. ASSUME NEW r \in Runs, RecordSession(r) PROVE CleanTypes'
  BY <1>11, <1>0 DEF RecordSession, rowVars, cleanVars, CleanTypes
<1>12. ASSUME NEW r \in Runs, OpenSession(r) PROVE CleanTypes'
  BY <1>12, <1>0 DEF OpenSession, rowVars, cleanVars, CleanTypes
<1>13. ASSUME NEW r \in Runs, CheckRun(r) PROVE CleanTypes'
  BY <1>13, <1>0 DEF CheckRun, rowVars, cleanVars, CleanTypes
<1>14. ASSUME NEW r \in Runs, EndLoop(r) PROVE CleanTypes'
  BY <1>14, <1>0 DEF EndLoop, rowVars, cleanVars, CleanTypes
<1>15. ASSUME NEW r \in Runs, RecordCall(r) PROVE CleanTypes'
  BY <1>15, <1>0 DEF RecordCall, rowVars, cleanVars, CleanTypes
<1>16. ASSUME NEW r \in Runs, CompleteCall(r) PROVE CleanTypes'
  BY <1>16, <1>0 DEF CompleteCall, rowVars, cleanVars, CleanTypes
<1>17. ASSUME NEW r \in Runs, BeforeFinish(r) PROVE CleanTypes'
  BY <1>17, <1>0 DEF BeforeFinish, rowVars, cleanVars, CleanTypes
<1>18. ASSUME NEW r \in Runs, CompleteRun(r) PROVE CleanTypes'
  BY <1>18, <1>0 DEF CompleteRun, rowVars, cleanVars, CleanTypes
<1>19. ASSUME NEW r \in Runs, Crash(r) PROVE CleanTypes'
  BY <1>19, <1>0 DEF Crash, rowVars, cleanVars, CleanTypes
<1>20. ASSUME NEW r \in Runs, LeaseExpires(r) PROVE CleanTypes'
  BY <1>20, <1>0 DEF LeaseExpires, rowVars, cleanVars, CleanTypes
<1>21. ASSUME NEW c \in Cleaners, NEW r \in Runs, ClaimCleanup(c, r) PROVE CleanTypes'
  BY <1>21, <1>0 DEF ClaimCleanup, rowVars, cleanVars, CleanSteps, CleanTypes
<1>22. ASSUME NEW c \in Cleaners, ReadRun(c) PROVE CleanTypes'
  <2>0. PICK r \in Runs : r = job[c]
    BY <1>22 DEF ReadRun, CleanerInv, CleanerOK
  <2>1. CASE Idle(c)
    BY <1>22, <1>0, <2>1 DEF ReadRun, rowVars, Idle, NotRead, CleanSteps, CleanTypes
  <2>2. CASE ~Idle(c)
    <3>1. /\ Terminal(r) /\ UNCHANGED <<job, errs, holder, leased>>
          /\ cpc' = [cpc EXCEPT ![c] = "revoke"]
          /\ seen' = [seen EXCEPT ![c] = [owed |-> owed[r], finished |-> finished[r],
                                          state |-> state[r]]]
      BY <1>22, <2>0, <2>2 DEF ReadRun, rowVars
    <3>2. [owed |-> owed[r], finished |-> finished[r], state |-> state[r]] \in
            [owed : SUBSET Obligations, finished : BOOLEAN, state : RunOutcomes \cup {"none"}]
      BY <3>1 DEF TypeOK, Terminal
    <3> QED
      BY <1>0, <3>1, <3>2 DEF CleanTypes, CleanSteps
  <2> QED
    BY <2>1, <2>2
<1>23. ASSUME NEW c \in Cleaners, RevokeGrant(c) PROVE CleanTypes'
  BY <1>23, <1>0 DEF RevokeGrant, rowVars, cleanVars, CleanStep, Failed,
     Obligations, CleanSteps, CleanTypes
<1>24. ASSUME NEW c \in Cleaners, CleanWorkspace(c) PROVE CleanTypes'
  BY <1>24, <1>0 DEF CleanWorkspace, rowVars, cleanVars, CleanStep, Failed,
     Obligations, CleanSteps, CleanTypes
<1>25. ASSUME NEW c \in Cleaners, Release(c) PROVE CleanTypes'
  BY <1>25, <1>0 DEF Release, rowVars, cleanVars, CleanStep, Failed, Obligations,
     CleanSteps, CleanTypes
<1>26. ASSUME NEW c \in Cleaners, Ack(c) PROVE CleanTypes'
  BY <1>26, <1>0 DEF Ack, rowVars, cleanVars, Idle, NotRead, CleanSteps, CleanTypes
<1>27. ASSUME NEW c \in Cleaners, CleanerStops(c) PROVE CleanTypes'
  BY <1>27, <1>0 DEF CleanerStops, rowVars, cleanVars, Idle, NotRead, CleanSteps,
     CleanTypes
<1>28. ASSUME NEW m \in late, Arrives(m) PROVE CleanTypes'
  BY <1>28, <1>0 DEF Arrives, rowVars, cleanVars, CleanTypes
<1>29. ASSUME FenceScope PROVE CleanTypes'
  BY <1>29, <1>0 DEF FenceScope, rowVars, cleanVars, CleanTypes
<1>30. ASSUME CancelScope PROVE CleanTypes'
  BY <1>30, <1>0 DEF CancelScope, rowVars, cleanVars, CleanTypes
<1>31. ASSUME DeleteScope PROVE CleanTypes'
  BY <1>31, <1>0 DEF DeleteScope, rowVars, cleanVars, CleanTypes
<1>32. ASSUME NEW i \in Items, EditItem(i) PROVE CleanTypes'
  BY <1>32, <1>0 DEF EditItem, rowVars, cleanVars, CleanTypes
<1>33. CASE UNCHANGED vars
  BY <1>0, <1>33 DEF vars, rowVars, cleanVars, CleanTypes
<1> QED
  BY <1>1, <1>2, <1>3, <1>4, <1>5, <1>6, <1>7, <1>8, <1>9, <1>10, <1>11, <1>12,
     <1>13, <1>14, <1>15, <1>16, <1>17, <1>18, <1>19, <1>20, <1>21, <1>22, <1>23,
     <1>24, <1>25, <1>26, <1>27, <1>28, <1>29, <1>30, <1>31, <1>32, <1>33 DEF
     Next, Execute, Clean

\* The purge and the count of faults keep theirs.
LEMMA CountTyped ==
  ASSUME TypeOK, CleanerInv, [Next]_vars
  PROVE  CountTypes'
<1>0. CountTypes
  BY DEF TypeOK, CountTypes
<1>1. ASSUME NEW r \in Runs, CreateRun(r) PROVE CountTypes'
  BY <1>1, <1>0 DEF CreateRun, CountTypes
<1>2. ASSUME NEW r \in Runs, CancelRun(r) PROVE CountTypes'
  BY <1>2, <1>0 DEF CancelRun, CountTypes
<1>3. ASSUME NEW r \in Runs, RecoverOrphan(r) PROVE CountTypes'
  BY <1>3, <1>0 DEF RecoverOrphan, CountTypes
<1>4. ASSUME NEW r \in Runs, AdmissionTimesOut(r) PROVE CountTypes'
  BY <1>4, <1>0 DEF AdmissionTimesOut, CountTypes
<1>5. ASSUME NEW r \in Runs, ClaimWork(r) PROVE CountTypes'
  BY <1>5, <1>0 DEF ClaimWork, Fault, CountTypes
<1>6. ASSUME NEW r \in Runs, FreezeWorkItem(r) PROVE CountTypes'
  BY <1>6, <1>0 DEF FreezeWorkItem, CountTypes
<1>7. ASSUME NEW r \in Runs, IssueGrant(r) PROVE CountTypes'
  BY <1>7, <1>0 DEF IssueGrant, Fault, CountTypes
<1>8. ASSUME NEW r \in Runs, RefuseRun(r) PROVE CountTypes'
  BY <1>8, <1>0 DEF RefuseRun, CountTypes
<1>9. ASSUME NEW r \in Runs, Acquire(r) PROVE CountTypes'
  BY <1>9, <1>0 DEF Acquire, Fault, CountTypes
<1>10. ASSUME NEW r \in Runs, Prepare(r) PROVE CountTypes'
  BY <1>10, <1>0 DEF Prepare, CountTypes
<1>11. ASSUME NEW r \in Runs, RecordSession(r) PROVE CountTypes'
  BY <1>11, <1>0 DEF RecordSession, CountTypes
<1>12. ASSUME NEW r \in Runs, OpenSession(r) PROVE CountTypes'
  BY <1>12, <1>0 DEF OpenSession, CountTypes
<1>13. ASSUME NEW r \in Runs, CheckRun(r) PROVE CountTypes'
  BY <1>13, <1>0 DEF CheckRun, Fault, Carries, CountTypes
<1>14. ASSUME NEW r \in Runs, EndLoop(r) PROVE CountTypes'
  BY <1>14, <1>0 DEF EndLoop, Fault, Carries, CountTypes
<1>15. ASSUME NEW r \in Runs, RecordCall(r) PROVE CountTypes'
  BY <1>15, <1>0 DEF RecordCall, CountTypes
<1>16. ASSUME NEW r \in Runs, CompleteCall(r) PROVE CountTypes'
  BY <1>16, <1>0 DEF CompleteCall, Fault, CountTypes
<1>17. ASSUME NEW r \in Runs, BeforeFinish(r) PROVE CountTypes'
  BY <1>17, <1>0 DEF BeforeFinish, Fault, Destroyed, DestroyFails, CountTypes
<1>18. ASSUME NEW r \in Runs, CompleteRun(r) PROVE CountTypes'
  BY <1>18, <1>0 DEF CompleteRun, CountTypes
<1>19. ASSUME NEW r \in Runs, Crash(r) PROVE CountTypes'
  BY <1>19, <1>0 DEF Crash, Fault, CountTypes
<1>20. ASSUME NEW r \in Runs, LeaseExpires(r) PROVE CountTypes'
  BY <1>20, <1>0 DEF LeaseExpires, Fault, CountTypes
<1>21. ASSUME NEW c \in Cleaners, NEW r \in Runs, ClaimCleanup(c, r) PROVE CountTypes'
  BY <1>21, <1>0 DEF ClaimCleanup, CountTypes
<1>22. ASSUME NEW c \in Cleaners, ReadRun(c) PROVE CountTypes'
  BY <1>22, <1>0 DEF ReadRun, CountTypes
<1>23. ASSUME NEW c \in Cleaners, RevokeGrant(c) PROVE CountTypes'
  BY <1>23, <1>0 DEF RevokeGrant, Fault, CountTypes
<1>24. ASSUME NEW c \in Cleaners, CleanWorkspace(c) PROVE CountTypes'
  BY <1>24, <1>0 DEF CleanWorkspace, Fault, Destroyed, DestroyFails, CountTypes
<1>25. ASSUME NEW c \in Cleaners, Release(c) PROVE CountTypes'
  BY <1>25, <1>0 DEF Release, Fault, CountTypes
<1>26. ASSUME NEW c \in Cleaners, Ack(c) PROVE CountTypes'
  BY <1>26, <1>0 DEF Ack, CountTypes
<1>27. ASSUME NEW c \in Cleaners, CleanerStops(c) PROVE CountTypes'
  BY <1>27, <1>0 DEF CleanerStops, Fault, CountTypes
<1>28. ASSUME NEW m \in late, Arrives(m) PROVE CountTypes'
  BY <1>28, <1>0 DEF Arrives, CountTypes
<1>29. ASSUME FenceScope PROVE CountTypes'
  BY <1>29, <1>0 DEF FenceScope, CountTypes
<1>30. ASSUME CancelScope PROVE CountTypes'
  BY <1>30, <1>0 DEF CancelScope, CountTypes
<1>31. ASSUME DeleteScope PROVE CountTypes'
  BY <1>31, <1>0 DEF DeleteScope, CountTypes
<1>32. ASSUME NEW i \in Items, EditItem(i) PROVE CountTypes'
  BY <1>32, <1>0 DEF EditItem, CountTypes
<1>33. CASE UNCHANGED vars
  BY <1>0, <1>33 DEF vars, CountTypes
<1> QED
  BY <1>1, <1>2, <1>3, <1>4, <1>5, <1>6, <1>7, <1>8, <1>9, <1>10, <1>11, <1>12,
     <1>13, <1>14, <1>15, <1>16, <1>17, <1>18, <1>19, <1>20, <1>21, <1>22, <1>23,
     <1>24, <1>25, <1>26, <1>27, <1>28, <1>29, <1>30, <1>31, <1>32, <1>33 DEF
     Next, Execute, Clean

\* Every step keeps the types.
LEMMA TypeStep ==
  ASSUME TypeOK, RowInv, CleanerInv, LateInv, [Next]_vars
  PROVE  TypeOK'
<1>1. /\ RowTypes' /\ SessionTypes' /\ ExecTypes' /\ CleanTypes' /\ CountTypes'
      /\ WorkTypes'
  BY RowTyped, SessionTyped, ExecTyped, CleanTyped, CountTyped, WorkStep DEF WorkMoves
<1>2. late' \subseteq Requests
  <2> SUFFICES ASSUME NEW m \in late' PROVE m \in Requests
    OBVIOUS
  <2>1. m \in late \/ NewRequest(m)
    BY LateMovesStep DEF LateMoves
  <2> QED
    BY <2>1 DEF TypeOK, NewRequest, Requests
<1> QED
  BY <1>1, <1>2 DEF TypeOK, RowTypes, SessionTypes, ExecTypes, CleanTypes, CountTypes

\* The invariant is inductive.
LEMMA NextIInv == IInv /\ [Next]_vars => IInv'
BY TypeStep, HeldStep, RowStep, CleanerStep, LateStep DEF IInv

\* Every reachable state satisfies it.
LEMMA Invariance == Spec => []IInv
BY InitIInv, NextIInv, PTL DEF Spec

-----------------------------------------------------------------------------
(* Results *)

\* Every variable keeps its type, the calls and replies between the agent runtime,
\* Work, identity and the workspace included (store.go, completion.go,
\* grant_cleanup.go).
THEOREM TypeCorrect == Spec => []TypeOK
<1>1. IInv => TypeOK
  BY DEF IInv
<1> QED
  BY <1>1, Invariance, PTL

\* A run at work holds its Work Item.
LEMMA WorkingHolds ==
  ASSUME TypeOK, RowInv, NEW r \in Runs, Working(r)
  PROVE  claim[r] = "held"
<1>1. started[r] /\ claim[r] # "none"
  BY DEF RowInv, ExecOK, Working
<1>2. ~Spent(r)
  <2> SUFFICES ASSUME Spent(r) PROVE FALSE
    OBVIOUS
  <2>1. finished[r] /\ Safe(r)
    BY <1>1 DEF RowInv, SpentOK, Spent, Outcomes
  <2> QED
    BY <2>1 DEF RowInv, ExecOK, Working, Safe, Executing
<1>3. claim[r] \in Outcomes \cup {"none", "held"}
  BY DEF TypeOK, WorkTypes
<1> QED
  BY <1>1, <1>2, <1>3 DEF Spent

\* One run at a time works on an item, whatever was cancelled, recovered, crashed
\* or delivered late (StartRun, cleanupRunGrant).
THEOREM OneRunPerItem == Spec => []ExclusiveExecution
<1>1. IInv => ExclusiveExecution
  BY WorkingHolds DEF IInv, HeldInv, ExclusiveExecution
<1> QED
  BY <1>1, Invariance, PTL

\* What the cleanup tells Work of a run is true of it (ReleaseWork's outcome and
\* its guards in cleanupRunGrant).
THEOREM WorkIsToldTheTruth == Spec => []ReleaseIsTrue
<1>1. IInv => ReleaseIsTrue
  <2> SUFFICES ASSUME IInv, NEW r \in Runs
               PROVE  /\ claim[r] = "admission_failed" =>
                           ~started[r] /\ ~Working(r) /\ state[r] # "queued"
                      /\ claim[r] \in RunOutcomes =>
                           /\ started[r] /\ finished[r] /\ ~Working(r)
                           /\ state[r] \in {claim[r], "gone"}
    BY DEF ReleaseIsTrue
  <2>1. claim[r] \in RunOutcomes \cup {"admission_failed"} => claim[r] # "held"
    BY DEF RunOutcomes
  <2>2. claim[r] \in RunOutcomes \cup {"admission_failed"} => ~Working(r)
    BY <2>1, WorkingHolds DEF IInv
  <2> QED
    BY <2>2 DEF IInv, RowInv, SpentOK, Spent, Outcomes, Stopped, RunOutcomes
<1> QED
  BY <1>1, Invariance, PTL

\* No issuance, however late, outlives the row that would fence it
\* (StartRun's intent, CancelIssuance).
THEOREM LiveGrantIsOwed == Spec => []AuthorityHasObligation
<1>1. IInv => AuthorityHasObligation
  <2> SUFFICES ASSUME IInv, NEW r \in Runs, grant[r] = "live"
               PROVE  Active(r) \/ (Terminal(r) /\ "grant" \in owed[r])
    BY DEF AuthorityHasObligation
  <2>1. state[r] \in States /\ NoneOK(r) /\ OwedOK(r)
    BY DEF IInv, TypeOK, RowInv
  <2> QED
    BY <2>1 DEF NoneOK, OwedOK, States, Active, Stopped, Terminal
<1> QED
  BY <1>1, Invariance, PTL

\* An acknowledged cleanup, or a purged row, leaves no Work Item claimed
\* (cleanupRunGrant, PurgeRuns).
THEOREM HeldItemIsOwed == Spec => []ClaimHasObligation
<1>1. IInv => ClaimHasObligation
  <2> SUFFICES ASSUME IInv, NEW r \in Runs, claim[r] = "held"
               PROVE  (Active(r) \/ Terminal(r)) /\ "work" \in owed[r]
    BY DEF ClaimHasObligation
  <2>1. state[r] \in States /\ NoneOK(r) /\ OwedOK(r)
    BY DEF IInv, TypeOK, RowInv
  <2>2. ~Spent(r)
    BY DEF Spent, Outcomes, RunOutcomes
  <2> QED
    BY <2>1, <2>2 DEF NoneOK, OwedOK, States, Active, Stopped, Terminal
<1> QED
  BY <1>1, Invariance, PTL

\* A success has its receipt, no open tool call, and a workspace that was seen to
\* end (CompleteRun).
THEOREM SuccessHasEvidence == Spec => []SuccessIsEvidenced
<1>1. IInv => SuccessIsEvidenced
  BY DEF IInv, RowInv, SuccessOK, ExecOK, OwedOK, Safe, SuccessIsEvidenced, Working,
         Executing
<1> QED
  BY <1>1, Invariance, PTL

-----------------------------------------------------------------------------
(* The lease *)

\* A step touches the claim, the executor or the session of one run at most.
Alone ==
  \/ UNCHANGED <<claim, pc, session>>
  \/ \E r \in Runs : \A q \in Runs : q # r => UNCHANGED <<claim[q], pc[q], session[q]>>

\* The claim of one run moves.
LEMMA ClaimAlone ==
  ASSUME WorkTypes, NEW r \in Runs,
         ClaimExecution(r) \/ \E o \in Outcomes : ReleaseExecution(r, o)
  PROVE  \A q \in Runs : q # r => claim'[q] = claim[q]
BY ClaimEffect, ReleaseEffect DEF Takes, Yields, WorkKept

\* Every step touches one run at most.
LEMMA AloneStep ==
  ASSUME TypeOK, CleanerInv, [Next]_vars
  PROVE  Alone
<1>0. Shape /\ WorkTypes
  BY Shapes DEF TypeOK
<1>1. ASSUME NEW r \in Runs, CreateRun(r) PROVE Alone
  BY <1>1, <1>0 DEF CreateRun, Alone, Shape, workVars, rowVars, worldVars,
     execVars, Goto
<1>2. ASSUME NEW r \in Runs, CancelRun(r) PROVE Alone
  BY <1>2, <1>0 DEF CancelRun, Alone, Shape, workVars, rowVars, worldVars,
     execVars, Goto
<1>3. ASSUME NEW r \in Runs, RecoverOrphan(r) PROVE Alone
  BY <1>3, <1>0 DEF RecoverOrphan, Alone, Shape, workVars, rowVars, worldVars,
     execVars, Goto
<1>4. ASSUME NEW r \in Runs, AdmissionTimesOut(r) PROVE Alone
  BY <1>4, <1>0 DEF AdmissionTimesOut, Alone, Shape, workVars, rowVars, worldVars,
     execVars, Goto
<1>5. ASSUME NEW r \in Runs, ClaimWork(r) PROVE Alone
  <2>1. \A q \in Runs : q # r => claim'[q] = claim[q]
    BY <1>5, <1>0, ClaimAlone DEF ClaimWork, workVars
  <2>2. session' = session /\ \A q \in Runs : q # r => pc'[q] = pc[q]
    BY <1>5, <1>0 DEF ClaimWork, Goto, Resend, Shape
  <2> QED
    BY <2>1, <2>2 DEF Alone
<1>6. ASSUME NEW r \in Runs, FreezeWorkItem(r) PROVE Alone
  BY <1>6, <1>0 DEF FreezeWorkItem, Alone, Shape, workVars, rowVars, worldVars,
     execVars, Goto
<1>7. ASSUME NEW r \in Runs, IssueGrant(r) PROVE Alone
  BY <1>7, <1>0 DEF IssueGrant, Alone, Shape, workVars, rowVars, worldVars,
     execVars, Goto
<1>8. ASSUME NEW r \in Runs, RefuseRun(r) PROVE Alone
  BY <1>8, <1>0 DEF RefuseRun, Alone, Shape, workVars, rowVars, worldVars,
     execVars, Goto
<1>9. ASSUME NEW r \in Runs, Acquire(r) PROVE Alone
  BY <1>9, <1>0 DEF Acquire, Alone, Shape, workVars, rowVars, worldVars, execVars,
     Goto
<1>10. ASSUME NEW r \in Runs, Prepare(r) PROVE Alone
  BY <1>10, <1>0 DEF Prepare, Alone, Shape, workVars, rowVars, worldVars, execVars,
     Goto
<1>11. ASSUME NEW r \in Runs, RecordSession(r) PROVE Alone
  BY <1>11, <1>0 DEF RecordSession, Alone, Shape, workVars, rowVars, worldVars,
     execVars, Goto
<1>12. ASSUME NEW r \in Runs, OpenSession(r) PROVE Alone
  BY <1>12, <1>0 DEF OpenSession, Alone, Shape, workVars, rowVars, worldVars,
     execVars, Goto
<1>13. ASSUME NEW r \in Runs, CheckRun(r) PROVE Alone
  BY <1>13, <1>0 DEF CheckRun, Alone, Shape, workVars, rowVars, worldVars, execVars,
     Goto
<1>14. ASSUME NEW r \in Runs, EndLoop(r) PROVE Alone
  BY <1>14, <1>0 DEF EndLoop, Alone, Shape, workVars, rowVars, worldVars, execVars,
     Goto
<1>15. ASSUME NEW r \in Runs, RecordCall(r) PROVE Alone
  BY <1>15, <1>0 DEF RecordCall, Alone, Shape, workVars, rowVars, worldVars,
     execVars, Goto
<1>16. ASSUME NEW r \in Runs, CompleteCall(r) PROVE Alone
  BY <1>16, <1>0 DEF CompleteCall, Alone, Shape, workVars, rowVars, worldVars,
     execVars, Goto
<1>17. ASSUME NEW r \in Runs, BeforeFinish(r) PROVE Alone
  BY <1>17, <1>0 DEF BeforeFinish, Alone, Shape, workVars, rowVars, worldVars,
     execVars, Goto, Destroyed, DestroyFails
<1>18. ASSUME NEW r \in Runs, CompleteRun(r) PROVE Alone
  BY <1>18, <1>0 DEF CompleteRun, Alone, Shape, workVars, rowVars, worldVars,
     execVars, Goto
<1>19. ASSUME NEW r \in Runs, Crash(r) PROVE Alone
  BY <1>19, <1>0 DEF Crash, Alone, Shape, workVars, rowVars, worldVars, execVars,
     Goto
<1>20. ASSUME NEW r \in Runs, LeaseExpires(r) PROVE Alone
  BY <1>20, <1>0 DEF LeaseExpires, Alone, Shape, workVars, rowVars, worldVars,
     execVars, Goto
<1>21. ASSUME NEW c \in Cleaners, NEW r \in Runs, ClaimCleanup(c, r) PROVE Alone
  BY <1>21, <1>0 DEF ClaimCleanup, Alone, Shape, workVars, rowVars, worldVars,
     execVars, Goto
<1>22. ASSUME NEW c \in Cleaners, ReadRun(c) PROVE Alone
  BY <1>22, <1>0 DEF ReadRun, Alone, Shape, workVars, rowVars, worldVars, execVars,
     Goto
<1>23. ASSUME NEW c \in Cleaners, RevokeGrant(c) PROVE Alone
  BY <1>23, <1>0 DEF RevokeGrant, Alone, Shape, workVars, rowVars, worldVars,
     execVars, Goto
<1>24. ASSUME NEW c \in Cleaners, CleanWorkspace(c) PROVE Alone
  <2>1. PICK r \in Runs : r = job[c]
    BY <1>24 DEF CleanWorkspace, CleanStep, CleanerInv, CleanerOK
  <2>2. \A q \in Runs : q # r => session'[q] = session[q]
    BY <1>24, <1>0, <2>1 DEF CleanWorkspace, Destroyed, DestroyFails, Shape
  <2>3. UNCHANGED <<claim, pc>>
    BY <1>24 DEF CleanWorkspace, execVars, workVars
  <2> QED
    BY <2>2, <2>3 DEF Alone
<1>25. ASSUME NEW c \in Cleaners, Release(c) PROVE Alone
  <2>1. PICK r \in Runs, o \in Outcomes : r = job[c] /\ o = ReleaseOutcome(c)
    BY <1>25, OutcomeTyped DEF Release, CleanStep
  <2>2. \A q \in Runs : q # r => claim'[q] = claim[q]
    BY <1>25, <1>0, <2>1, ClaimAlone DEF Release, ReleaseWork, workVars
  <2>3. UNCHANGED <<pc, session>>
    BY <1>25 DEF Release, execVars
  <2> QED
    BY <2>2, <2>3 DEF Alone
<1>26. ASSUME NEW c \in Cleaners, Ack(c) PROVE Alone
  BY <1>26, <1>0 DEF Ack, Alone, Shape, workVars, rowVars, worldVars, execVars, Goto
<1>27. ASSUME NEW c \in Cleaners, CleanerStops(c) PROVE Alone
  BY <1>27, <1>0 DEF CleanerStops, Alone, Shape, workVars, rowVars, worldVars,
     execVars, Goto
<1>28. ASSUME NEW m \in late, Arrives(m) PROVE Alone
  <2>1. m[2] \in Runs /\ (m[1] = "release" => m[3] \in Outcomes)
    BY LateTyped
  <2>2. \A q \in Runs : q # m[2] => claim'[q] = claim[q]
    BY <1>28, <1>0, <2>1, ClaimAlone DEF Arrives, ReleaseWork, workVars
  <2>3. UNCHANGED <<pc, session>>
    BY <1>28 DEF Arrives, execVars
  <2> QED
    BY <2>1, <2>2, <2>3 DEF Alone
<1>29. ASSUME FenceScope PROVE Alone
  BY <1>29, <1>0 DEF FenceScope, Alone, Shape, workVars, rowVars, worldVars,
     execVars, Goto
<1>30. ASSUME CancelScope PROVE Alone
  BY <1>30, <1>0 DEF CancelScope, Alone, Shape, workVars, rowVars, worldVars,
     execVars, Goto
<1>31. ASSUME DeleteScope PROVE Alone
  BY <1>31, <1>0 DEF DeleteScope, Alone, Shape, workVars, rowVars, worldVars,
     execVars, Goto
<1>32. ASSUME NEW i \in Items, EditItem(i) PROVE Alone
  BY <1>32, <1>0 DEF EditItem, Alone, Shape, workVars, rowVars, worldVars, execVars,
     TransitionItem
<1>33. CASE UNCHANGED vars
  BY <1>33 DEF vars, workVars, rowVars, worldVars, execVars, Alone
<1> QED
  BY <1>1, <1>2, <1>3, <1>4, <1>5, <1>6, <1>7, <1>8, <1>9, <1>10, <1>11, <1>12,
     <1>13, <1>14, <1>15, <1>16, <1>17, <1>18, <1>19, <1>20, <1>21, <1>22, <1>23,
     <1>24, <1>25, <1>26, <1>27, <1>28, <1>29, <1>30, <1>31, <1>32, <1>33 DEF
     Next, Execute, Clean

\* What a move is to the lease: nothing or a stop, a start, a take, or a return.
LeaseMove(r) ==
  \/ claim'[r] = claim[r] /\ (Working(r)' => Working(r))
  \/ claim'[r] = claim[r] /\ claim[r] = "held" /\ ~Working(r) /\ Working(r)'
  \/ claim[r] = "none" /\ claim'[r] = "held" /\ (Working(r)' <=> Working(r))
  \/ claim[r] \in {"none", "held"} /\ claim'[r] \in Outcomes /\ ~Working(r) /\ ~Working(r)'

\* Every move is one of these.
LEMMA LeaseMoves ==
  ASSUME TypeOK, RowInv, NEW r \in Runs, RunMove(r)
  PROVE  LeaseMove(r)
<1>0. /\ NoneOK(r) /\ ExecOK(r) /\ OwedOK(r) /\ SpentOK(r) /\ SuccessOK(r)
      /\ state[r] \in States
  BY DEF RowInv, TypeOK
<1>1. CASE Same(r)
  BY <1>0, <1>1 DEF Same, LeaseMove, NoneOK, ExecOK, Working, Executing
<1>2. CASE Created(r)
  BY <1>0, <1>2 DEF Created, LeaseMove, NoneOK, ExecOK, Working, Executing
<1>3. CASE EndedEarly(r)
  BY <1>0, <1>3 DEF EndedEarly, LeaseMove, NoneOK, ExecOK, Working, Executing
<1>4. CASE Walks(r)
  BY <1>0, <1>4 DEF Walks, LeaseMove, NoneOK, ExecOK, Working, Executing
<1>5. CASE TakesItem(r)
  BY <1>0, <1>5 DEF TakesItem, LeaseMove, NoneOK, ExecOK, Working, Executing
<1>6. CASE Issued(r)
  BY <1>0, <1>6 DEF Issued, LeaseMove, NoneOK, ExecOK, Working, Executing
<1>7. CASE Started(r)
  <2>1. ~Working(r) /\ ~Spent(r)
    BY <1>0, <1>7 DEF Started, ExecOK, SpentOK, Working, Executing, Stopped, RunOutcomes
  <2>2. claim[r] \in Outcomes \cup {"none", "held"}
    BY DEF TypeOK, WorkTypes
  <2>3. claim[r] = "held"
    BY <1>0, <1>7, <2>1, <2>2 DEF Started, ExecOK, Spent
  <2> QED
    BY <1>7, <2>1, <2>3 DEF Started, LeaseMove
<1>8. CASE Recorded(r)
  BY <1>0, <1>8 DEF Recorded, LeaseMove, NoneOK, ExecOK, Working, Executing
<1>9. CASE Opened(r)
  BY <1>0, <1>9 DEF Opened, LeaseMove, NoneOK, ExecOK, Working, Executing
<1>10. CASE Called(r)
  BY <1>0, <1>10 DEF Called, LeaseMove, NoneOK, ExecOK, Working, Executing
<1>11. CASE Destroys(r)
  BY <1>0, <1>11 DEF Destroys, LeaseMove, NoneOK, ExecOK, Working, Executing
<1>12. CASE Completed(r)
  BY <1>0, <1>12 DEF Completed, LeaseMove, NoneOK, ExecOK, Working, Executing
<1>13. CASE Fenced(r)
  BY <1>0, <1>13 DEF Fenced, LeaseMove, NoneOK, ExecOK, Working, Executing
<1>14. CASE Released(r)
  <2>1. claim'[r] \in RunOutcomes => finished[r]
    BY <1>14 DEF Released, Truthful
  <2>2. claim'[r] = "admission_failed" => ~started[r]
    BY <1>14 DEF Released, Truthful
  <2>3. finished[r] \/ ~started[r]
    BY <1>14, <2>1, <2>2 DEF Released, Outcomes
  <2>4. ~Working(r)
    BY <1>0, <1>14, <2>3 DEF Released, Truthful, Safe, Working, ExecOK, Executing
  <2> QED
    BY <1>14, <2>4 DEF Released, LeaseMove, Working
<1>15. CASE Acknowledged(r)
  BY <1>0, <1>15 DEF Acknowledged, LeaseMove, NoneOK, ExecOK, Working, Executing
<1>16. CASE Deleted(r)
  BY <1>0, <1>16 DEF Deleted, LeaseMove, NoneOK, ExecOK, Working, Executing
<1> QED
  BY <1>1, <1>2, <1>3, <1>4, <1>5, <1>6, <1>7, <1>8, <1>9, <1>10, <1>11, <1>12,
     <1>13, <1>14, <1>15, <1>16 DEF RunMove

\* Nobody's lease moves.
LEMMA LeaseStutters ==
  ASSUME \A r \in Runs : claim'[r] = claim[r] /\ (Working(r)' <=> Working(r))
  PROVE  UNCHANGED Lease!leaseVars
BY DEF Lease!leaseVars

\* The lease of one run moves.
LEMMA LeaseOfOne ==
  ASSUME TypeOK, HeldInv, WorkMoves, NEW r \in Runs, LeaseMove(r),
         \A q \in Runs : q # r => claim'[q] = claim[q] /\ (Working(q)' <=> Working(q))
  PROVE  [Lease!Next]_Lease!leaseVars
<1>1. CASE claim'[r] = claim[r] /\ (Working(r)' => Working(r))
  <2>1. CASE Working(r) /\ ~Working(r)'
    <3>1. Lease!Stop(r)
      BY <1>1, <2>1 DEF Lease!Stop
    <3> QED
      BY <3>1 DEF Lease!Next
  <2>2. CASE Working(r)' <=> Working(r)
    BY <1>1, <2>2, LeaseStutters
  <2> QED
    BY <1>1, <2>1, <2>2
<1>2. CASE claim'[r] = claim[r] /\ claim[r] = "held" /\ ~Working(r) /\ Working(r)'
  <2>1. Lease!Begin(r)
    BY <1>2 DEF Lease!Begin
  <2> QED
    BY <2>1 DEF Lease!Next
<1>3. CASE claim[r] = "none" /\ claim'[r] = "held" /\ (Working(r)' <=> Working(r))
  <2>1. active[ItemOf[r]] = None
    <3>1. "held" \notin Outcomes
      BY DEF Outcomes, RunOutcomes
    <3> QED
      BY <1>3, <3>1 DEF WorkMoves, WorkKept, Takes, Yields
  <2>2. \A q \in Runs : ItemOf[q] = ItemOf[r] => claim[q] # "held"
    BY <2>1 DEF HeldInv
  <2>3. Lease!Take(r)
    BY <1>3, <2>2 DEF Lease!Take
  <2> QED
    BY <2>3 DEF Lease!Next
<1>4. CASE /\ claim[r] \in {"none", "held"} /\ claim'[r] \in Outcomes
           /\ ~Working(r) /\ ~Working(r)'
  <2>1. claim'[r] \notin {"none", "held"}
    BY <1>4 DEF Outcomes, RunOutcomes
  <2>2. Lease!GiveBack(r)
    BY <1>4, <2>1 DEF Lease!GiveBack
  <2> QED
    BY <2>2 DEF Lease!Next
<1> QED
  BY <1>1, <1>2, <1>3, <1>4 DEF LeaseMove

\* Every step is one of the lease's, or none.
LEMMA LeaseStep ==
  ASSUME IInv, [Next]_vars
  PROVE  [Lease!Next]_Lease!leaseVars
<1>1. (\A r \in Runs : LeaseMove(r)) /\ WorkMoves /\ Alone
  BY RunStep, WorkStep, AloneStep, LeaseMoves DEF IInv, RunMoves
<1>2. CASE UNCHANGED <<claim, pc, session>>
  BY <1>2, LeaseStutters DEF Working
<1>3. ASSUME NEW r \in Runs, \A q \in Runs : q # r => UNCHANGED <<claim[q], pc[q], session[q]>>
      PROVE  [Lease!Next]_Lease!leaseVars
  <2>1. \A q \in Runs : q # r => claim'[q] = claim[q] /\ (Working(q)' <=> Working(q))
    BY <1>3 DEF Working
  <2> QED
    BY <1>1, <2>1, LeaseOfOne DEF IInv
<1> QED
  BY <1>1, <1>2, <1>3 DEF Alone

\* Admission, execution and cleanup implement an exclusive lease that is returned
\* only by a run that has stopped, and never taken twice (execution.go,
\* grant_cleanup.go).
THEOREM RunsImplementLease == Spec => ImplementsLease
<1>1. Init => Lease!Init
  BY DEF Init, WorkInit, Lease!Init, Working, Executing
<1>2. IInv /\ [Next]_vars => [Lease!Next]_Lease!leaseVars
  BY LeaseStep
<1> QED
  BY <1>1, <1>2, Invariance, PTL DEF Spec, ImplementsLease, Lease!Spec
=============================================================================
