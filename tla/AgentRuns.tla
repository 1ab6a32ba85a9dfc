----------------------------- MODULE AgentRuns -----------------------------
(***************************************************************************)
(* Agent Runs: admission, execution, settlement and cleanup                *)
(* (internal/agents, internal/agentrun, cmd/agent-runtime).                *)
(*                                                                         *)
(* A run is a row of agents.agent_runs.  Starting it takes, in this order, *)
(* the execution claim of its Work Item (owned by the Work service), a     *)
(* capability grant (owned by the identity service) and the branch lock    *)
(* (the row being "running").  Each of these is an obligation written on   *)
(* the row before the remote call, and is given back by a cleanup worker   *)
(* once the row is terminal: the grant is fenced, the workspace destroyed, *)
(* and only then is the Work Item released.                                *)
(*                                                                         *)
(* An executor is the agent-runtime goroutine of one run, from StartRun to *)
(* finishResult.  A cleaner is any caller of cleanupRunGrant: the sweep of *)
(* ReconcileGrantCleanup, or the CancelRun, StartRun, SettleRun or         *)
(* PurgeRuns call that ends a run.  A request to another service may be    *)
(* executed and its answer lost, or reach the service after its sender     *)
(* gave up; a replica may stop at any step.  Faults are counted.           *)
(***************************************************************************)
EXTENDS WorkExecution

CONSTANTS
  Cleaners,    \* concurrent callers of cleanupRunGrant
  StdioRuns,   \* runs that open a stdio MCP session in their workspace
  Purges,      \* whether the organization's runs may be purged
  MaxFaults    \* bound on lost calls, stalls and replica deaths

ASSUME AgentAssumption ==
  /\ None \notin Cleaners
  /\ StdioRuns \subseteq Runs
  /\ Purges \in BOOLEAN
  /\ MaxFaults \in Nat

VARIABLES
  state,     \* agent_runs.state; "none" before CreateRun, "gone" once purged
  started,   \* agent_runs.started_at is set
  finished,  \* agent_runs.execution_finished, with the completion receipt
  owed,      \* the cleanup flags: grant, workspace and Work release pending
  holder,    \* agent_runs.grant_cleanup_claim
  leased,    \* agent_runs.grant_cleanup_lease_until is in the future
  tool,      \* a tool call of the run has outcome 'pending'
  session,   \* the stdio session of the run's workspace pod
  grant,     \* the run's capability issuance at its owner
  pc,        \* where the run's executor is
  want,      \* the outcome the executor's completion receipt carries
  cpc,       \* where a cleaner is
  job,       \* the run a cleaner works on
  seen,      \* what the cleaner read of that run after claiming it
  errs,      \* the obligations the cleaner could not discharge
  late,      \* requests still on their way after their sender gave up
  purge,     \* progress of PurgeRuns
  faults     \* faults so far

rowVars == <<state, started, finished, owed, holder, leased, tool>>
worldVars == <<session, grant, late>>
execVars == <<pc, want>>
cleanVars == <<cpc, job, seen, errs>>
vars == <<workVars, rowVars, worldVars, execVars, cleanVars, purge, faults>>

Obligations == {"grant", "ws", "work"}
States == RunOutcomes \cup {"none", "queued", "running", "gone"}
Sessions == {"none", "recorded", "open", "ended", "lost"}
Admission == {"claim", "reclaim", "freeze", "issue"}
Executing == {"prepare", "stdio", "exec", "loop", "call", "tool", "finish"}
Steps == Admission \cup Executing \cup {"none", "refuse", "drive", "complete", "done"}
CleanSteps == {"idle", "read", "revoke", "workspace", "release", "ack"}
NotRead == [owed |-> {}, finished |-> FALSE, state |-> "none"]
Requests == ({"claim", "issue"} \X Runs \X {"none"}) \cup ({"release"} \X Runs \X Outcomes)

TypeOK ==
  /\ WorkTypes
  /\ state \in [Runs -> States]
  /\ started \in [Runs -> BOOLEAN] /\ finished \in [Runs -> BOOLEAN]
  /\ owed \in [Runs -> SUBSET Obligations]
  /\ holder \in [Runs -> Cleaners \cup {None}] /\ leased \in [Runs -> BOOLEAN]
  /\ tool \in [Runs -> BOOLEAN]
  /\ session \in [Runs -> Sessions]
  /\ grant \in [Runs -> {"none", "live", "fenced"}]
  /\ late \subseteq Requests
  /\ pc \in [Runs -> Steps] /\ want \in [Runs -> RunOutcomes]
  /\ cpc \in [Cleaners -> CleanSteps]
  /\ job \in [Cleaners -> Runs \cup {None}]
  /\ seen \in [Cleaners -> [owed : SUBSET Obligations, finished : BOOLEAN,
                            state : RunOutcomes \cup {"none"}]]
  /\ errs \in [Cleaners -> SUBSET Obligations]
  /\ purge \in {"no", "fenced", "cancelled", "done"}
  /\ faults \in 0..MaxFaults

Init ==
  /\ WorkInit
  /\ state = [r \in Runs |-> "none"]
  /\ started = [r \in Runs |-> FALSE] /\ finished = [r \in Runs |-> FALSE]
  /\ owed = [r \in Runs |-> {}]
  /\ holder = [r \in Runs |-> None] /\ leased = [r \in Runs |-> FALSE]
  /\ tool = [r \in Runs |-> FALSE]
  /\ session = [r \in Runs |-> "none"]
  /\ grant = [r \in Runs |-> "none"]
  /\ late = {}
  /\ pc = [r \in Runs |-> "none"] /\ want = [r \in Runs |-> "failed"]
  /\ cpc = [c \in Cleaners |-> "idle"]
  /\ job = [c \in Cleaners |-> None]
  /\ seen = [c \in Cleaners |-> NotRead] /\ errs = [c \in Cleaners |-> {}]
  /\ purge = "no" /\ faults = 0

Active(r) == state[r] \in {"queued", "running"}
Terminal(r) == state[r] \in RunOutcomes
Stopped(r) == state[r] \in RunOutcomes \cup {"gone"}

\* The run may still act on its Work Item's branch or workspace.
Working(r) == pc[r] \in Executing \/ session[r] = "open"

Fault == faults < MaxFaults /\ faults' = faults + 1
Goto(r, step) == pc' = [pc EXCEPT ![r] = step]

----------------------------------------------------------------------------
(* The row (store.go).                                                     *)

\* SetRunState to a terminal state: the grant's cleanup becomes due.
End(r, s) ==
  /\ state' = [state EXCEPT ![r] = s]
  /\ owed' = [owed EXCEPT ![r] = @ \cup {"grant"}]

CreateRun(r) ==
  /\ state[r] = "none" /\ purge = "no"
  /\ state' = [state EXCEPT ![r] = "queued"]
  /\ owed' = [owed EXCEPT ![r] = {"work"}]
  /\ Goto(r, "claim")
  /\ UNCHANGED <<workVars, started, finished, holder, leased, tool, worldVars, want, cleanVars, purge, faults>>

CancelRun(r) ==
  /\ Active(r) /\ End(r, "cancelled")
  /\ UNCHANGED <<workVars, started, finished, holder, leased, tool, worldVars, execVars, cleanVars, purge, faults>>

\* A queued run past its admission lease, or a running one past its deadline.
RecoverOrphan(r) ==
  /\ state[r] = "queued" \/ (state[r] = "running" /\ ~finished[r])
  /\ End(r, "failed")
  /\ UNCHANGED <<workVars, started, finished, holder, leased, tool, worldVars, execVars, cleanVars, purge, faults>>

----------------------------------------------------------------------------
(* Admission (StartRun, driveToRunning).                                   *)

Resend(r) == Goto(r, IF pc[r] = "claim" THEN "reclaim" ELSE "refuse")

\* The first of two identical attempts may be lost, or refused by Work.
ClaimWork(r) ==
  /\ pc[r] \in {"claim", "reclaim"}
  /\ \/ ClaimExecution(r) /\ Goto(r, "freeze") /\ UNCHANGED <<late, faults>>
     \/ /\ ~Admits(r) /\ ~Replays(r)
        /\ Resend(r) /\ UNCHANGED <<workVars, late, faults>>
     \/ Fault /\ Resend(r) /\ ClaimExecution(r) /\ UNCHANGED late
     \/ /\ Fault /\ Resend(r) /\ UNCHANGED workVars
        /\ late' = late \cup {<<"claim", r, "none">>}
  /\ UNCHANGED <<rowVars, session, grant, want, cleanVars, purge>>

FreezeWorkItem(r) ==
  /\ pc[r] = "freeze"
  /\ Goto(r, IF state[r] = "queued" THEN "issue" ELSE "refuse")
  /\ UNCHANGED <<workVars, rowVars, worldVars, want, cleanVars, purge, faults>>

\* Mutant of IssueIntent: a cancelled issuance is issued on a late request.
IssueIntentUnfenced(r) == grant' = [grant EXCEPT ![r] = "live"]

\* The grant owner refuses an issuance it was told to cancel (issuance.go).
IssueIntent(r) ==
  grant' = IF grant[r] = "fenced" THEN grant ELSE [grant EXCEPT ![r] = "live"]

IssueGrant(r) ==
  /\ pc[r] = "issue"
  /\ \/ /\ IssueIntent(r)
        /\ Goto(r, IF grant[r] = "fenced" THEN "refuse" ELSE "drive")
        /\ UNCHANGED <<late, faults>>
     \/ Fault /\ Goto(r, "refuse") /\ IssueIntent(r) /\ UNCHANGED late
     \/ /\ Fault /\ Goto(r, "refuse") /\ UNCHANGED grant
        /\ late' = late \cup {<<"issue", r, "none">>}
  /\ UNCHANGED <<workVars, rowVars, session, want, cleanVars, purge>>

\* The caller of StartRun disconnects, or its thirty seconds pass.
AdmissionTimesOut(r) ==
  /\ pc[r] \in Admission /\ Goto(r, "refuse")
  /\ UNCHANGED <<workVars, rowVars, worldVars, want, cleanVars, purge, faults>>

\* A run that was not admitted, or could not take its branch, fails.
RefuseRun(r) ==
  /\ pc[r] = "refuse" /\ Goto(r, "done")
  /\ IF state[r] = "queued" THEN End(r, "failed") ELSE UNCHANGED <<state, owed>>
  /\ UNCHANGED <<workVars, started, finished, holder, leased, tool, worldVars, want, cleanVars, purge, faults>>

\* BranchLock.Acquire: one running run per branch, and only a queued run.
BranchFree(r) == \A q \in Runs : ItemOf[q] = ItemOf[r] => state[q] # "running"

\* Mutant of Acquirable: the update does not ask for a queued run.
AcquirableAnyState(r) == BranchFree(r)

Acquirable(r) == state[r] = "queued" /\ BranchFree(r)

Acquire(r) ==
  /\ pc[r] = "drive"
  /\ \/ /\ Acquirable(r)
        /\ state' = [state EXCEPT ![r] = "running"]
        /\ started' = [started EXCEPT ![r] = TRUE]
        /\ \/ Goto(r, "prepare") /\ UNCHANGED faults
           \/ Goto(r, "done") /\ Fault
     \/ /\ ~Acquirable(r)
        /\ Goto(r, "refuse") /\ UNCHANGED <<state, started, faults>>
  /\ UNCHANGED <<workVars, finished, owed, holder, leased, tool, worldVars, want, cleanVars, purge>>

----------------------------------------------------------------------------
(* Execution (newExecuteFunc, Runner.Run, Loop.Execute).                   *)

\* Outcomes of a step cut short: a run that was stopped reads as cancelled.
Failures(r) == {"failed", "over_budget"} \cup (IF Stopped(r) THEN {"cancelled"} ELSE {})

Prepare(r) ==
  /\ pc[r] = "prepare"
  /\ \/ /\ grant[r] = "live"
        /\ Goto(r, IF r \in StdioRuns THEN "stdio" ELSE "loop")
        /\ UNCHANGED want
     \/ \E o \in Failures(r) : want' = [want EXCEPT ![r] = o] /\ Goto(r, "complete")
  /\ UNCHANGED <<workVars, rowVars, worldVars, cleanVars, purge, faults>>

\* RecordWorkspaceCleanup: the obligation is durable before the command runs.
RecordSession(r) ==
  /\ pc[r] = "stdio"
  /\ IF Active(r) /\ ~finished[r]
     THEN /\ session' = [session EXCEPT ![r] = "recorded"]
          /\ owed' = [owed EXCEPT ![r] = @ \cup {"ws"}]
          /\ Goto(r, "exec")
     ELSE UNCHANGED <<session, owed>> /\ Goto(r, "loop")
  /\ UNCHANGED <<workVars, state, started, finished, holder, leased, tool, grant, late, want, cleanVars, purge, faults>>

OpenSession(r) ==
  /\ pc[r] = "exec" /\ Goto(r, "loop")
  /\ session' = [session EXCEPT ![r] = IF @ = "recorded" THEN "open" ELSE @]
  /\ UNCHANGED <<workVars, rowVars, grant, late, want, cleanVars, purge, faults>>

\* Loop.cancelled: the row says so, unless it cannot be read.
Carries(r) ==
  \/ state[r] \notin {"cancelled", "gone"} /\ UNCHANGED faults
  \/ state[r] \in {"cancelled", "gone"} /\ Fault

\* The step boundary: a run that reads as cancelled calls nothing more.
CheckRun(r) ==
  /\ pc[r] = "loop" /\ Carries(r)
  /\ Goto(r, "call")
  /\ UNCHANGED <<workVars, rowVars, worldVars, want, cleanVars, purge>>

EndLoop(r) ==
  /\ pc[r] = "loop" /\ Goto(r, "finish")
  /\ \/ /\ Carries(r)
        /\ \E o \in Failures(r) \cup {"succeeded"} : want' = [want EXCEPT ![r] = o]
     \/ /\ state[r] \in {"cancelled", "gone"} /\ UNCHANGED faults
        /\ \E o \in {"cancelled", "failed"} : want' = [want EXCEPT ![r] = o]
  /\ UNCHANGED <<workVars, rowVars, worldVars, cleanVars, purge>>

\* Registry.Call records the call before it acts; no record, no call.
RecordCall(r) ==
  /\ pc[r] = "call"
  /\ \/ /\ state[r] # "gone"
        /\ tool' = [tool EXCEPT ![r] = TRUE] /\ Goto(r, "tool")
        /\ UNCHANGED want
     \/ /\ Stopped(r)
        /\ want' = [want EXCEPT ![r] = "failed"] /\ Goto(r, "finish")
        /\ UNCHANGED tool
  /\ UNCHANGED <<workVars, state, started, finished, owed, holder, leased, worldVars, cleanVars, purge, faults>>

\* The call's receipt; three failed writes end the run as failed.
CompleteCall(r) ==
  /\ pc[r] = "tool"
  /\ \/ /\ tool' = [tool EXCEPT ![r] = FALSE] /\ Goto(r, "loop")
        /\ UNCHANGED <<want, faults>>
     \/ /\ Fault
        /\ want' = [want EXCEPT ![r] = "failed"] /\ Goto(r, "finish")
        /\ UNCHANGED tool
  /\ UNCHANGED <<workVars, state, started, finished, owed, holder, leased, worldVars, cleanVars, purge>>

\* Mutant of Destroyed: closing the stream is taken for the end of the process.
DestroyedByClose(r) ==
  /\ session[r] # "lost"
  /\ owed' = [owed EXCEPT ![r] = @ \ {"ws"}]
  /\ UNCHANGED <<session, faults>>

\* DestroyConfirmed and ConfirmWorkspaceCleanup: termination was observed.
Destroyed(r) ==
  /\ session[r] # "lost"
  /\ session' = [session EXCEPT ![r] = "ended"]
  /\ owed' = [owed EXCEPT ![r] = @ \ {"ws"}]
  /\ UNCHANGED faults

\* The pod went without evidence, now or earlier, or the write was lost.
DestroyFails(r) ==
  /\ \/ session[r] = "lost" /\ UNCHANGED <<session, faults>>
     \/ /\ Fault
        /\ session[r] # "lost"
        /\ \E s \in {session[r], "ended"} \cup (IF session[r] = "ended" THEN {} ELSE {"lost"}) :
             session' = [session EXCEPT ![r] = s]
  /\ UNCHANGED owed

\* Mutant of BeforeFinish: when closing fails, the result is what the row says.
BeforeFinishKeepsState(r) ==
  /\ pc[r] = "finish" /\ Goto(r, "complete")
  /\ \/ "ws" \notin owed[r] /\ UNCHANGED <<session, owed, want, faults>>
     \/ "ws" \in owed[r] /\ Destroyed(r) /\ UNCHANGED want
     \/ /\ "ws" \in owed[r] /\ DestroyFails(r)
        /\ want' = [want EXCEPT ![r] = state[r]]
  /\ UNCHANGED <<workVars, state, started, finished, holder, leased, tool, grant, late, cleanVars, purge>>

\* Loop.finish: sessions are closed before a success receipt may be written.
BeforeFinish(r) ==
  /\ pc[r] = "finish" /\ Goto(r, "complete")
  /\ \/ "ws" \notin owed[r] /\ UNCHANGED <<session, owed, want, faults>>
     \/ "ws" \in owed[r] /\ Destroyed(r) /\ UNCHANGED want
     \/ /\ "ws" \in owed[r] /\ DestroyFails(r)
        /\ want' = [want EXCEPT ![r] = "failed"]
  /\ UNCHANGED <<workVars, state, started, finished, holder, leased, tool, grant, late, cleanVars, purge>>

\* CompleteRun's refusals (completion.go).
Refuses(r) ==
  \/ state[r] = "gone"
  \/ want[r] = "succeeded" /\ (tool[r] \/ "ws" \in owed[r])
  \/ ~finished[r] /\ state[r] \in {"succeeded", "over_budget"}

\* An earlier cancellation or recovery wins the state, not the receipt.
Conclude(r) ==
  /\ finished' = [finished EXCEPT ![r] = TRUE]
  /\ IF Terminal(r) THEN UNCHANGED <<state, owed>> ELSE End(r, want[r])

CompleteRun(r) ==
  /\ pc[r] = "complete" /\ Goto(r, "done")
  /\ IF Refuses(r) THEN UNCHANGED <<state, finished, owed>> ELSE Conclude(r)
  /\ UNCHANGED <<workVars, started, holder, leased, tool, worldVars, want, cleanVars, purge, faults>>

\* The replica that executes the run stops; its workspace does not.
Crash(r) ==
  /\ pc[r] \notin {"none", "done"} /\ Fault /\ Goto(r, "done")
  /\ UNCHANGED <<workVars, rowVars, worldVars, want, cleanVars, purge>>

----------------------------------------------------------------------------
(* Cleanup (grant_cleanup.go).                                             *)

\* Mutant of CleanupDue: the sweep looks for unrevoked grants only.
CleanupDueForGrant(r) == Terminal(r) /\ "grant" \in owed[r] /\ ~leased[r]

CleanupDue(r) == Terminal(r) /\ owed[r] # {} /\ ~leased[r]

Idle(c) ==
  /\ cpc' = [cpc EXCEPT ![c] = "idle"]
  /\ job' = [job EXCEPT ![c] = None]
  /\ seen' = [seen EXCEPT ![c] = NotRead]
  /\ errs' = [errs EXCEPT ![c] = {}]

ClaimCleanup(c, r) ==
  /\ cpc[c] = "idle" /\ CleanupDue(r)
  /\ holder' = [holder EXCEPT ![r] = c]
  /\ leased' = [leased EXCEPT ![r] = TRUE]
  /\ cpc' = [cpc EXCEPT ![c] = "read"]
  /\ job' = [job EXCEPT ![c] = r]
  /\ UNCHANGED <<workVars, state, started, finished, owed, tool, worldVars, execVars, seen, errs, purge, faults>>

\* Read after claiming, then check that the claim is still ours.
ReadRun(c) ==
  /\ cpc[c] = "read"
  /\ LET r == job[c] IN
     IF Terminal(r) /\ holder[r] = c /\ leased[r]
     THEN /\ seen' = [seen EXCEPT ![c] = [owed |-> owed[r], finished |-> finished[r],
                                           state |-> state[r]]]
          /\ cpc' = [cpc EXCEPT ![c] = "revoke"]
          /\ UNCHANGED <<job, errs>>
     ELSE Idle(c)
  /\ UNCHANGED <<workVars, rowVars, worldVars, execVars, purge, faults>>

CleanStep(c, from, to) == cpc[c] = from /\ cpc' = [cpc EXCEPT ![c] = to]
Failed(c, o) == errs' = [errs EXCEPT ![c] = @ \cup {o}]

\* CancelIssuance fences the identity, issued or not.
RevokeGrant(c) ==
  LET r == job[c] IN
  /\ CleanStep(c, "revoke", "workspace")
  /\ \/ "grant" \notin seen[c].owed /\ UNCHANGED <<grant, errs, faults>>
     \/ /\ "grant" \in seen[c].owed
        /\ grant' = [grant EXCEPT ![r] = "fenced"] /\ UNCHANGED <<errs, faults>>
     \/ /\ "grant" \in seen[c].owed /\ Fault /\ Failed(c, "grant")
        /\ grant' \in {grant, [grant EXCEPT ![r] = "fenced"]}
  /\ UNCHANGED <<workVars, rowVars, session, late, execVars, job, seen, purge>>

CleanWorkspace(c) ==
  LET r == job[c] IN
  /\ CleanStep(c, "workspace", "release")
  /\ \/ "ws" \notin seen[c].owed \cap owed[r] /\ UNCHANGED <<session, owed, errs, faults>>
     \/ "ws" \in seen[c].owed \cap owed[r] /\ Destroyed(r) /\ UNCHANGED errs
     \/ "ws" \in seen[c].owed \cap owed[r] /\ DestroyFails(r) /\ Failed(c, "ws")
  /\ UNCHANGED <<workVars, state, started, finished, holder, leased, tool, grant, late, execVars, job, seen, purge>>

\* Mutant of ReleaseBlocked: a terminal row is taken for a run that has stopped.
ReleaseBlockedByErrors(c) == tool[job[c]] \/ errs[c] # {}

\* The conditions under which the Work Item is not given back yet.
ReleaseBlocked(c) ==
  LET r == job[c] IN
  \/ tool[r]
  \/ errs[c] # {}
  \/ started[r] /\ ~seen[c].finished

ReleaseOutcome(c) == IF started[job[c]] THEN seen[c].state ELSE "admission_failed"

\* Work executes a release, or refuses it and changes nothing.
ReleaseWork(r, o) == IF Releasable(r, o) THEN ReleaseExecution(r, o) ELSE UNCHANGED workVars

Release(c) ==
  LET r == job[c]
      o == ReleaseOutcome(c) IN
  /\ CleanStep(c, "release", "ack")
  /\ \/ "work" \notin seen[c].owed /\ UNCHANGED <<workVars, errs, late, faults>>
     \/ /\ "work" \in seen[c].owed /\ (ReleaseBlocked(c) \/ ~Releasable(r, o))
        /\ Failed(c, "work") /\ UNCHANGED <<workVars, late, faults>>
     \/ /\ "work" \in seen[c].owed /\ ~ReleaseBlocked(c) /\ Releasable(r, o)
        /\ ReleaseExecution(r, o) /\ UNCHANGED <<errs, late, faults>>
     \/ /\ "work" \in seen[c].owed /\ ~ReleaseBlocked(c) /\ Fault /\ Failed(c, "work")
        /\ \/ ReleaseWork(r, o) /\ UNCHANGED late
           \/ UNCHANGED workVars /\ late' = late \cup {<<"release", r, o>>}
  /\ UNCHANGED <<rowVars, session, grant, execVars, job, seen, purge>>

\* The acknowledgement counts only for the claim that is still recorded.
Ack(c) ==
  LET r == job[c] IN
  /\ cpc[c] = "ack" /\ Idle(c)
  /\ IF holder[r] = c /\ owed[r] # {}
     THEN /\ owed' = [owed EXCEPT ![r] = errs[c]]
          /\ holder' = [holder EXCEPT ![r] = None]
          /\ leased' = [leased EXCEPT ![r] = FALSE]
     ELSE UNCHANGED <<owed, holder, leased>>
  /\ UNCHANGED <<workVars, state, started, finished, tool, worldVars, execVars, purge, faults>>

CleanerStops(c) ==
  /\ cpc[c] # "idle" /\ Fault /\ Idle(c)
  /\ UNCHANGED <<workVars, rowVars, worldVars, execVars, purge>>

\* The two-minute lease outlasts every cleaner that is neither dead nor stalled.
LeaseExpires(r) ==
  /\ leased[r]
  /\ IF job[holder[r]] = r THEN Fault ELSE UNCHANGED faults
  /\ leased' = [leased EXCEPT ![r] = FALSE]
  /\ UNCHANGED <<workVars, state, started, finished, owed, holder, tool, worldVars, execVars, cleanVars, purge>>

----------------------------------------------------------------------------
(* Late requests, the organization's purge, a person's edit.               *)

Arrives(m) ==
  /\ late' = late \ {m}
  /\ \/ /\ m[1] = "claim"
        /\ IF Admits(m[2]) THEN ClaimExecution(m[2]) ELSE UNCHANGED workVars
        /\ UNCHANGED grant
     \/ m[1] = "issue" /\ IssueIntent(m[2]) /\ UNCHANGED workVars
     \/ m[1] = "release" /\ ReleaseWork(m[2], m[3]) /\ UNCHANGED grant
  /\ UNCHANGED <<rowVars, session, execVars, cleanVars, purge, faults>>

\* PurgeRuns: no run is admitted from here on.
FenceScope ==
  /\ Purges /\ purge = "no" /\ purge' = "fenced"
  /\ UNCHANGED <<workVars, rowVars, worldVars, execVars, cleanVars, faults>>

CancelScope ==
  /\ purge = "fenced" /\ purge' = "cancelled"
  /\ state' = [r \in Runs |-> IF Active(r) THEN "cancelled" ELSE state[r]]
  /\ owed' = [r \in Runs |-> IF Active(r) THEN owed[r] \cup {"grant"} ELSE owed[r]]
  /\ UNCHANGED <<workVars, started, finished, holder, leased, tool, worldVars, execVars, cleanVars, faults>>

DeleteScope ==
  /\ purge = "cancelled" /\ purge' = "done"
  /\ \A r \in Runs : state[r] # "none" => Terminal(r) /\ owed[r] = {}
  /\ state' = [r \in Runs |-> IF state[r] = "none" THEN "none" ELSE "gone"]
  /\ tool' = [r \in Runs |-> FALSE]
  /\ UNCHANGED <<workVars, started, finished, owed, holder, leased, worldVars, execVars, cleanVars, faults>>

EditItem(i) ==
  /\ TransitionItem(i)
  /\ UNCHANGED <<rowVars, worldVars, execVars, cleanVars, purge, faults>>

----------------------------------------------------------------------------
Execute(r) ==
  \/ ClaimWork(r) \/ FreezeWorkItem(r) \/ IssueGrant(r) \/ RefuseRun(r) \/ Acquire(r)
  \/ Prepare(r) \/ RecordSession(r) \/ OpenSession(r)
  \/ CheckRun(r) \/ EndLoop(r) \/ RecordCall(r) \/ CompleteCall(r)
  \/ BeforeFinish(r) \/ CompleteRun(r)

Clean(c) ==
  \/ \E r \in Runs : ClaimCleanup(c, r)
  \/ ReadRun(c) \/ RevokeGrant(c) \/ CleanWorkspace(c) \/ Release(c) \/ Ack(c)

Next ==
  \/ \E r \in Runs : \/ CreateRun(r) \/ CancelRun(r) \/ RecoverOrphan(r)
                     \/ AdmissionTimesOut(r) \/ Execute(r) \/ Crash(r) \/ LeaseExpires(r)
  \/ \E c \in Cleaners : Clean(c) \/ CleanerStops(c)
  \/ \E m \in late : Arrives(m)
  \/ FenceScope \/ CancelScope \/ DeleteScope
  \/ \E i \in Items : EditItem(i)

Spec == Init /\ [][Next]_vars

(***************************************************************************)
(* The executor is a goroutine and runs on; the loop ends because every    *)
(* model and tool call carries the run's deadline; the recovery and        *)
(* cleanup sweeps run every minute in every replica.                       *)
(***************************************************************************)
Fairness ==
  /\ \A r \in Runs : /\ WF_vars(Execute(r)) /\ SF_vars(EndLoop(r))
                     /\ WF_vars(RecoverOrphan(r)) /\ WF_vars(LeaseExpires(r))
  /\ \A c \in Cleaners : WF_vars(Clean(c)) /\ \A r \in Runs : SF_vars(ClaimCleanup(c, r))

FairSpec == Spec /\ Fairness

----------------------------------------------------------------------------
(* Properties.                                                             *)

(***************************************************************************)
(* A Work Item is worked on by one run at a time: no two runs of an item   *)
(* have an executor in the workspace or an open stdio session, whatever    *)
(* was cancelled, recovered, crashed or delivered late.                    *)
(***************************************************************************)
ExclusiveExecution ==
  \A r, q \in Runs : r # q /\ ItemOf[r] = ItemOf[q] => ~(Working(r) /\ Working(q))

(***************************************************************************)
(* A grant that is live belongs to a run that may still need it, or to one *)
(* whose row still says that it must be revoked: no issuance, however      *)
(* late, outlives the record that would fence it.                          *)
(***************************************************************************)
AuthorityHasObligation ==
  \A r \in Runs : grant[r] = "live" => Active(r) \/ (Terminal(r) /\ "grant" \in owed[r])

(***************************************************************************)
(* A Work Item held by a run has a row that still owes its release: an     *)
(* acknowledged cleanup, or a purged row, never leaves a claim behind.     *)
(***************************************************************************)
ClaimHasObligation ==
  \A r \in Runs : claim[r] = "held" => (Active(r) \/ Terminal(r)) /\ "work" \in owed[r]

(***************************************************************************)
(* What Work was told is true: "admission_failed" of a run that never      *)
(* started and never will, any other outcome of a run that started,        *)
(* confirmed its end, has stopped working and has that very outcome.       *)
(***************************************************************************)
ReleaseIsTrue ==
  \A r \in Runs :
    /\ claim[r] = "admission_failed" => ~started[r] /\ ~Working(r) /\ state[r] # "queued"
    /\ claim[r] \in RunOutcomes =>
         /\ started[r] /\ finished[r] /\ ~Working(r)
         /\ state[r] \in {claim[r], "gone"}

(***************************************************************************)
(* A run that succeeded left its receipt, has no tool call without an      *)
(* outcome, and its workspace session was seen to end.                     *)
(***************************************************************************)
SuccessIsEvidenced ==
  \A r \in Runs : state[r] = "succeeded" =>
    finished[r] /\ ~tool[r] /\ session[r] \in {"none", "ended"} /\ ~Working(r)

(***************************************************************************)
(* Without faults, every run that was created reaches a terminal state and *)
(* everything it held is given back.                                       *)
(***************************************************************************)
CreatedRunIsReleased ==
  \A r \in Runs : state[r] = "queued" ~> (Stopped(r) /\ owed[r] = {})

Lease == INSTANCE ExecutionLease WITH
  lease <- [r \in Runs |-> IF claim[r] = "none" THEN "free"
                           ELSE IF claim[r] = "held" THEN "held" ELSE "spent"],
  busy <- {r \in Runs : Working(r)}

(***************************************************************************)
(* Admission, execution and cleanup together implement an exclusive lease. *)
(***************************************************************************)
ImplementsLease == Lease!Spec
=============================================================================
