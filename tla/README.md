# NovaForge: a TLA+ model of the platform

NovaForge is a set of Go services around git: a git platform, CI, agents,
reviews and gates, a secret broker, deployments, and the services they need.
This directory holds TLA+ specifications of the parts whose correctness depends
on the order of the steps of several processes, the TLC configurations that
check them on small instances, and proofs that TLAPS checks for every instance.

## The system

| Part | State | Operations | What is hard |
|---|---|---|---|
| CI scheduler (`internal/ci/scheduler.go`, `trigger.go`) | `workflow_runs`, `workflow_jobs`, a Redis consumer group | read, reclaim, schedule, acknowledge | redelivery, slow handlers, a crash between statements |
| CI dispatch (`pump.go`, `dispatch.go`, `connections.go`, `reservation.go`) | job claims, runner incarnations, streams in memory | claim, prepare, start, send, release, interrupt | several replicas, streams that close, commits whose answer is lost |
| Credential outbox (`credential_outbox.go`, migration 7) | `credential_cleanup` | prepare, abandon, recover, clean up | late issuance, lost acknowledgements, timers |
| Runner receipts and logs (`runner_journal.go`, `logs.go`) | receipts, log lines, seals | report, append, seal, retain | repeated and late receipts |
| Agent jobs (`agentjobs.go`) | `agent_run_id` of a job | claim, start, follow | a run started but not recorded |
| Secret broker (`internal/secrets`) | leases, scopes, attempts | issue, redeem, revoke, fence, retry, purge | unknown outcome at the provider, a fence against a reservation |
| Deployment (`internal/deployment`) | operations, attempts, credential obligations, materializations, success outbox | request, approve, execute, retry, reconcile, clean up, publish | a lock that can be lost while its call goes on, requests that arrive late, uncertain external outcome |
| Agents (`internal/agents`, `agentrun`, `tools`, `approvals`, `capability`, `swarm`, `workspace`) | runs, budgets, tool audit, approvals, workspaces | start, step, cancel, approve, reap | cancellation against progress, single use of an approval |
| Work | items, execution claims | claim, release, transition | two owners of one state column |
| Reviews and gates (`internal/reviews`, `gates`, `approvals`) | Engineering Runs, verdicts, evaluations, approval requests, agent review requests and executions | review, evaluate, decide, merge, claim, receive | evidence for a head that has moved, a model call whose end is unknown |
| Git platform (`internal/gitops`) | repositories, refs, push events | push, merge, publish | ref moves between check and update |
| Events and webhooks | Redis streams, deliveries | publish, consume, deliver | at-least-once delivery |
| Identity, retention, cleanup, graph, indexing, knowledge, maintenance, edge, MCP | their own tables | mostly requests and background sweeps | purge across services |

Services call each other over gRPC and tell each other of pushes and deletions
through Redis streams. Each service owns its PostgreSQL schema. CI asks the
secret broker (inside the gates service) for leases, the git platform for
workflow files, and agents and work for agent jobs.

## Modules

### CIDispatch

Replicas of the CI service share one database; each runs one pump and one
dispatcher. The tables `workflow_jobs`, `workflow_runs`, `runners` and
`credential_cleanup` are the variables `status`, `runnerId`, `jobConn`,
`receipt`, `runStatus`, `connection`, `cleanup` and `expired`; the dispatcher's
map and the `Connect` handlers are `registered`, `stream`, `runnerOf` and
`hostOf`; a pump's position in `offer` and its local variables are `pc`,
`snapshot` and `offer`; the broker, as CI sees it, is `inflight`, `lease` and
`fence`. `sent` remembers every job written to a stream.

One action is one transaction, one broker call or one channel write, so
everything else interleaves between them. `offer` of `pump.go` is the sequence
`ClaimForDispatch`, `CloneURLFails` or `PrepareCredentials`, `IssueJobLease`,
`IssueReturns`, `RedeemJobLease`, then `RevokeAttempt`, `AbandonCredentials`,
`BlockJob` or `SetJobStatus` on the failing paths, and `StartClaimedJob`,
`DispatchTo` on the good one. A transaction that commits although its caller
sees an error is an explicit alternative of `ClaimForDispatch`,
`PrepareCredentials`, `AbandonCredentials`, `BlockJob`, `SetJobStatus` and
`StartClaimedJob`. The trigger of migration 7 is part of `Write`, which every
status change goes through. `Crash` closes a replica's streams without
`EndRunnerConnection` and forgets what it held in memory.

Abstractions: the leases of all secrets of an attempt are one lease; `not_before`
only delays a claim, so it is left to the interleaving; labels are not consulted
by the claim; job and run deletion, agent jobs and log lines are not in this
module.

### CIScheduler

`entry` is the state of a stream entry in the consumer group, `runStatus` and
`job` are the rows a commit has, and `pc`, `handling`, `key`, `todo` are the
handlers. A handler is a consumer's loop or a person's `TriggerRun`; a batch of
entries is handled one by one, so a batch of one is enough. `Fail` is a crash or
the error of any call, `XACK` included. What runners do to inserted jobs is
`JobFinishes` followed by `RollUpRunStatus`. A run's `queued` stands for both of
its unfinished statuses. A handler whose `CreateRun` finds the run reads it back
under its caller's authorization scope: a person gets the run, but a push handler
carries only a service token for outgoing calls, fails there, and leaves its entry
pending, to be claimed again and again.

### WorkExecution

The execution claim of a Work Item (`work/execution.go`) and the other writers
of its state: `itemState`, `claimed` and `active` are columns of `work_items`,
`claim` the row a run has in `execution_claims` ("held" while its outcome is
null). Each operation is one transaction under the item's row lock. A release of
a claim that was never made writes a tombstone. The module has no `Next` of its
own: `AgentRuns` and `Swarm` extend it. A maintenance proposal that is not
approved is refused like an item with an unfinished blocker, and is left out.

### ExecutionLease

What the claim promises, in four actions: a lease is taken by one run of an item
at a time and once, work happens only under it, and it is given back only when
the run has stopped. `AgentRuns` is proved to implement it (`ImplementsLease`).

### AgentRuns

The saga of a run. Columns of `agent_runs` are `state`, `started`, `finished`
(the completion receipt), `owed` (the three `_pending` flags), `holder` and
`leased` (the cleanup claim and its lease); `tool` is an audit row that is still
pending, `session` the stdio process in the workspace pod, `grant` the issuance
at its owner, `late` the requests that arrive after their sender gave up.

`pc` is the executor: `ClaimWork` (twice), `FreezeWorkItem`, `IssueGrant` are the
admission part of `StartRun`; `Acquire` is `driveToRunning` with
`BranchLock.Acquire`; `Prepare` to `BeforeFinish` are `newExecuteFunc`,
`Runner.Run` and `Loop.Execute`; `CompleteRun` is `finishResult` with the
transaction of `completion.go`. `cpc` is a cleaner, any caller of
`cleanupRunGrant`; its steps follow that function. It acts on the row it read
after claiming (`seen`: what was owed, the state, the receipt), however old that
copy is by then, and only its acknowledgement compares the claim again.
`CancelRun` and `RefuseRun`
end with a cleanup in the code; the cleaner that takes the row is that call or
the sweep, so the call may also fail to get the claim, as in the code.

Abstractions. `RecoverOrphan` may happen at any time: the admission lease and the
deadline only delay it. Model calls and budgets are the choice of outcome in
`EndLoop`. A pod without a stdio session has no obligation in the code and none
here. The executor's second, deferred `ConfirmWorkspaceCleanup` does what the
cleaner does and is left to it.

### Swarm

One epic; its subtasks are `Items`. A replica's tick is `BeginTick` (the children
are read), `Note`, `Ask` and `Judge` (one child each; the question to
agent-runtime and the transition are two steps), `ListReady`, `ClaimSubtask`,
`StartSubtask`, `RevertSubtask` and `EndTick`. Runs are seen as the scheduler
sees them: admission is one step, and a refused run leaves only a failed row
(`refused`). Every subtask has a role with an enabled agent and the epic a human
assignee; order among ready subtasks is free.

### CredentialFence

What the broker promises to those who close a scope, in four actions: a lease is
admitted only while its scopes are open, a scope once closed stays closed, and
"fenced, nothing pending" may be reported only when every admitted lease of the
scope has ended. `SecretBroker` is proved to implement it (`ImplementsFence`): a
lease is outstanding while it may be live at the provider, whatever its row says.
`CIDispatch` and `Deployment` model the broker by this promise.

### SecretBroker

`row` is a line of `secret_leases`; `closed` are the fences of the run and of its
attempts; `provider` is what the provider holds. An issuer is `issueDynamic`:
`Reserve` (the row exists before the provider is asked), `CallProvider` (issued,
refused, or an answer lost while `LateLease` may still issue), `RecordHandle`,
`RestoreHandle` when that write fails or its reply is lost, `Compensate`,
`Publish`. When the write did commit, a revoker may use the handle, mark the row
and let `Purge` delete it before `RestoreHandle`, which then re-creates it without
`revoked_at`: a scope reported clean can have a row again, though never a
credential. A redeemer is
`Redeem`, whose check and whose final update are two steps with a provider call
between. A revoker is `RevokeRunLeases` (`CloseScope`), `Revoke` or the retry
worker (`RetryPass`); all go through `RequestRevocation` or `RevokeNext`,
`RevokeAtProvider` and `MarkRevoked`, one lease at a time, and `EndPass` counts
what is pending. `Purge` deletes the rows `PurgeCredentials` may delete. One
organization, one run, one provider endpoint; the value of a credential and its
encryption are left out; expiry may happen at any time.

### Deployment

One destination; `Ops` are its operations in order of `created_at`. `att` and
`obl` are the attempts and their credential obligations, `mat` the
materialization rows, `outbox` the success events; `fence` and `lease` are the
issuer, `secret`, `job` and `history` the cluster: the Secret, the Job with its
Pod, and the revisions of the Helm release. A worker is one call: `Begin` is
`execute` up to `start`; `Sweep` and `Judge` clean up earlier attempts; `Prepare`
to `RecordSecret` are `SecretMaterializer.Prepare`; `MarkDispatching`,
`SubmitJob`, `Watch`, `GiveUp` are `run`; `CloseRow`, `RevokeIssuer`,
`RemoveSecret`, `Resolve` are the revocation; `FinalState` and `Finish` end the
call; `ObserveExisting` is an administrator's recovery and `Janitor` the cleanup
worker. The lock is the variable `lock`; `LoseSession` frees it under a call
that goes on, after which the journal's writes fail and all the others do not.
A request to Kubernetes whose answer is lost stays in flight (`LateSecret`,
`LateJob`). Expiry of authority is a refusal that may happen (`Uncovered`); the
checks of identity and binding, which refuse a call before it changes anything,
are left out, and so is a change of a target's configuration: the janitor refuses
the obligations of an older revision of it (`credentials.go:109`).

### MergePath

One Engineering Run, from verdict to merge. `head` and `target` are the two
branches, `review` the last verdict of each person with the revision it is about,
`eval` the evaluations recorded per pair of revisions, `approval` the request per
head; `log` are the merges that reached git, `passed` and `endorsed` remember
what was ever true. A caller is one handler: `SubmitReview` with the automatic
merge that follows it (`Consider`), or `MergeRun`; both go on to `Evaluate` where
the code does (`ResolveForRun`, `RaiseApproval`, `RunGates`) and to `Merger.Merge`
(`CheckOpen`, `PinSource`, `PinTarget`, `MayMergePinned`, `MayMergeResolved`,
`CheckApproval`, `MergeInClone`, `UpdateRefs`, `SetRunState`). Every read of
another service is a step of its own, so pushes and other handlers interleave.
The branches of one repository are listed or cloned together; a fork is listed and
fetched after the target repository, so `ResolveForRun`, `MayMergePinned` and
`MergeInClone` take two steps for it, and `UpdateRefs` does not verify it.
One required gate and one governed action stand for the folds over gates and
requirements: the code takes the conjunction of all of them. Whether the source
is a fork is chosen initially. A commit's number orders what contains what.

### AgentReview

Independent reviews by agents. `state` and `expired` are the request and its
lease, `exec` its rows of `review_executions`, `fresh` and `rotation` the order
in which their receipts are looked up, `verdicts` the reviews that were
recorded, and `call` the gateway that runs the models. A worker's `Tick` sweeps
the oldest unretired execution and claims a request; then `BeginExecution`,
`BindAndSend`, `Await`, `SaveReview`, `Conclude`. `LeaseRunsOut` is the clock,
`CloseRun` a merge or a closing of the run under review. One organization; roles
are called one after the other as in the code. The code sweeps four executions
per tick and the model one, the harder case for `ReceiptsAreFound`; a receipt
can be read once it exists. Left out: look-ups of it that fail, and a gateway
whose owner has changed.

### Proof modules

`CIDispatchProofs`, `CISchedulerProofs`, `AgentRunsProofs`, `SwarmProofs`,
`SecretBrokerProofs`, `DeploymentProofs`, `MergePathProofs` and
`AgentReviewProofs` each extend the module they are named after and hold the
theorems about it, below.

## Runs

Every module states its types (`TypeOK`). They are proved for every module, and
the runs check them for `CIDispatch` and `AgentRuns`.

| Run | Instance | Shows |
|---|---|---|
| `creds` | one job with secrets, two attempts, one replica, one crash | a running job keeps its credentials; no lease without obligation |
| `chain` | two dependent jobs, two runners, replicas and connections, one crash | nothing runs twice or out of order; outcomes are true and final |
| `live` | one job with secrets, one attempt, fairness | a terminal job ends clean |
| `scheduler` | two push events, two commits, two handlers, one fault | every push is served and its jobs are inserted once; no push is acknowledged without its run |
| `agent_two` | two runs of one item, two cleaners, one fault | one run at a time works on an item; what Work is told is true; no authority or claim outlives its record; success is evidenced; the lease is implemented |
| `agent_live` | two runs, one cleaner, purge, fairness | every run ends and gives back what it held, also under a purge |
| `swarm_held` | one subtask, two runs, two replicas, two faults | a held subtask is in progress; verdicts rest on evidence |
| `swarm_starts` | one subtask, one replica, fairness | violated: the scheduler's own claim makes Work refuse the run |
| `deploy` | two operations, two calls, two attempts, one fault, fairness | one delivery at a time, never backwards; a settled operation is quiet; a resolved credential is gone for good; a success is deployed; what can be established is resolved |
| `broker` | two attempts of a run with a lease each, a revoker, two redeemers, one fault, fairness | a live credential of a closed scope is pending; a clean report is final; a lease is redeemed once and in scope; the fence is implemented; requested revocations complete |
| `merge` | two handlers and three calls, two commits, two target revisions, both governed, one large | only the judged, approved and endorsed pair is merged, older revisions never after newer ones |
| `agent_review` | three requests, two workers, two admitted, two calls, one crash, fairness | admission counts every call that may run; nothing is replayed; a settled request has no call left; receipts are found |

Bounds: two attempts let an abandoned attempt overlap a later one of the same
job; two replicas and two connections let claims, interruptions and sends
overlap; one crash reaches every state a single failure leaves behind, and the
proofs hold for any number. Two runs of one item are what exclusion is about;
two cleaners let one take over while the other stalls. Two runs of a subtask let an
old failure meet a later run. Two operations of one destination let a stale
approval meet a newer delivery, and two attempts let a retry, an observation or a
recovery meet the first delivery; instances with three attempts or two faults
(up to 6.8 million states) were also checked for safety and show the same. Two
handlers of a merge and two commits let every read be overtaken; instances with
two calls and a source that is reset to an older commit (4.3 million states), and
with four calls (10.3 million states), show the same. Three reviews and an admission of two let one request wait
behind two calls of unknown end. `AgentRuns` was also checked with a purge and a
fault together (2.1 million states). Deadlock checking is off where the instance
rightly stops: every job, run, operation or request is done, or the identities
are used up.

Fairness: `CleanupFairness` is the ticker of `runCredentialCleanup` and the
broker's retry worker, with a provider that confirms a revocation in the end;
`ProcessFairness` says that a replica that is up finishes the calls it began. In
`CIScheduler`, a handler finishes its current statement and an unacknowledged
entry is claimed again and again (strong fairness: a handler must be free). In
`AgentRuns` the executor is a goroutine that runs on, `EndLoop` is strongly fair
because every model and tool call carries the run's deadline, and the recovery
and cleanup sweeps run every minute in every replica (strong fairness of a
cleaner's claim on a run: other runs may keep it busy). In `Swarm` a replica
ticks every thirty seconds and runs are driven to their end. In `Deployment` a
call that runs goes on, the cluster works on what it was asked, the publisher's
ticker publishes, and the janitor's ticker gets the lock in the end although
other calls take it (strong fairness: `claimCleanup` moves each attempt's
`next_attempt` on, so every obligation has its turn). In `SecretBroker` calls go
on and the retry worker's pass, which must find a free revoker, is strongly fair.
In `AgentReview` workers tick and go on and leases run out; nothing is assumed of
the gateway, which may never answer.

## Proofs

Every theorem is about the `Spec` of its module, without fairness, for arbitrary
sets of jobs, runs, replicas, workers, commits or scopes and any number of
faults. The only assumptions are the named ones of the modules
(`DispatchAssumption`, `WorkAssumption` and the like): what the constants are,
that an absent value is none of them, and that a destination has finitely many
operations. No invariant below was inductive as the run checks it; each section
says what had to be added and why the code keeps it.

**CIDispatch.** `TypeOK` rests on `OfferInv`, which ties a pump's local variables
to its step: that a stream is given a real job, and the broker a real attempt,
follows from it. `SentJobIsOwned` and `SingleExecution` need `HoldInv`: an active
job is held by at most one offer, which has its claim, and a held job that is
terminal has failed. This is what makes `BlockJob` and `SetJobStatus` safe
although they name no claimant. `OutcomeIsFinal` follows from it step by step,
`SettledRunAgrees` from that, and `NeedsSucceeded` from `NeedsInv`, which says the
same of the jobs the pumps hold.

The outbox is proved from three descriptions of what one step can do to a row, a
lease and an offer (`RowFrame`, `BrokerFrames`, `OfferFrames`), so that the
invariants are about states and not about 26 actions. `LeaseHasObligation` needs
that an acknowledged cleanup stays true until its row is deleted (`AckedInv`: the
scope is closed, so nothing can be issued in it again) and that an attempt that is
being resolved has its row or a closed scope (`ResolvingInv`: recovery and cleanup
can overtake a slow pump). `RunningJobKeepsCredentials` needs more: an attempt
belongs to one offer and then to one message (`AttemptInv`), the row of the whole
job exists only once the job is terminal and then no row of it is dispatched
(`RowInv`), an issuance that timed out cannot be pending when the job is started
(`PreparedInv`), and a sent job that runs has its dispatched row (`SentInv`).

**CIScheduler.** `OneInserter` and `AckedHasRun`: a run without a row has no job
(`RunInv`), the handler that inserts a commit's jobs is the one whose insert of the
run won, and a handler about to acknowledge has made the run that its commit calls
for (`HandlerInv`).

**SecretBroker.** `LiveIsPending` needs, for every issuer at every step, what its
row and the provider can be (`IssuerInv`), and that a revocation past its first
transaction has a handle that the provider made (`RevokeInv`). `CleanIsFinal` rests
on `ClosedInv`, every open row of a closed scope awaits its revocation, and
`CleanInv`, a scope reported clean has nothing that may be live: not "no open row",
which the re-created row refutes. The report itself reads rows only, and misses no
credential by `LiveIsPending`. `ImplementsFence` is proved as a step simulation:
`Reserve` is the admission, the end of a pass with nothing pending the report,
everything else a stutter or an end of leases. An ended lease stays ended because
only an issuer that has not called yet, or a request in flight, can make one live.

**Deployment.** A call may outlive its lock, so several calls may be anywhere in
the same operation at once. The invariant `IInv` says for each call what it relies
on (`CallInv`, `OwnerInv`, `CredentialInv`, `RevokeInv`, `SeenInv`) and for each
attempt what its row, Secret, Job and obligation say together (`RowInv`, `JobInv`,
`ResolvedInv`, `EndedInv`, `DeliveryInv`). Its core is `Quiet`, what a revocation
rests on: no executor of the attempt runs, and none ever will, because every call
that has not submitted its Job has lost the lock for good and the journal refuses
its announcement. The proof is by rely and guarantee: `Guarantee` is what a step of
one call may do, `StepKeeps`, `ClusterKeeps` and `EnterKeeps` show what it leaves
intact of every other call, and each action is such a step. From `IInv` follow
`TypeOK`, `OneDeliverer`, `SettledIsQuiet` and `ResolvedIsFenced`. A second
invariant `HInv`, inductive relative to the first, is about the release: only the
newest operation that began has not ended (`OrderInv`), a revision comes from a Job
that ran (`RevisionInv`), evidence of success is a deployed revision
(`EvidenceInv`), a delivery that follows a revision of its operation knows of it
(`RetryInv`, `FailedInv`), and what a call is about to report is true
(`VerdictInv`, `PhaseInv`): a failure without evidence was never announced. It
gives `NeverRollsBack` and `SuccessIsDeployed`.

**MergePath.** `MergedAsJudged` and `MergedIsEndorsed`: what a caller carries from
`PinSource` and `PinTarget` on is what the gates, the approval and the reviews were
about (`CallerInv`), and evidence, once true of a pair of revisions, stays recorded
in `passed` and `endorsed` (`Grows`). `LandsInOrder` needs `OrderInv`: a pair that a
caller has compared was pinned with its source the head, so at that moment no merge
was ahead of it, and none is as long as the target has not moved, because a merge
moves the target. Two descriptions of a step carry it: what happens to the branches
(`Tide`) and to a caller that means to merge (`Aim`). The verification of the
source in the reference transaction is not needed, which is why it holds for forks;
the expected target is.

**AgentReview.** `AdmissionHolds`, `NeverReplayed` and `SettledIsTerminated`: a
request is worked on by one worker (`HolderInv`) whose step determines how many
calls it has begun, all retired but the last (`WorkerInv`); only a receipt retires
a call (`RetiredInv`); and the requests that count against the limit are finite and
within it (`OutstandingInv`), so a call of unknown end is always counted.

**AgentRuns.** The invariant ties a run's row to its claim at Work (`HeldInv`), to
its executor (`RowInv`), to every cleaner that read it (`CleanerInv`) and to
requests that arrive late (`LateInv`). From it: `ExclusiveExecution`,
`ReleaseIsTrue`, `AuthorityHasObligation`, `ClaimHasObligation`,
`SuccessIsEvidenced`. The hard part is a stalled cleaner: what it read may be old,
but every flag it saw cleared stays cleared for a terminal run, and what it tells
Work is the state a terminal run keeps. `ImplementsLease` is the step simulation.

**Swarm.** `HeldIsInProgress` and `VerdictIsEvidenced`: a verdict a replica carries
from `Ask` to `Judge` is still true when it is written, since runs that ended stay
ended, and the release of a claim moves the item together with it.

Every safety property that a passing run checks is stated by one of these
theorems, and so are both refinements. Only model-checked: liveness
(`TerminalJobEndsClean`, `EveryPushIsServed`, `CreatedRunIsReleased`,
`ObligationsAreResolved`, `RevocationsComplete`, `ReceiptsAreFound`), which
needs fairness and `ENABLED` and is out of the prover's reach.

## Findings

`PROJECT.json` quotes the line the violated run disagrees with: in the swarm, a
scheduler cannot start the subtasks it claims.

The models also reach states that no property forbids and that a reader of the
code should know:

- a crash between the status of the last job and the roll-up leaves a CI run
  unsettled for ever, and a run can succeed before all its jobs are inserted;
- a push entry redelivered after its run exists is never acknowledged:
  `GetRunForCommit` (`ci/store.go:145`) needs an authorization scope that the push
  handler does not carry, so every consumer fails on it and reclaims it for ever,
  although `ci/scheduler.go:141` says that no push event is left stuck and
  `scheduler.go:288` that a redelivered push ignores the run; if its first handler
  died between the inserts, the missing jobs are never inserted;
- the row of a revoked lease can come back after its scope was reported clean, and
  stays until the retry worker revokes the dead handle once more;
- a tool call whose outcome could not be written stays pending, and the Work Item
  of its finished run is never given back: no binary starts the worker that
  closes such calls;
- a successful subtask stays in review, since only a subtask in progress is
  finished by a tick; a late revert reopens work in review; replicas exceed the
  concurrency cap together;
- an evaluation of an older head that is slow to raise its approval request
  supersedes the request of the current head, which can then no longer be
  decided until the head moves;
- a deployment obligation whose Job was announced and never found stays open, and
  blocks the destination, until a person establishes what happened.

## Plan

1. `AgentJobs`: agent jobs over several replicas.
2. `RunnerJournal`: log lines, seals and retention.
3. `Outbox` and `Webhooks`: publication and delivery of events.
4. Pure algorithms: `TopoSort`, the dependency cycle check, capability checks.

## Not modelled

Request translation (edge, MCP, CLI, web), generated code, Helm charts, git
itself, Kubernetes, parsers and rankers: they keep no protocol state or are out
of a model checker's reach. `PROJECT.json` lists every component.
