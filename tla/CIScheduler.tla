---------------------------- MODULE CIScheduler ----------------------------
(***************************************************************************)
(* Scheduling of runs from push events (internal/ci/scheduler.go).         *)
(*                                                                         *)
(* Push events arrive on a Redis stream read through a consumer group: an  *)
(* entry is delivered once to one consumer, stays pending until it is      *)
(* acknowledged, and may be reclaimed by any consumer after it has been    *)
(* idle, even while its first handler is merely slow.  A person may also   *)
(* ask for the run of a commit (trigger.go).  Both go through ScheduleRun, *)
(* whose statements are separate transactions; jobs already inserted may   *)
(* be executed, and the run settled, before the next one is inserted.      *)
(* A consumer is one handler: a consumer's loop, or a person's request.    *)
(* Entries of a batch are handled one by one, so a batch holds one; every  *)
(* event is well formed; "queued" stands for both unfinished statuses.     *)
(***************************************************************************)
EXTENDS Naturals, FiniteSets

CONSTANTS
  Events,       \* entries of the git-push stream
  Keys,         \* (repository, commit, ref)
  KeyOf,        \* the key of an event
  Names,        \* job names
  Workflow,     \* the job names the workflow of a key declares, {} if none
  Consumers,    \* scheduler processes
  None,         \* no event: the request of a person
  MaxCrashes    \* bound on consumer crashes and failed statements

ASSUME SchedulerAssumption ==
  /\ KeyOf \in [Events -> Keys]
  /\ Workflow \in [Keys -> SUBSET Names]
  /\ None \notin Events
  /\ MaxCrashes \in Nat

VARIABLES
  entry,     \* "new", "pending" (delivered, unacknowledged) or "acked"
  runStatus, \* workflow_runs.status, "none" if there is no row
  job,       \* workflow_jobs.status of each key and name, "none" if no row
  pc,        \* where each consumer's handler stands
  handling,  \* the event it handles, None for a person's request
  key,       \* the key it schedules
  todo,      \* the jobs it has still to insert
  owes,      \* keys with a roll-up to come
  faults     \* crashes and statement errors so far

vars == <<entry, runStatus, job, pc, handling, key, todo, owes, faults>>

Terminal == {"success", "failure", "cancelled"}
Steps == {"idle", "fetch", "createRun", "createJobs", "ack"}

Init ==
  /\ entry = [e \in Events |-> "new"]
  /\ runStatus = [k \in Keys |-> "none"]
  /\ job = [k \in Keys |-> [n \in Names |-> "none"]]
  /\ pc = [c \in Consumers |-> "idle"]
  /\ handling = [c \in Consumers |-> None]
  /\ key \in [Consumers -> Keys]
  /\ todo = [c \in Consumers |-> {}]
  /\ owes = {}
  /\ faults = 0

Goto(c, step) == pc' = [pc EXCEPT ![c] = step]

Begin(c, e, k) ==
  /\ pc[c] = "idle"
  /\ Goto(c, "fetch")
  /\ handling' = [handling EXCEPT ![c] = e]
  /\ key' = [key EXCEPT ![c] = k]

\* ProcessAvailable: XREADGROUP hands a new entry to one consumer.
Read(c, e) ==
  /\ entry[e] = "new"
  /\ entry' = [entry EXCEPT ![e] = "pending"]
  /\ Begin(c, e, KeyOf[e])
  /\ UNCHANGED <<runStatus, job, todo, owes, faults>>

\* autoclaim: an entry idle for idleClaimAfter is handled again, by any
\* consumer, whatever became of its earlier handler.
AutoClaim(c, e) ==
  /\ entry[e] = "pending"
  /\ Begin(c, e, KeyOf[e])
  /\ UNCHANGED <<entry, runStatus, job, todo, owes, faults>>

\* TriggerRun: a person asks for the run of a commit.
TriggerRun(c, k) ==
  /\ Begin(c, None, k)
  /\ UNCHANGED <<entry, runStatus, job, todo, owes, faults>>

\* The handler is over; a push event is acknowledged next.
Finish(c) == Goto(c, IF handling[c] = None THEN "idle" ELSE "ack")

\* Mutant of FetchWorkflow: an invalid workflow is returned as an error, so its
\* entry is never acknowledged.
FetchWorkflowRetries(c) ==
  /\ pc[c] = "fetch"
  /\ IF Workflow[key[c]] = {} THEN Goto(c, "idle") ELSE Goto(c, "createRun")
  /\ UNCHANGED <<entry, runStatus, job, handling, key, todo, owes, faults>>

\* Mutant of FetchWorkflow: an outage of the git service is taken for a commit
\* without a workflow.
FetchWorkflowSwallows(c) ==
  /\ pc[c] = "fetch"
  /\ Finish(c) \/ (Workflow[key[c]] # {} /\ Goto(c, "createRun"))
  /\ UNCHANGED <<entry, runStatus, job, handling, key, todo, owes, faults>>

\* GetBlob and ParseWorkflow: a commit without a valid workflow is done with
\* (ErrNoWorkflow, ErrInvalidWorkflow).
FetchWorkflow(c) ==
  /\ pc[c] = "fetch"
  /\ IF Workflow[key[c]] = {} THEN Finish(c) ELSE Goto(c, "createRun")
  /\ UNCHANGED <<entry, runStatus, job, handling, key, todo, owes, faults>>

\* Mutant of CreateRun: an existing run is read back and its jobs inserted again.
CreateRunAgain(c) ==
  /\ pc[c] = "createRun"
  /\ runStatus' = IF runStatus[key[c]] = "none"
                  THEN [runStatus EXCEPT ![key[c]] = "queued"] ELSE runStatus
  /\ todo' = [todo EXCEPT ![c] = Workflow[key[c]]]
  /\ Goto(c, "createJobs")
  /\ UNCHANGED <<entry, job, handling, key, owes, faults>>

\* CreateRun: ON CONFLICT DO NOTHING.  When the run exists, GetRunForCommit reads
\* it back under the caller's authorization scope: a person gets the run, but a
\* push handler carries no scope, so it fails and its entry stays pending.
CreateRun(c) ==
  /\ pc[c] = "createRun"
  /\ IF runStatus[key[c]] = "none"
     THEN /\ runStatus' = [runStatus EXCEPT ![key[c]] = "queued"]
          /\ todo' = [todo EXCEPT ![c] = Workflow[key[c]]]
          /\ Goto(c, "createJobs")
     ELSE /\ Goto(c, "idle")
          /\ UNCHANGED <<runStatus, todo>>
  /\ UNCHANGED <<entry, job, handling, key, owes, faults>>

\* CreateJob: one insert per job, in the order of a Go map.
CreateJob(c, n) ==
  /\ pc[c] = "createJobs"
  /\ n \in todo[c]
  /\ job' = [job EXCEPT ![key[c]][n] = "pending"]
  /\ todo' = [todo EXCEPT ![c] = @ \ {n}]
  /\ IF todo'[c] = {} THEN Finish(c) ELSE UNCHANGED pc
  /\ UNCHANGED <<entry, runStatus, handling, key, owes, faults>>

\* XACK after the handler returned nil.
Ack(c) ==
  /\ pc[c] = "ack"
  /\ entry' = [entry EXCEPT ![handling[c]] = "acked"]
  /\ Goto(c, "idle")
  /\ UNCHANGED <<runStatus, job, handling, key, todo, owes, faults>>

\* A call fails and the handler returns its error, or the process dies: the
\* entry, if any, stays pending.
Fail(c) ==
  /\ pc[c] # "idle"
  /\ faults < MaxCrashes
  /\ faults' = faults + 1
  /\ Goto(c, "idle")
  /\ todo' = [todo EXCEPT ![c] = {}]
  /\ UNCHANGED <<entry, runStatus, job, handling, key, owes>>

\* The rest of CI finishes a job that exists (CIDispatch), and the roll-up of
\* its run follows.
JobFinishes(k, n, s) ==
  /\ job[k][n] = "pending"
  /\ job' = [job EXCEPT ![k][n] = s]
  /\ owes' = owes \cup {k}
  /\ UNCHANGED <<entry, runStatus, pc, handling, key, todo, faults>>

\* rollUpRunStatus: it sees only the jobs that have a row.
RollUpRunStatus(k) ==
  /\ k \in owes
  /\ owes' = owes \ {k}
  /\ runStatus' =
       IF runStatus[k] \notin Terminal /\ \A n \in Names : job[k][n] # "pending"
       THEN [runStatus EXCEPT ![k] = IF \E n \in Names : job[k][n] = "failure"
                                     THEN "failure" ELSE "success"]
       ELSE runStatus
  /\ UNCHANGED <<entry, job, pc, handling, key, todo, faults>>

Next ==
  \/ \E c \in Consumers :
       \/ \E e \in Events : Read(c, e) \/ AutoClaim(c, e)
       \/ \E k \in Keys : TriggerRun(c, k)
       \/ FetchWorkflow(c) \/ CreateRun(c) \/ Ack(c) \/ Fail(c)
       \/ \E n \in Names : CreateJob(c, n)
  \/ \E k \in Keys : RollUpRunStatus(k)
  \/ \E k \in Keys, n \in Names, s \in {"success", "failure"} : JobFinishes(k, n, s)

\* The consumer's loop and its autoclaim pass keep running; a slow handler
\* finishes its current statement.
Fairness ==
  /\ \A c \in Consumers :
       WF_vars(FetchWorkflow(c) \/ CreateRun(c) \/ Ack(c) \/ \E n \in Names : CreateJob(c, n))
  /\ \A e \in Events : SF_vars(\E c \in Consumers : Read(c, e) \/ AutoClaim(c, e))

Spec == Init /\ [][Next]_vars /\ Fairness

(***************************************************************************)
(* Properties.                                                             *)
(***************************************************************************)

\* Every variable has the type of the table, stream or handler it models.
TypeOK ==
  /\ entry \in [Events -> {"new", "pending", "acked"}]
  /\ runStatus \in [Keys -> {"none", "queued"} \cup Terminal]
  /\ job \in [Keys -> [Names -> {"none", "pending"} \cup Terminal]]
  /\ pc \in [Consumers -> Steps]
  /\ handling \in [Consumers -> Events \cup {None}]
  /\ key \in [Consumers -> Keys]
  /\ todo \in [Consumers -> SUBSET Names]
  /\ owes \subseteq Keys
  /\ faults \in 0 .. MaxCrashes

\* Only one handler ever inserts the jobs of a run, and it inserts none twice:
\* redelivery, a reclaim of a slow handler's entry and a person's request
\* racing each other never trip over UNIQUE (run_id, name).
OneInserter ==
  /\ \A c, d \in Consumers :
       pc[c] = "createJobs" /\ pc[d] = "createJobs" /\ key[c] = key[d] => c = d
  /\ \A c \in Consumers : pc[c] = "createJobs" =>
       \A n \in todo[c] : job[key[c]][n] = "none"

\* No push is lost: an acknowledged event whose commit has a workflow has a run.
AckedHasRun ==
  \A e \in Events :
    entry[e] = "acked" /\ Workflow[KeyOf[e]] # {} => runStatus[KeyOf[e]] # "none"

\* Every push is eventually served, crashes included: its commit has a run, or its
\* entry is acknowledged because there is none to schedule (scheduler.go autoclaim,
\* handlePush).  The entry of a commit that has its run may stay pending for ever.
EveryPushIsServed ==
  \A e \in Events : <>(entry[e] = "acked" \/ runStatus[KeyOf[e]] # "none")
=============================================================================
