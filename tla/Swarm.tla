------------------------------- MODULE Swarm -------------------------------
(***************************************************************************)
(* The swarm scheduler (internal/swarm/scheduler.go, cmd/work-reviews):    *)
(* every replica of work-reviews ticks every epic that is not done, reads  *)
(* how the runs of its subtasks ended, and claims and starts the subtasks  *)
(* that are ready.  Subtasks are the Items of one epic.  A run of a        *)
(* subtask is seen here as the scheduler sees it: its state, and the       *)
(* claim and release that agent-runtime makes for it (AgentRuns).  A run   *)
(* that Work refuses to admit leaves a failed row and nothing else.        *)
(***************************************************************************)
EXTENDS WorkExecution

CONSTANTS
  Schedulers,        \* replicas of work-reviews
  MaxConcurrentRuns, \* Scheduler.MaxConcurrentRuns
  MaxFaults          \* bound on replicas that stop inside a tick and lost answers

ASSUME SwarmAssumption == MaxConcurrentRuns \in Nat /\ MaxFaults \in Nat

VARIABLES
  runState,  \* agent_runs.state of an admitted run; "none" before
  ran,       \* the runs that started
  refused,   \* the subtasks with a run that was not admitted
  epic,      \* work_items.state of the epic
  spc,       \* where a replica's tick is
  view,      \* the states of the children, as read when the tick began
  todo,      \* children the tick has not looked at
  count,     \* inProgress + started
  blocked,   \* anyBlocked
  ready,     \* the ready subtasks, as read before starting them
  at,        \* the subtask being judged or started
  outcome,   \* what agentRunOutcome answered about it ("unknown" is its "")
  faults

runVars == <<runState, ran, refused>>
tickVars == <<spc, view, todo, count, blocked, ready, at, outcome>>
vars == <<workVars, runVars, epic, tickVars, faults>>

Ticks == {"idle", "look", "judge", "start", "claimed", "revert"}
Live == {"queued", "running"}
Failures == {"failed", "over_budget", "cancelled"}

TypeOK ==
  /\ WorkTypes
  /\ runState \in [Runs -> RunOutcomes \cup Live \cup {"none"}]
  /\ ran \subseteq Runs /\ refused \subseteq Items
  /\ epic \in {"open", "blocked"}
  /\ spc \in [Schedulers -> Ticks]
  /\ view \in [Schedulers -> [Items -> ItemStates]]
  /\ todo \in [Schedulers -> SUBSET Items]
  /\ count \in [Schedulers -> Nat]
  /\ blocked \in [Schedulers -> BOOLEAN]
  /\ ready \in [Schedulers -> SUBSET Items]
  /\ at \in [Schedulers -> Items \cup {None}]
  /\ outcome \in [Schedulers -> RunOutcomes \cup Live \cup {"unknown"}]
  /\ faults \in 0..MaxFaults

AllOpen == [i \in Items |-> "open"]

Init ==
  /\ WorkInit
  /\ runState = [r \in Runs |-> "none"] /\ ran = {} /\ refused = {}
  /\ epic = "open"
  /\ spc = [s \in Schedulers |-> "idle"]
  /\ view = [s \in Schedulers |-> AllOpen]
  /\ todo = [s \in Schedulers |-> {}]
  /\ count = [s \in Schedulers |-> 0]
  /\ blocked = [s \in Schedulers |-> FALSE]
  /\ ready = [s \in Schedulers |-> {}]
  /\ at = [s \in Schedulers |-> None]
  /\ outcome = [s \in Schedulers |-> "unknown"]
  /\ faults = 0

----------------------------------------------------------------------------
(* Runs, as agent-runtime drives them.                                     *)

Unused(i) == {r \in Runs : ItemOf[r] = i /\ runState[r] = "none"}

\* StartRun for subtask i: admitted, or refused with a failed row.  With no
\* identity left it is refused, as agent-runtime may for reasons of its own.
StartRun(i) ==
  /\ IF \E r \in Unused(i) : Admits(r)
     THEN \E r \in Unused(i) :
            /\ ClaimExecution(r)
            /\ runState' = [runState EXCEPT ![r] = "queued"]
            /\ UNCHANGED refused
     ELSE /\ refused' = refused \cup {i}
          /\ UNCHANGED <<workVars, runState>>
  /\ UNCHANGED ran

PersonStarts(i) == StartRun(i) /\ UNCHANGED <<epic, tickVars, faults>>

RunBegins(r) ==
  /\ runState[r] = "queued"
  /\ runState' = [runState EXCEPT ![r] = "running"]
  /\ ran' = ran \cup {r}
  /\ UNCHANGED <<workVars, refused, epic, tickVars, faults>>

RunEnds(r, o) ==
  /\ runState[r] = "running" \/ (runState[r] = "queued" /\ o \in {"failed", "cancelled"})
  /\ runState' = [runState EXCEPT ![r] = o]
  /\ UNCHANGED <<workVars, ran, refused, epic, tickVars, faults>>

RunReleases(r) ==
  /\ runState[r] \in RunOutcomes /\ claim[r] = "held"
  /\ ReleaseExecution(r, IF r \in ran THEN runState[r] ELSE "admission_failed")
  /\ UNCHANGED <<runVars, epic, tickVars, faults>>

EditItem(i) == TransitionItem(i) /\ UNCHANGED <<runVars, epic, tickVars, faults>>

----------------------------------------------------------------------------
(* The tick.                                                               *)

\* What agentRunOutcome may answer: a run that is going or succeeded wins.
RunOutcome(i) ==
  LET states == {runState[r] : r \in {q \in Runs : ItemOf[q] = i}}
      good == states \cap (Live \cup {"succeeded"})
      bad == (states \cap Failures) \cup (IF i \in refused THEN {"failed"} ELSE {})
  IN IF good # {} THEN good ELSE IF bad # {} THEN bad ELSE {"unknown"}

\* The children are read.
BeginTick(s) ==
  /\ spc[s] = "idle"
  /\ spc' = [spc EXCEPT ![s] = "look"]
  /\ view' = [view EXCEPT ![s] = itemState]
  /\ todo' = [todo EXCEPT ![s] = Items]
  /\ count' = [count EXCEPT ![s] = 0]
  /\ blocked' = [blocked EXCEPT ![s] = FALSE]
  /\ UNCHANGED <<workVars, runVars, epic, ready, at, outcome, faults>>

\* A child that is not in progress is only noted.
Note(s, i) ==
  /\ spc[s] = "look" /\ i \in todo[s] /\ view[s][i] # "in_progress"
  /\ todo' = [todo EXCEPT ![s] = @ \ {i}]
  /\ blocked' = [blocked EXCEPT ![s] = @ \/ view[s][i] = "blocked"]
  /\ UNCHANGED <<workVars, runVars, epic, spc, view, count, ready, at, outcome, faults>>

\* An answer arrives, or it is lost.
Answered(yes) == faults' = IF yes THEN faults ELSE faults + 1

\* agent-runtime is asked about a child that is in progress.
Ask(s, i) ==
  /\ spc[s] = "look" /\ i \in todo[s] /\ view[s][i] = "in_progress"
  /\ \/ Answered(TRUE) /\ \E o \in RunOutcome(i) : outcome' = [outcome EXCEPT ![s] = o]
     \/ faults < MaxFaults /\ Answered(FALSE) /\ outcome' = [outcome EXCEPT ![s] = "unknown"]
  /\ spc' = [spc EXCEPT ![s] = "judge"]
  /\ at' = [at EXCEPT ![s] = i]
  /\ todo' = [todo EXCEPT ![s] = @ \ {i}]
  /\ UNCHANGED <<workVars, runVars, epic, view, count, blocked, ready>>

\* Mutant of Verdict: no answer is taken for a failure.
VerdictOnSilence(o) ==
  CASE o \in Failures \cup {"unknown"} -> "blocked"
    [] o = "succeeded"        -> "done"
    [] OTHER                  -> "in_progress"

\* The state a run's outcome moves an in-progress subtask to.
Verdict(o) ==
  CASE o \in Failures  -> "blocked"
    [] o = "succeeded" -> "done"
    [] OTHER           -> "in_progress"

\* The subtask is moved only if it is still in progress and no run holds it.
Judge(s) ==
  LET to == Verdict(outcome[s])
      moved == to # "in_progress" /\ itemState[at[s]] = "in_progress" /\ active[at[s]] = None
  IN /\ spc[s] = "judge"
     /\ IF moved THEN TransitionState(at[s], "in_progress", to) ELSE UNCHANGED workVars
     /\ count' = [count EXCEPT ![s] = IF moved THEN @ ELSE @ + 1]
     /\ blocked' = [blocked EXCEPT ![s] = @ \/ (moved /\ to = "blocked")]
     /\ spc' = [spc EXCEPT ![s] = "look"]
     /\ at' = [at EXCEPT ![s] = None]
     /\ outcome' = [outcome EXCEPT ![s] = "unknown"]
     /\ UNCHANGED <<runVars, epic, view, todo, ready, faults>>

Ready(i) == itemState[i] = "open" /\ Unblocked(i)

\* The epic shows a blocked child; then the ready subtasks are listed.
ListReady(s) ==
  /\ spc[s] = "look" /\ todo[s] = {}
  /\ epic' = IF blocked[s] THEN "blocked" ELSE epic
  /\ ready' = [ready EXCEPT ![s] = {i \in Items : Ready(i)}]
  /\ view' = [view EXCEPT ![s] = AllOpen]
  /\ spc' = [spc EXCEPT ![s] = "start"]
  /\ UNCHANGED <<workVars, runVars, todo, count, blocked, at, outcome, faults>>

ClaimSubtask(s, i) ==
  /\ spc[s] = "start" /\ i \in ready[s] /\ count[s] < MaxConcurrentRuns
  /\ ready' = [ready EXCEPT ![s] = @ \ {i}]
  /\ IF itemState[i] = "open" /\ active[i] = None
     THEN /\ ClaimOpen(i)
          /\ spc' = [spc EXCEPT ![s] = "claimed"]
          /\ at' = [at EXCEPT ![s] = i]
     ELSE UNCHANGED <<workVars, spc, at>>
  /\ UNCHANGED <<runVars, epic, view, todo, count, blocked, outcome, faults>>

\* An answer that is lost looks like a start that failed.
StartSubtask(s) ==
  /\ spc[s] = "claimed"
  /\ StartRun(at[s])
  /\ \/ /\ Answered(TRUE) /\ active' # active
        /\ spc' = [spc EXCEPT ![s] = "start"]
        /\ count' = [count EXCEPT ![s] = @ + 1]
     \/ /\ IF active' = active THEN Answered(TRUE) ELSE faults < MaxFaults /\ Answered(FALSE)
        /\ spc' = [spc EXCEPT ![s] = "revert"]
        /\ UNCHANGED count
  /\ UNCHANGED <<epic, view, todo, blocked, ready, at, outcome>>

\* Mutant of RevertSubtask: the item is reopened under a run that holds it.
RevertSubtaskAlways(s) ==
  /\ spc[s] = "revert"
  /\ itemState' = [itemState EXCEPT ![at[s]] = "open"]
  /\ spc' = [spc EXCEPT ![s] = "start"]
  /\ UNCHANGED <<claimed, active, claim, runVars, epic, view, todo, count, blocked, ready, at, outcome, faults>>

\* A start that failed puts the subtask back, unless a run holds it.
RevertSubtask(s) ==
  /\ spc[s] = "revert"
  /\ IF active[at[s]] = None THEN SetState(at[s], "open") ELSE UNCHANGED workVars
  /\ spc' = [spc EXCEPT ![s] = "start"]
  /\ UNCHANGED <<runVars, epic, view, todo, count, blocked, ready, at, outcome, faults>>

EndTick(s) ==
  /\ spc[s] = "start" /\ (ready[s] = {} \/ count[s] >= MaxConcurrentRuns)
  /\ spc' = [spc EXCEPT ![s] = "idle"]
  /\ ready' = [ready EXCEPT ![s] = {}]
  /\ at' = [at EXCEPT ![s] = None]
  /\ UNCHANGED <<workVars, runVars, epic, view, todo, count, blocked, outcome, faults>>

\* The replica stops; what it claimed and did not start stays in progress.
Crash(s) ==
  /\ spc[s] # "idle" /\ faults < MaxFaults /\ faults' = faults + 1
  /\ spc' = [spc EXCEPT ![s] = "idle"]
  /\ view' = [view EXCEPT ![s] = AllOpen]
  /\ todo' = [todo EXCEPT ![s] = {}]
  /\ ready' = [ready EXCEPT ![s] = {}]
  /\ at' = [at EXCEPT ![s] = None]
  /\ outcome' = [outcome EXCEPT ![s] = "unknown"]
  /\ UNCHANGED <<workVars, runVars, epic, count, blocked>>

Tick(s) ==
  \/ BeginTick(s) \/ Judge(s) \/ ListReady(s)
  \/ StartSubtask(s) \/ RevertSubtask(s) \/ EndTick(s)
  \/ \E i \in Items : Note(s, i) \/ Ask(s, i) \/ ClaimSubtask(s, i)

Drive(r) == RunBegins(r) \/ RunReleases(r) \/ \E o \in RunOutcomes : RunEnds(r, o)

Next ==
  \/ \E s \in Schedulers : Tick(s) \/ Crash(s)
  \/ \E r \in Runs : Drive(r)
  \/ \E i \in Items : PersonStarts(i) \/ EditItem(i)

Spec == Init /\ [][Next]_vars

\* Replicas tick every thirty seconds; runs are driven to their end.
Fairness ==
  /\ \A s \in Schedulers : WF_vars(Tick(s))
  /\ \A r \in Runs : WF_vars(Drive(r))

FairSpec == Spec /\ Fairness

----------------------------------------------------------------------------
(* Properties.                                                             *)

(***************************************************************************)
(* A subtask that a run holds is in progress: no tick, revert or edit,     *)
(* however stale what it read, takes the item from under the run.          *)
(***************************************************************************)
HeldIsInProgress == \A i \in Items : active[i] # None => itemState[i] = "in_progress"

(***************************************************************************)
(* A subtask is blocked or finished on evidence of how its run ended, and  *)
(* an old failure never blocks a subtask a later run works on              *)
(* (runOutcome, agentRunOutcome), although the children, the outcome and   *)
(* the transition are read and made at different times.                    *)
(***************************************************************************)
VerdictIsEvidenced ==
  [][\A i \in Items : itemState[i] = "in_progress" =>
       LET states == {runState[r] : r \in {q \in Runs : ItemOf[q] = i}} IN
       /\ itemState'[i] = "blocked" =>
            (i \in refused \/ states \cap Failures # {}) /\ states \cap Live = {}
       /\ itemState'[i] = "done" => "succeeded" \in states]_vars

(***************************************************************************)
(* "Scheduler starts an Agent Run for every ready subtask"                 *)
(* (scheduler.go:24): a ready subtask is run, or someone blocks it.        *)
(***************************************************************************)
ReadySubtaskStarts ==
  \A i \in Items : Ready(i) ~> (itemState[i] = "blocked" \/ \E r \in Runs : ItemOf[r] = i /\ claim[r] # "none")
=============================================================================
