------------------------- MODULE CISchedulerProofs -------------------------
(***************************************************************************)
(* Proofs about CIScheduler, for every set of events, commits, job names   *)
(* and consumers.  One inductive invariant carries both results: a run     *)
(* that has no row has no job either (RunInv), and a handler's own         *)
(* variables fit its step (HandlerInv).                                    *)
(***************************************************************************)
EXTENDS CIScheduler, TLAPS

\* CreateRun commits before the first CreateJob.
RunInv ==
  \A k \in Keys : runStatus[k] = "none" => \A n \in Names : job[k][n] = "none"

\* A handler schedules the commit of its event; once it inserts jobs its run
\* exists, and once it is about to acknowledge, the run its event calls for.
HandlerInv ==
  \A c \in Consumers :
    /\ pc[c] # "idle" /\ handling[c] # None => key[c] = KeyOf[handling[c]]
    /\ pc[c] = "createJobs" => runStatus[key[c]] # "none"
    /\ pc[c] = "ack" =>
         handling[c] # None /\ (Workflow[key[c]] # {} => runStatus[key[c]] # "none")

IInv == TypeOK /\ RunInv /\ HandlerInv /\ OneInserter /\ AckedHasRun

USE SchedulerAssumption

\* No run, no job and no handler exists at the start.
LEMMA InitIInv == Init => IInv
BY DEF Init, IInv, TypeOK, RunInv, HandlerInv, OneInserter, AckedHasRun, Steps, Terminal

-----------------------------------------------------------------------------
(* What the three steps that branch do, point by point *)

\* Handler c moves to one of the steps S; the others stand where they stood.
OnlyMoves(c, S) ==
  /\ pc' \in [Consumers -> Steps]
  /\ pc'[c] \in S
  /\ \A d \in Consumers : d # c => pc'[d] = pc[d]

FetchWorkflowDone(c) ==
  /\ pc[c] = "fetch"
  /\ OnlyMoves(c, {"idle", "ack", "createRun"})
  /\ pc'[c] = "ack" => handling[c] # None /\ Workflow[key[c]] = {}
  /\ UNCHANGED <<entry, runStatus, job, handling, key, todo, owes, faults>>

CreateRunInserts(c) ==
  /\ pc[c] = "createRun"
  /\ runStatus[key[c]] = "none"
  /\ OnlyMoves(c, {"createJobs"})
  /\ runStatus' \in [Keys -> {"none", "queued"} \cup Terminal]
  /\ runStatus'[key[c]] = "queued"
  /\ \A k \in Keys : k # key[c] => runStatus'[k] = runStatus[k]
  /\ todo' \in [Consumers -> SUBSET Names]
  /\ \A d \in Consumers : d # c => todo'[d] = todo[d]
  /\ UNCHANGED <<entry, job, handling, key, owes, faults>>

CreateRunFinds(c) ==
  /\ pc[c] = "createRun"
  /\ runStatus[key[c]] # "none"
  /\ OnlyMoves(c, {"idle"})
  /\ UNCHANGED <<entry, runStatus, job, handling, key, todo, owes, faults>>

CreateJobDone(c, n) ==
  /\ pc[c] = "createJobs"
  /\ n \in todo[c]
  /\ OnlyMoves(c, {"createJobs", "idle", "ack"})
  /\ pc'[c] = "ack" => handling[c] # None
  /\ job' = [job EXCEPT ![key[c]][n] = "pending"]
  /\ todo' = [todo EXCEPT ![c] = @ \ {n}]
  /\ UNCHANGED <<entry, runStatus, handling, key, owes, faults>>

\* A handler that is over acknowledges its event, if it has one.
LEMMA FinishEffect ==
  ASSUME TypeOK, NEW c \in Consumers, Finish(c)
  PROVE  OnlyMoves(c, {"idle", "ack"}) /\ (pc'[c] = "ack" => handling[c] # None)
BY DEF Finish, Goto, TypeOK, Steps, OnlyMoves

\* A commit without a valid workflow is done with; the others get a run.
LEMMA FetchWorkflowEffect ==
  ASSUME TypeOK, NEW c \in Consumers, FetchWorkflow(c)
  PROVE  FetchWorkflowDone(c)
<1>1. CASE Workflow[key[c]] = {}
  BY <1>1, FinishEffect DEF FetchWorkflow, FetchWorkflowDone, OnlyMoves
<1>2. CASE Workflow[key[c]] # {}
  BY <1>2 DEF FetchWorkflow, FetchWorkflowDone, OnlyMoves, Goto, TypeOK, Steps
<1> QED
  BY <1>1, <1>2

\* CreateRun inserts the run, or finds it and is over.
LEMMA CreateRunEffect ==
  ASSUME TypeOK, NEW c \in Consumers, CreateRun(c)
  PROVE  CreateRunInserts(c) \/ CreateRunFinds(c)
<1>1. CASE runStatus[key[c]] = "none"
  <2>1. /\ runStatus' = [runStatus EXCEPT ![key[c]] = "queued"]
        /\ todo' = [todo EXCEPT ![c] = Workflow[key[c]]]
        /\ Goto(c, "createJobs")
        /\ pc[c] = "createRun"
        /\ UNCHANGED <<entry, job, handling, key, owes, faults>>
    BY <1>1 DEF CreateRun
  <2> QED
    BY <1>1, <2>1 DEF CreateRunInserts, OnlyMoves, Goto, TypeOK, Steps
<1>2. CASE runStatus[key[c]] # "none"
  <2>1. /\ Goto(c, "idle")
        /\ pc[c] = "createRun"
        /\ UNCHANGED <<entry, runStatus, job, handling, key, todo, owes, faults>>
    BY <1>2 DEF CreateRun
  <2> QED
    BY <1>2, <2>1 DEF CreateRunFinds, OnlyMoves, Goto, TypeOK, Steps
<1> QED
  BY <1>1, <1>2

\* CreateJob inserts one job and is over with the last.
LEMMA CreateJobEffect ==
  ASSUME TypeOK, NEW c \in Consumers, NEW n \in Names, CreateJob(c, n)
  PROVE  CreateJobDone(c, n)
<1>1. CASE todo'[c] = {}
  BY <1>1, FinishEffect DEF CreateJob, CreateJobDone, OnlyMoves
<1>2. CASE todo'[c] # {}
  BY <1>2 DEF CreateJob, CreateJobDone, OnlyMoves, TypeOK
<1> QED
  BY <1>1, <1>2

-----------------------------------------------------------------------------
\* Every step keeps the types.
LEMMA TypeStep == TypeOK /\ [Next]_vars => TypeOK'
<1> SUFFICES ASSUME TypeOK, [Next]_vars PROVE TypeOK'
  OBVIOUS
<1>1. ASSUME NEW c \in Consumers, NEW e \in Events, Read(c, e) PROVE TypeOK'
  BY <1>1 DEF Read, Begin, Goto, TypeOK, Steps, Terminal
<1>2. ASSUME NEW c \in Consumers, NEW e \in Events, AutoClaim(c, e) PROVE TypeOK'
  BY <1>2 DEF AutoClaim, Begin, Goto, TypeOK, Steps, Terminal
<1>3. ASSUME NEW c \in Consumers, NEW k \in Keys, TriggerRun(c, k) PROVE TypeOK'
  BY <1>3 DEF TriggerRun, Begin, Goto, TypeOK, Steps, Terminal
<1>4. ASSUME NEW c \in Consumers, FetchWorkflow(c) PROVE TypeOK'
  <2>1. FetchWorkflowDone(c)
    BY <1>4, FetchWorkflowEffect
  <2> QED
    BY <2>1 DEF FetchWorkflowDone, OnlyMoves, TypeOK, Steps, Terminal
<1>5. ASSUME NEW c \in Consumers, CreateRun(c) PROVE TypeOK'
  <2>1. CreateRunInserts(c) \/ CreateRunFinds(c)
    BY <1>5, CreateRunEffect
  <2>2. CASE CreateRunInserts(c)
    BY <2>2 DEF CreateRunInserts, OnlyMoves, TypeOK, Steps, Terminal
  <2>3. CASE CreateRunFinds(c)
    BY <2>3 DEF CreateRunFinds, OnlyMoves, TypeOK, Steps, Terminal
  <2> QED
    BY <2>1, <2>2, <2>3
<1>6. ASSUME NEW c \in Consumers, NEW n \in Names, CreateJob(c, n) PROVE TypeOK'
  <2>1. CreateJobDone(c, n)
    BY <1>6, CreateJobEffect
  <2> QED
    BY <2>1 DEF CreateJobDone, OnlyMoves, TypeOK, Steps, Terminal
<1>7. ASSUME NEW c \in Consumers, Ack(c) PROVE TypeOK'
  BY <1>7 DEF Ack, Goto, TypeOK, Steps, Terminal
<1>8. ASSUME NEW c \in Consumers, Fail(c) PROVE TypeOK'
  BY <1>8 DEF Fail, Goto, TypeOK, Steps, Terminal
<1>9. ASSUME NEW k \in Keys, RollUpRunStatus(k) PROVE TypeOK'
  BY <1>9 DEF RollUpRunStatus, TypeOK, Steps, Terminal
<1>10. ASSUME NEW k \in Keys, NEW n \in Names, NEW s \in {"success", "failure"},
              JobFinishes(k, n, s) PROVE TypeOK'
  BY <1>10 DEF JobFinishes, TypeOK, Steps, Terminal
<1>11. CASE UNCHANGED vars
  BY <1>11 DEF vars, TypeOK, Steps, Terminal
<1> QED
  BY <1>1, <1>2, <1>3, <1>4, <1>5, <1>6, <1>7, <1>8, <1>9, <1>10, <1>11 DEF Next

\* A job's row is written after its run's, and no run loses its row.
LEMMA RunStep == TypeOK /\ RunInv /\ HandlerInv /\ [Next]_vars => RunInv'
<1> SUFFICES ASSUME TypeOK, RunInv, HandlerInv, [Next]_vars PROVE RunInv'
  OBVIOUS
<1>1. ASSUME NEW c \in Consumers, NEW e \in Events, Read(c, e) PROVE RunInv'
  BY <1>1 DEF Read, Begin, Goto, TypeOK, RunInv, HandlerInv, Terminal
<1>2. ASSUME NEW c \in Consumers, NEW e \in Events, AutoClaim(c, e) PROVE RunInv'
  BY <1>2 DEF AutoClaim, Begin, Goto, TypeOK, RunInv, HandlerInv, Terminal
<1>3. ASSUME NEW c \in Consumers, NEW k \in Keys, TriggerRun(c, k) PROVE RunInv'
  BY <1>3 DEF TriggerRun, Begin, Goto, TypeOK, RunInv, HandlerInv, Terminal
<1>4. ASSUME NEW c \in Consumers, FetchWorkflow(c) PROVE RunInv'
  <2>1. FetchWorkflowDone(c)
    BY <1>4, FetchWorkflowEffect
  <2> QED
    BY <2>1 DEF FetchWorkflowDone, OnlyMoves, TypeOK, RunInv, HandlerInv, Terminal
<1>5. ASSUME NEW c \in Consumers, CreateRun(c) PROVE RunInv'
  <2>1. CreateRunInserts(c) \/ CreateRunFinds(c)
    BY <1>5, CreateRunEffect
  <2>2. CASE CreateRunInserts(c)
    BY <2>2 DEF CreateRunInserts, OnlyMoves, TypeOK, RunInv, HandlerInv, Terminal
  <2>3. CASE CreateRunFinds(c)
    BY <2>3 DEF CreateRunFinds, OnlyMoves, TypeOK, RunInv, HandlerInv, Terminal
  <2> QED
    BY <2>1, <2>2, <2>3
<1>6. ASSUME NEW c \in Consumers, NEW n \in Names, CreateJob(c, n) PROVE RunInv'
  <2>1. CreateJobDone(c, n)
    BY <1>6, CreateJobEffect
  <2> QED
    BY <2>1 DEF CreateJobDone, OnlyMoves, TypeOK, RunInv, HandlerInv, Terminal
<1>7. ASSUME NEW c \in Consumers, Ack(c) PROVE RunInv'
  BY <1>7 DEF Ack, Goto, TypeOK, RunInv, HandlerInv, Terminal
<1>8. ASSUME NEW c \in Consumers, Fail(c) PROVE RunInv'
  BY <1>8 DEF Fail, Goto, TypeOK, RunInv, HandlerInv, Terminal
<1>9. ASSUME NEW k \in Keys, RollUpRunStatus(k) PROVE RunInv'
  BY <1>9 DEF RollUpRunStatus, TypeOK, RunInv, HandlerInv, Terminal
<1>10. ASSUME NEW k \in Keys, NEW n \in Names, NEW s \in {"success", "failure"},
              JobFinishes(k, n, s) PROVE RunInv'
  BY <1>10 DEF JobFinishes, TypeOK, RunInv, HandlerInv, Terminal
<1>11. CASE UNCHANGED vars
  BY <1>11 DEF vars, TypeOK, RunInv, HandlerInv, Terminal
<1> QED
  BY <1>1, <1>2, <1>3, <1>4, <1>5, <1>6, <1>7, <1>8, <1>9, <1>10, <1>11 DEF Next

\* A handler keeps to its event and reaches its later steps through CreateRun.
LEMMA HandlerStep == TypeOK /\ HandlerInv /\ [Next]_vars => HandlerInv'
<1> SUFFICES ASSUME TypeOK, HandlerInv, [Next]_vars PROVE HandlerInv'
  OBVIOUS
<1>1. ASSUME NEW c \in Consumers, NEW e \in Events, Read(c, e) PROVE HandlerInv'
  BY <1>1 DEF Read, Begin, Goto, TypeOK, HandlerInv, Terminal
<1>2. ASSUME NEW c \in Consumers, NEW e \in Events, AutoClaim(c, e) PROVE HandlerInv'
  BY <1>2 DEF AutoClaim, Begin, Goto, TypeOK, HandlerInv, Terminal
<1>3. ASSUME NEW c \in Consumers, NEW k \in Keys, TriggerRun(c, k) PROVE HandlerInv'
  BY <1>3 DEF TriggerRun, Begin, Goto, TypeOK, HandlerInv, Terminal
<1>4. ASSUME NEW c \in Consumers, FetchWorkflow(c) PROVE HandlerInv'
  <2>1. FetchWorkflowDone(c)
    BY <1>4, FetchWorkflowEffect
  <2> QED
    BY <2>1 DEF FetchWorkflowDone, OnlyMoves, TypeOK, HandlerInv, Terminal
<1>5. ASSUME NEW c \in Consumers, CreateRun(c) PROVE HandlerInv'
  <2>1. CreateRunInserts(c) \/ CreateRunFinds(c)
    BY <1>5, CreateRunEffect
  <2>2. CASE CreateRunInserts(c)
    BY <2>2 DEF CreateRunInserts, OnlyMoves, TypeOK, HandlerInv, Terminal
  <2>3. CASE CreateRunFinds(c)
    BY <2>3 DEF CreateRunFinds, OnlyMoves, TypeOK, HandlerInv, Terminal
  <2> QED
    BY <2>1, <2>2, <2>3
<1>6. ASSUME NEW c \in Consumers, NEW n \in Names, CreateJob(c, n) PROVE HandlerInv'
  <2>1. CreateJobDone(c, n)
    BY <1>6, CreateJobEffect
  <2> QED
    BY <2>1 DEF CreateJobDone, OnlyMoves, TypeOK, HandlerInv, Terminal
<1>7. ASSUME NEW c \in Consumers, Ack(c) PROVE HandlerInv'
  BY <1>7 DEF Ack, Goto, TypeOK, HandlerInv, Terminal
<1>8. ASSUME NEW c \in Consumers, Fail(c) PROVE HandlerInv'
  BY <1>8 DEF Fail, Goto, TypeOK, HandlerInv, Terminal
<1>9. ASSUME NEW k \in Keys, RollUpRunStatus(k) PROVE HandlerInv'
  BY <1>9 DEF RollUpRunStatus, TypeOK, HandlerInv, Terminal
<1>10. ASSUME NEW k \in Keys, NEW n \in Names, NEW s \in {"success", "failure"},
              JobFinishes(k, n, s) PROVE HandlerInv'
  BY <1>10 DEF JobFinishes, TypeOK, HandlerInv, Terminal
<1>11. CASE UNCHANGED vars
  BY <1>11 DEF vars, TypeOK, HandlerInv, Terminal
<1> QED
  BY <1>1, <1>2, <1>3, <1>4, <1>5, <1>6, <1>7, <1>8, <1>9, <1>10, <1>11 DEF Next

\* CreateRun lets one handler pass, when no job of the run exists.
LEMMA InserterStep == TypeOK /\ RunInv /\ HandlerInv /\ OneInserter /\ [Next]_vars => OneInserter'
<1> SUFFICES ASSUME TypeOK, RunInv, HandlerInv, OneInserter, [Next]_vars PROVE OneInserter'
  OBVIOUS
<1>1. ASSUME NEW c \in Consumers, NEW e \in Events, Read(c, e) PROVE OneInserter'
  BY <1>1 DEF Read, Begin, Goto, TypeOK, RunInv, HandlerInv, OneInserter
<1>2. ASSUME NEW c \in Consumers, NEW e \in Events, AutoClaim(c, e) PROVE OneInserter'
  BY <1>2 DEF AutoClaim, Begin, Goto, TypeOK, RunInv, HandlerInv, OneInserter
<1>3. ASSUME NEW c \in Consumers, NEW k \in Keys, TriggerRun(c, k) PROVE OneInserter'
  BY <1>3 DEF TriggerRun, Begin, Goto, TypeOK, RunInv, HandlerInv, OneInserter
<1>4. ASSUME NEW c \in Consumers, FetchWorkflow(c) PROVE OneInserter'
  <2>1. FetchWorkflowDone(c)
    BY <1>4, FetchWorkflowEffect
  <2> QED
    <3>1. ASSUME NEW a \in Consumers, NEW b \in Consumers, pc'[a] = "createJobs",
                 pc'[b] = "createJobs", key'[a] = key'[b]
          PROVE  a = b
      BY <2>1, <3>1 DEF FetchWorkflowDone, OnlyMoves, TypeOK, HandlerInv, OneInserter
    <3>2. ASSUME NEW a \in Consumers, pc'[a] = "createJobs", NEW m \in todo'[a]
          PROVE  job'[key'[a]][m] = "none"
      BY <2>1, <3>2, <3>1 DEF FetchWorkflowDone, OnlyMoves, TypeOK, OneInserter
    <3> QED
      BY <3>1, <3>2 DEF OneInserter
<1>5. ASSUME NEW c \in Consumers, CreateRun(c) PROVE OneInserter'
  <2>1. CreateRunInserts(c) \/ CreateRunFinds(c)
    BY <1>5, CreateRunEffect
  <2>2. CASE CreateRunInserts(c)
    <3>1. ASSUME NEW a \in Consumers, NEW b \in Consumers, pc'[a] = "createJobs",
                 pc'[b] = "createJobs", key'[a] = key'[b]
          PROVE  a = b
      BY <2>2, <3>1 DEF CreateRunInserts, OnlyMoves, TypeOK, HandlerInv, OneInserter
    <3>2. ASSUME NEW a \in Consumers, pc'[a] = "createJobs", NEW m \in todo'[a]
          PROVE  job'[key'[a]][m] = "none"
      BY <2>2, <3>2, <3>1 DEF CreateRunInserts, OnlyMoves, TypeOK, RunInv, OneInserter
    <3> QED
      BY <3>1, <3>2 DEF OneInserter
  <2>3. CASE CreateRunFinds(c)
    <3>1. ASSUME NEW a \in Consumers, NEW b \in Consumers, pc'[a] = "createJobs",
                 pc'[b] = "createJobs", key'[a] = key'[b]
          PROVE  a = b
      BY <2>3, <3>1 DEF CreateRunFinds, OnlyMoves, TypeOK, HandlerInv, OneInserter
    <3>2. ASSUME NEW a \in Consumers, pc'[a] = "createJobs", NEW m \in todo'[a]
          PROVE  job'[key'[a]][m] = "none"
      BY <2>3, <3>2, <3>1 DEF CreateRunFinds, OnlyMoves, TypeOK, OneInserter
    <3> QED
      BY <3>1, <3>2 DEF OneInserter
  <2> QED
    BY <2>1, <2>2, <2>3
<1>6. ASSUME NEW c \in Consumers, NEW n \in Names, CreateJob(c, n) PROVE OneInserter'
  <2>1. CreateJobDone(c, n)
    BY <1>6, CreateJobEffect
  <2>2. \A d \in Consumers : pc'[d] = "createJobs" => pc[d] = "createJobs"
    BY <2>1 DEF CreateJobDone, OnlyMoves
  <2>3. key' = key
    BY <2>1 DEF CreateJobDone
  <2> QED
    <3>1. ASSUME NEW a \in Consumers, NEW b \in Consumers, pc'[a] = "createJobs",
                 pc'[b] = "createJobs", key'[a] = key'[b]
          PROVE  a = b
      BY <2>2, <2>3, <3>1 DEF OneInserter
    <3>2. ASSUME NEW a \in Consumers, pc'[a] = "createJobs", NEW m \in todo'[a]
          PROVE  job'[key'[a]][m] = "none"
      BY <2>1, <3>2, <3>1 DEF CreateJobDone, OnlyMoves, TypeOK, OneInserter
    <3> QED
      BY <3>1, <3>2 DEF OneInserter
<1>7. ASSUME NEW c \in Consumers, Ack(c) PROVE OneInserter'
  BY <1>7 DEF Ack, Goto, TypeOK, RunInv, HandlerInv, OneInserter
<1>8. ASSUME NEW c \in Consumers, Fail(c) PROVE OneInserter'
  BY <1>8 DEF Fail, Goto, TypeOK, RunInv, HandlerInv, OneInserter
<1>9. ASSUME NEW k \in Keys, RollUpRunStatus(k) PROVE OneInserter'
  BY <1>9 DEF RollUpRunStatus, TypeOK, RunInv, HandlerInv, OneInserter
<1>10. ASSUME NEW k \in Keys, NEW n \in Names, NEW s \in {"success", "failure"},
              JobFinishes(k, n, s) PROVE OneInserter'
  BY <1>10 DEF JobFinishes, TypeOK, RunInv, HandlerInv, OneInserter
<1>11. CASE UNCHANGED vars
  BY <1>11 DEF vars, TypeOK, RunInv, HandlerInv, OneInserter
<1> QED
  BY <1>1, <1>2, <1>3, <1>4, <1>5, <1>6, <1>7, <1>8, <1>9, <1>10, <1>11 DEF Next

\* Ack finds the run of its event.
LEMMA AckedStep == TypeOK /\ HandlerInv /\ AckedHasRun /\ [Next]_vars => AckedHasRun'
<1> SUFFICES ASSUME TypeOK, HandlerInv, AckedHasRun, [Next]_vars PROVE AckedHasRun'
  OBVIOUS
<1>1. ASSUME NEW c \in Consumers, NEW e \in Events, Read(c, e) PROVE AckedHasRun'
  BY <1>1 DEF Read, Begin, Goto, TypeOK, HandlerInv, AckedHasRun, Terminal
<1>2. ASSUME NEW c \in Consumers, NEW e \in Events, AutoClaim(c, e) PROVE AckedHasRun'
  BY <1>2 DEF AutoClaim, Begin, Goto, TypeOK, HandlerInv, AckedHasRun, Terminal
<1>3. ASSUME NEW c \in Consumers, NEW k \in Keys, TriggerRun(c, k) PROVE AckedHasRun'
  BY <1>3 DEF TriggerRun, Begin, Goto, TypeOK, HandlerInv, AckedHasRun, Terminal
<1>4. ASSUME NEW c \in Consumers, FetchWorkflow(c) PROVE AckedHasRun'
  <2>1. FetchWorkflowDone(c)
    BY <1>4, FetchWorkflowEffect
  <2> QED
    BY <2>1 DEF FetchWorkflowDone, OnlyMoves, TypeOK, HandlerInv, AckedHasRun, Terminal
<1>5. ASSUME NEW c \in Consumers, CreateRun(c) PROVE AckedHasRun'
  <2>1. CreateRunInserts(c) \/ CreateRunFinds(c)
    BY <1>5, CreateRunEffect
  <2>2. CASE CreateRunInserts(c)
    BY <2>2 DEF CreateRunInserts, OnlyMoves, TypeOK, HandlerInv, AckedHasRun, Terminal
  <2>3. CASE CreateRunFinds(c)
    BY <2>3 DEF CreateRunFinds, OnlyMoves, TypeOK, HandlerInv, AckedHasRun, Terminal
  <2> QED
    BY <2>1, <2>2, <2>3
<1>6. ASSUME NEW c \in Consumers, NEW n \in Names, CreateJob(c, n) PROVE AckedHasRun'
  <2>1. CreateJobDone(c, n)
    BY <1>6, CreateJobEffect
  <2> QED
    BY <2>1 DEF CreateJobDone, OnlyMoves, TypeOK, HandlerInv, AckedHasRun, Terminal
<1>7. ASSUME NEW c \in Consumers, Ack(c) PROVE AckedHasRun'
  BY <1>7 DEF Ack, Goto, TypeOK, HandlerInv, AckedHasRun, Terminal
<1>8. ASSUME NEW c \in Consumers, Fail(c) PROVE AckedHasRun'
  BY <1>8 DEF Fail, Goto, TypeOK, HandlerInv, AckedHasRun, Terminal
<1>9. ASSUME NEW k \in Keys, RollUpRunStatus(k) PROVE AckedHasRun'
  BY <1>9 DEF RollUpRunStatus, TypeOK, HandlerInv, AckedHasRun, Terminal
<1>10. ASSUME NEW k \in Keys, NEW n \in Names, NEW s \in {"success", "failure"},
              JobFinishes(k, n, s) PROVE AckedHasRun'
  BY <1>10 DEF JobFinishes, TypeOK, HandlerInv, AckedHasRun, Terminal
<1>11. CASE UNCHANGED vars
  BY <1>11 DEF vars, TypeOK, HandlerInv, AckedHasRun, Terminal
<1> QED
  BY <1>1, <1>2, <1>3, <1>4, <1>5, <1>6, <1>7, <1>8, <1>9, <1>10, <1>11 DEF Next

\* Every statement of every handler, and every job that ends, keeps the invariant.
LEMMA NextIInv == IInv /\ [Next]_vars => IInv'
BY TypeStep, RunStep, HandlerStep, InserterStep, AckedStep DEF IInv

\* The scheduler's tables, stream and handlers keep their types.
THEOREM TypeCorrect == Spec => []TypeOK
<1>1. IInv => TypeOK
  BY DEF IInv
<1> QED
  BY <1>1, InitIInv, NextIInv, PTL DEF Spec

\* ScheduleRun: however often an entry is redelivered or reclaimed from a slow
\* handler, and whoever asks for the run besides, one handler inserts its jobs
\* and each of them once.
THEOREM OneHandlerInserts == Spec => []OneInserter
<1>1. IInv => OneInserter
  BY DEF IInv
<1> QED
  BY <1>1, InitIInv, NextIInv, PTL DEF Spec

\* ProcessAvailable: an entry is acknowledged only when the run its commit calls
\* for has a row, wherever its handlers failed or died before.
THEOREM NoPushIsLost == Spec => []AckedHasRun
<1>1. IInv => AckedHasRun
  BY DEF IInv
<1> QED
  BY <1>1, InitIInv, NextIInv, PTL DEF Spec
=============================================================================
