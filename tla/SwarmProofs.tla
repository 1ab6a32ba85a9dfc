---------------------------- MODULE SwarmProofs ----------------------------
(***************************************************************************)
(* Proofs about Swarm, for every set of subtasks, runs and replicas, with  *)
(* any limit of concurrent runs and any number of faults.                  *)
(***************************************************************************)
EXTENDS Swarm, TLAPS

\* An item that a run holds is in progress and has an execution history.
ItemInv ==
  \A i \in Items : active[i] # None => itemState[i] = "in_progress" /\ claimed[i]

\* A claim is held by the run its item names.
HeldInv == \A r \in Runs : claim[r] = "held" <=> active[ItemOf[r]] = r

\* A run that is going holds its item; one that never was has not asked for it.
RunInv ==
  \A r \in Runs :
    /\ runState[r] \in Live => claim[r] = "held"
    /\ runState[r] = "none" => claim[r] = "none"

\* A run of subtask i ended as s says, or none was admitted.
Evidence(i, s) ==
  /\ s = "blocked" =>
       i \in refused \/ \E r \in Runs : ItemOf[r] = i /\ runState[r] \in Failures
  /\ s = "done" => \E r \in Runs : ItemOf[r] = i /\ runState[r] = "succeeded"

\* A tick that looks at a subtask names it, and what it was answered was true.
TickOK(s) ==
  /\ spc[s] \in {"judge", "claimed", "revert"} => at[s] \in Items
  /\ spc[s] = "judge" => Evidence(at[s], Verdict(outcome[s]))

TickInv == \A s \in Schedulers : TickOK(s)

IInv == TypeOK /\ ItemInv /\ HeldInv /\ RunInv /\ TickInv

USE WorkAssumption, SwarmAssumption

\* Nothing has happened at the start.
LEMMA InitIInv == Init => IInv
<1> SUFFICES ASSUME Init PROVE IInv
  OBVIOUS
<1>1. TypeOK
  <2>1. WorkTypes
    BY DEF Init, WorkInit, WorkTypes, ItemStates
  <2>2. AllOpen \in [Items -> ItemStates]
    BY DEF AllOpen, ItemStates
  <2>3. faults \in 0..MaxFaults /\ count \in [Schedulers -> Nat]
    BY DEF Init
  <2>4. /\ view \in [Schedulers -> [Items -> ItemStates]]
        /\ spc \in [Schedulers -> Ticks]
    BY <2>2 DEF Init, Ticks
  <2> QED
    BY <2>1, <2>3, <2>4 DEF Init, TypeOK
<1>2. ItemInv /\ HeldInv /\ RunInv /\ TickInv
  BY DEF Init, WorkInit, ItemInv, HeldInv, RunInv, TickInv, TickOK, Live
<1> QED
  BY <1>1, <1>2 DEF IInv

-----------------------------------------------------------------------------
(***************************************************************************)
(* What a step does to Work and to the runs.                               *)
(***************************************************************************)

\* A run is admitted to a free subtask.
Admitted(r) ==
  /\ runState[r] = "none" /\ Admits(r)
  /\ claim' = [claim EXCEPT ![r] = "held"]
  /\ active' = [active EXCEPT ![ItemOf[r]] = r]
  /\ itemState' = [itemState EXCEPT ![ItemOf[r]] = "in_progress"]
  /\ claimed' = [claimed EXCEPT ![ItemOf[r]] = TRUE]
  /\ runState' = [runState EXCEPT ![r] = "queued"]
  /\ UNCHANGED <<ran, refused>>

\* A run that has ended gives its subtask back.
Released(r, o) ==
  /\ runState[r] \in RunOutcomes /\ o \in {runState[r], "admission_failed"}
  /\ claim[r] = "held" /\ active[ItemOf[r]] = r
  /\ claim' = [claim EXCEPT ![r] = o]
  /\ active' = [active EXCEPT ![ItemOf[r]] = None]
  /\ itemState' = [itemState EXCEPT ![ItemOf[r]] = AfterRelease(o)]
  /\ UNCHANGED <<claimed, runVars>>

\* A tick or a person moves a subtask that no run holds.
Moved(i, s) ==
  /\ active[i] = None
  /\ itemState' = [itemState EXCEPT ![i] = s]
  /\ itemState[i] = "in_progress" => Evidence(i, s)
  /\ UNCHANGED <<claimed, active, claim, runVars>>

\* Work is not touched; a run that is going goes on or ends, or one is refused.
Quiet ==
  /\ UNCHANGED workVars
  /\ refused \subseteq refused' /\ refused' \subseteq Items /\ ran' \subseteq Runs
  /\ runState' \in [Runs -> RunOutcomes \cup Live \cup {"none"}]
  /\ \A r \in Runs : \/ runState'[r] = runState[r]
                     \/ runState[r] \in Live /\ runState'[r] \in RunOutcomes \cup Live

Moves ==
  \/ \E r \in Runs : Admitted(r)
  \/ \E r \in Runs : \E o \in Outcomes : Released(r, o)
  \/ \E i \in Items : \E s \in ItemStates : Moved(i, s)
  \/ Quiet

\* StartRun admits a run, or leaves a failed row.
LEMMA StartMoves ==
  ASSUME TypeOK, RunInv, NEW i \in Items, StartRun(i)
  PROVE  Moves
<1>1. CASE \E r \in Unused(i) : Admits(r)
  <2>1. PICK r \in Unused(i) : /\ ClaimExecution(r)
                               /\ runState' = [runState EXCEPT ![r] = "queued"]
                               /\ UNCHANGED <<ran, refused>>
    BY <1>1 DEF StartRun
  <2>2. r \in Runs /\ runState[r] = "none" /\ claim[r] = "none"
    BY <2>1 DEF Unused, RunInv
  <2>3. Admitted(r)
    BY <2>1, <2>2 DEF ClaimExecution, Replays, Admitted
  <2> QED
    BY <2>2, <2>3 DEF Moves
<1>2. CASE ~\E r \in Unused(i) : Admits(r)
  <2>1. UNCHANGED <<workVars, runState, ran>> /\ refused' = refused \cup {i}
    BY <1>2 DEF StartRun
  <2> QED
    BY <2>1 DEF Moves, Quiet, TypeOK
<1> QED
  BY <1>1, <1>2

\* A step that leaves Work and the runs alone.
LEMMA NothingMoves == ASSUME TypeOK, UNCHANGED <<workVars, runVars>> PROVE Moves
BY DEF Moves, Quiet, TypeOK, runVars

\* Judge moves a subtask on the evidence it has.
LEMMA JudgeMoves ==
  ASSUME TypeOK, TickInv, NEW s \in Schedulers, Judge(s)
  PROVE  Moves
<1>0. Verdict(outcome[s]) \in ItemStates
  BY DEF Verdict, ItemStates
<1>1. PICK i \in Items, v \in ItemStates : i = at[s] /\ v = Verdict(outcome[s])
  BY <1>0 DEF Judge, TickInv, TickOK
<1>2. Evidence(i, v)
  BY <1>1 DEF Judge, TickInv, TickOK
<1>3. CASE UNCHANGED workVars
  BY <1>3, NothingMoves DEF Judge
<1>4. CASE TransitionState(i, "in_progress", v)
  BY <1>2, <1>4 DEF TransitionState, Judge, Moved, Moves
<1> QED
  BY <1>1, <1>3, <1>4 DEF Judge

\* RevertSubtask reopens a subtask, and reopening needs no evidence.
LEMMA RevertMoves ==
  ASSUME TypeOK, TickInv, NEW s \in Schedulers, RevertSubtask(s)
  PROVE  Moves
<1>1. PICK i \in Items : i = at[s]
  BY DEF RevertSubtask, TickInv, TickOK
<1>2. CASE SetState(i, "open")
  BY <1>2 DEF SetState, RevertSubtask, Moved, Moves, ItemStates, Evidence
<1> QED
  BY <1>1, <1>2, NothingMoves DEF RevertSubtask

\* ClaimSubtask moves an open subtask.
LEMMA ClaimMoves ==
  ASSUME TypeOK, NEW s \in Schedulers, NEW i \in Items, ClaimSubtask(s, i)
  PROVE  Moves
<1>1. CASE ClaimOpen(i)
  BY <1>1 DEF ClaimOpen, ClaimSubtask, Moved, Moves, ItemStates
<1> QED
  BY <1>1, NothingMoves DEF ClaimSubtask

\* A person moves a subtask that was never executed, so no run holds it.
LEMMA EditMoves ==
  ASSUME TypeOK, ItemInv, NEW i \in Items, EditItem(i)
  PROVE  Moves
<1>1. active[i] = None
  BY DEF EditItem, TransitionItem, ItemInv
<1> QED
  BY <1>1 DEF EditItem, TransitionItem, Moved, Moves, ItemStates

\* A run that ended gives back what it holds.
LEMMA ReleaseMoves ==
  ASSUME TypeOK, HeldInv, NEW r \in Runs, RunReleases(r)
  PROVE  Moves
<1>1. PICK o \in Outcomes : o = IF r \in ran THEN runState[r] ELSE "admission_failed"
  BY DEF RunReleases, Outcomes
<1>2. claim[r] = "held" /\ runState[r] \in RunOutcomes /\ o # "held"
  BY <1>1 DEF RunReleases, Outcomes, RunOutcomes
<1>3. ReleaseExecution(r, o) /\ UNCHANGED runVars
  BY <1>1 DEF RunReleases
<1>4. Released(r, o)
  BY <1>1, <1>2, <1>3 DEF ReleaseExecution, Released
<1> QED
  BY <1>4 DEF Moves

\* Every step does one of these.
LEMMA MovesStep ==
  ASSUME TypeOK, ItemInv, HeldInv, RunInv, TickInv, [Next]_vars
  PROVE  Moves
<1>1. ASSUME NEW s \in Schedulers, Tick(s) PROVE Moves
  <2>1. CASE BeginTick(s) \/ ListReady(s) \/ EndTick(s)
    BY <2>1, NothingMoves DEF BeginTick, ListReady, EndTick
  <2>2. CASE Judge(s)
    BY <2>2, JudgeMoves
  <2>3. CASE StartSubtask(s)
    <3>1. at[s] \in Items /\ StartRun(at[s])
      BY <2>3 DEF StartSubtask, TickInv, TickOK
    <3> QED
      BY <3>1, StartMoves
  <2>4. CASE RevertSubtask(s)
    BY <2>4, RevertMoves
  <2>5. ASSUME NEW i \in Items, Note(s, i) \/ Ask(s, i) \/ ClaimSubtask(s, i) PROVE Moves
    BY <2>5, NothingMoves, ClaimMoves DEF Note, Ask
  <2> QED
    BY <1>1, <2>1, <2>2, <2>3, <2>4, <2>5 DEF Tick
<1>2. ASSUME NEW s \in Schedulers, Crash(s) PROVE Moves
  BY <1>2, NothingMoves DEF Crash
<1>3. ASSUME NEW r \in Runs, RunBegins(r) PROVE Moves
  BY <1>3 DEF RunBegins, Moves, Quiet, TypeOK, Live
<1>4. ASSUME NEW r \in Runs, NEW o \in RunOutcomes, RunEnds(r, o) PROVE Moves
  BY <1>4 DEF RunEnds, Moves, Quiet, TypeOK, Live
<1>5. ASSUME NEW r \in Runs, RunReleases(r) PROVE Moves
  BY <1>5, ReleaseMoves
<1>6. ASSUME NEW i \in Items, PersonStarts(i) PROVE Moves
  BY <1>6, StartMoves DEF PersonStarts
<1>7. ASSUME NEW i \in Items, EditItem(i) PROVE Moves
  BY <1>7, EditMoves
<1>8. CASE UNCHANGED vars
  BY <1>8, NothingMoves DEF vars
<1> QED
  BY <1>1, <1>2, <1>3, <1>4, <1>5, <1>6, <1>7, <1>8 DEF Next, Drive

-----------------------------------------------------------------------------
(* Work, and the runs *)

\* The tables keep their types, and what they say of an item agrees.
LEMMA WorkStep ==
  ASSUME TypeOK, ItemInv, HeldInv, RunInv, Moves
  PROVE  /\ WorkTypes' /\ runState' \in [Runs -> RunOutcomes \cup Live \cup {"none"}]
         /\ ran' \subseteq Runs /\ refused' \subseteq Items
         /\ ItemInv' /\ HeldInv' /\ RunInv'
<1> DEFINE Goal == /\ WorkTypes' /\ runState' \in [Runs -> RunOutcomes \cup Live \cup {"none"}]
                   /\ ran' \subseteq Runs /\ refused' \subseteq Items
                   /\ ItemInv' /\ HeldInv' /\ RunInv'
<1>0. WorkTypes /\ runState \in [Runs -> RunOutcomes \cup Live \cup {"none"}]
  BY DEF TypeOK
<1>1. ASSUME NEW r \in Runs, Admitted(r) PROVE Goal
  <2>1. ItemOf[r] \in Items /\ claim[r] = "none" /\ active[ItemOf[r]] = None
    BY <1>1 DEF Admitted, Admits
  <2>2. WorkTypes'
    BY <1>0, <1>1, <2>1 DEF Admitted, WorkTypes, ItemStates
  <2>3. runState' \in [Runs -> RunOutcomes \cup Live \cup {"none"}]
    BY <1>0, <1>1 DEF Admitted, Live
  <2>4. ItemInv'
    BY <1>0, <1>1, <2>1 DEF Admitted, WorkTypes, ItemInv
  <2>5. HeldInv'
    BY <1>0, <1>1, <2>1 DEF Admitted, WorkTypes, HeldInv
  <2>6. RunInv'
    BY <1>0, <1>1, <2>1 DEF Admitted, WorkTypes, RunInv, Live
  <2> QED
    BY <1>1, <2>2, <2>3, <2>4, <2>5, <2>6 DEF Admitted, TypeOK
<1>2. ASSUME NEW r \in Runs, NEW o \in Outcomes, Released(r, o) PROVE Goal
  <2>1. /\ ItemOf[r] \in Items /\ AfterRelease(o) \in ItemStates /\ o # "held"
        /\ o # "none"
        /\ runState[r] \notin Live
    BY <1>2 DEF Released, AfterRelease, ItemStates, Outcomes, RunOutcomes, Live
  <2>2. WorkTypes'
    BY <1>0, <1>2, <2>1 DEF Released, WorkTypes
  <2>3. ItemInv'
    BY <1>0, <1>2, <2>1 DEF Released, WorkTypes, ItemInv
  <2>4. HeldInv'
    BY <1>0, <1>2, <2>1 DEF Released, WorkTypes, HeldInv
  <2>5. RunInv'
    BY <1>0, <1>2, <2>1 DEF Released, WorkTypes, RunInv, runVars, RunOutcomes
  <2> QED
    BY <1>2, <2>2, <2>3, <2>4, <2>5 DEF Released, runVars, TypeOK
<1>3. ASSUME NEW i \in Items, NEW s \in ItemStates, Moved(i, s) PROVE Goal
  <2>1. WorkTypes' /\ ItemInv'
    BY <1>0, <1>3 DEF Moved, WorkTypes, ItemInv
  <2> QED
    BY <1>3, <2>1 DEF Moved, runVars, TypeOK, HeldInv, RunInv
<1>4. CASE Quiet
  <2>1. WorkTypes' /\ ItemInv' /\ HeldInv'
    BY <1>0, <1>4 DEF Quiet, workVars, WorkTypes, ItemInv, HeldInv
  <2>2. RunInv'
    BY <1>4 DEF Quiet, workVars, RunInv, Live, RunOutcomes
  <2> QED
    BY <1>4, <2>1, <2>2 DEF Quiet
<1> QED
  BY <1>1, <1>2, <1>3, <1>4 DEF Moves

\* A run that failed or succeeded has done so for good.
LEMMA EvidenceStays ==
  ASSUME TypeOK, Moves, NEW i \in Items, NEW s, Evidence(i, s)
  PROVE  Evidence(i, s)'
<1>1. refused \subseteq refused'
  BY DEF Moves, Admitted, Released, Moved, Quiet, runVars
<1>2. \A r \in Runs : runState[r] \in RunOutcomes => runState'[r] = runState[r]
  <2>1. ASSUME NEW q \in Runs, Admitted(q)
        PROVE  \A r \in Runs : runState[r] \in RunOutcomes => runState'[r] = runState[r]
    BY <2>1 DEF Admitted, TypeOK, RunOutcomes
  <2>2. CASE Quiet
    BY <2>2 DEF Quiet, Live, RunOutcomes
  <2>3. CASE UNCHANGED runVars
    BY <2>3 DEF runVars
  <2> QED
    BY <2>1, <2>2, <2>3 DEF Moves, Released, Moved
<1>3. Failures \subseteq RunOutcomes /\ "succeeded" \in RunOutcomes
  BY DEF Failures, RunOutcomes
<1> QED
  BY <1>1, <1>2, <1>3 DEF Evidence

\* The account of a tick that takes no part in the step.
LEMMA TickKept ==
  ASSUME TypeOK, Moves, NEW s \in Schedulers, TickOK(s), UNCHANGED <<spc[s], at[s], outcome[s]>>
  PROVE  TickOK(s)'
<1>1. CASE spc[s] = "judge"
  <2>1. PICK i \in Items : i = at[s] /\ i = at'[s]
    BY <1>1 DEF TickOK
  <2>2. PICK v : v = Verdict(outcome[s]) /\ v = Verdict(outcome'[s])
    OBVIOUS
  <2>3. Evidence(i, v)'
    BY <1>1, <2>1, <2>2, EvidenceStays DEF TickOK
  <2> QED
    BY <1>1, <2>1, <2>2, <2>3 DEF TickOK
<1>2. CASE spc[s] # "judge"
  BY <1>2 DEF TickOK
<1> QED
  BY <1>1, <1>2

\* What agent-runtime answers about a subtask is evidence.
LEMMA AnswerIsEvidence ==
  ASSUME NEW i \in Items, NEW o \in RunOutcome(i) \cup {"unknown"}
  PROVE  Evidence(i, Verdict(o))
<1> DEFINE states == {runState[r] : r \in {q \in Runs : ItemOf[q] = i}}
<1>1. o \in Failures => o \in states \/ i \in refused
  BY DEF RunOutcome, Failures, Live
<1>2. o = "succeeded" => o \in states
  BY DEF RunOutcome, Failures
<1>3. /\ Verdict(o) = "blocked" => o \in Failures
      /\ Verdict(o) = "done" => o = "succeeded"
  BY DEF Verdict
<1> QED
  BY <1>1, <1>2, <1>3 DEF Evidence

\* Ask remembers a subtask and what was answered about it.
LEMMA AskOK ==
  ASSUME TypeOK, Moves, NEW s \in Schedulers, NEW i \in Items, Ask(s, i)
  PROVE  TickOK(s)'
<1>1. spc'[s] = "judge" /\ at'[s] = i
  BY DEF Ask, TypeOK
<1>2. PICK o \in RunOutcome(i) \cup {"unknown"} : outcome'[s] = o
  BY DEF Ask, TypeOK
<1>3. Evidence(i, Verdict(o))'
  BY AnswerIsEvidence, EvidenceStays
<1> QED
  BY <1>1, <1>2, <1>3 DEF TickOK

\* Every step keeps every tick's account.
LEMMA TickStep ==
  ASSUME TypeOK, TickInv, Moves, [Next]_vars
  PROVE  TickInv'
<1>0. \A s \in Schedulers : TickOK(s)
  BY DEF TickInv
<1>1. ASSUME NEW s \in Schedulers, Tick(s) \/ Crash(s) PROVE TickInv'
  <2>1. \A q \in Schedulers : q # s => UNCHANGED <<spc[q], at[q], outcome[q]>>
    BY <1>1 DEF Tick, Crash, BeginTick, Judge, ListReady, StartSubtask, RevertSubtask,
                EndTick, Note, Ask, ClaimSubtask, TypeOK
  <2>2. TickOK(s)'
    <3>1. CASE BeginTick(s) \/ Judge(s) \/ ListReady(s) \/ RevertSubtask(s) \/ EndTick(s)
                 \/ Crash(s)
      BY <3>1 DEF BeginTick, Judge, ListReady, RevertSubtask, EndTick, Crash, TickOK,
         TypeOK
    <3>2. CASE StartSubtask(s)
      <4>1. at'[s] = at[s] /\ spc'[s] \in {"start", "revert"} /\ at[s] \in Items
        BY <1>0, <3>2 DEF StartSubtask, TickOK, TypeOK
      <4> QED
        BY <4>1 DEF TickOK
    <3>3. ASSUME NEW i \in Items, Note(s, i) PROVE TickOK(s)'
      BY <1>0, <3>3, TickKept DEF Note
    <3>4. ASSUME NEW i \in Items, Ask(s, i) PROVE TickOK(s)'
      BY <3>4, AskOK
    <3>5. ASSUME NEW i \in Items, ClaimSubtask(s, i) PROVE TickOK(s)'
      <4>1. (spc'[s] = "claimed" /\ at'[s] = i) \/ spc'[s] = "start"
        BY <3>5 DEF ClaimSubtask, TypeOK
      <4> QED
        BY <4>1 DEF TickOK
    <3> QED
      BY <1>1, <3>1, <3>2, <3>3, <3>4, <3>5 DEF Tick
  <2> QED
    BY <1>0, <2>1, <2>2, TickKept DEF TickInv
<1>2. CASE UNCHANGED tickVars
  BY <1>0, <1>2, TickKept DEF tickVars, TickInv
<1> QED
  BY <1>1, <1>2 DEF Next, Drive, RunBegins, RunEnds, RunReleases, PersonStarts,
     EditItem,
                    vars

-----------------------------------------------------------------------------
(* Types *)

TickTypes ==
  /\ epic \in {"open", "blocked"}
  /\ spc \in [Schedulers -> Ticks]
  /\ view \in [Schedulers -> [Items -> ItemStates]]
  /\ todo \in [Schedulers -> SUBSET Items]
  /\ count \in [Schedulers -> Nat]
  /\ blocked \in [Schedulers -> BOOLEAN]
  /\ ready \in [Schedulers -> SUBSET Items]
  /\ at \in [Schedulers -> Items \cup {None}]
  /\ outcome \in [Schedulers -> RunOutcomes \cup Live \cup {"unknown"}]
  /\ faults \in 0..MaxFaults

\* What agentRunOutcome may answer.
LEMMA AnswerTyped ==
  ASSUME TypeOK, NEW i \in Items
  PROVE  RunOutcome(i) \subseteq RunOutcomes \cup Live \cup {"unknown"}
BY DEF RunOutcome, Failures, RunOutcomes

\* The replicas keep their types.
LEMMA TickTyped ==
  ASSUME TypeOK, TickInv, [Next]_vars
  PROVE  TickTypes'
<1>0. /\ TickTypes /\ AllOpen \in [Items -> ItemStates]
      /\ itemState \in [Items -> ItemStates]
  BY DEF TypeOK, TickTypes, WorkTypes, AllOpen, ItemStates
<1>1. ASSUME NEW s \in Schedulers, BeginTick(s) PROVE TickTypes'
  BY <1>0, <1>1 DEF BeginTick, TickTypes, Ticks
<1>2. ASSUME NEW s \in Schedulers, Judge(s) PROVE TickTypes'
  <2>1. count' \in [Schedulers -> Nat] /\ UNCHANGED <<epic, view, todo, ready, faults>>
    BY <1>0, <1>2 DEF Judge, TickTypes
  <2>2. blocked' \in [Schedulers -> BOOLEAN]
    BY <1>0, <1>2 DEF Judge, TickTypes
  <2>3. /\ spc' \in [Schedulers -> Ticks] /\ at' \in [Schedulers -> Items \cup {None}]
        /\ outcome' \in [Schedulers -> RunOutcomes \cup Live \cup {"unknown"}]
    BY <1>0, <1>2 DEF Judge, TickTypes, Ticks
  <2> QED
    BY <1>0, <2>1, <2>2, <2>3 DEF TickTypes
<1>3. ASSUME NEW s \in Schedulers, ListReady(s) PROVE TickTypes'
  BY <1>0, <1>3 DEF ListReady, TickTypes, Ticks
<1>4. ASSUME NEW s \in Schedulers, StartSubtask(s) PROVE TickTypes'
  <2>1. count' \in [Schedulers -> Nat] /\ spc' \in [Schedulers -> Ticks]
    <3>1. \/ count' = [count EXCEPT ![s] = @ + 1] /\ spc' = [spc EXCEPT ![s] = "start"]
          \/ count' = count /\ spc' = [spc EXCEPT ![s] = "revert"]
      BY <1>4 DEF StartSubtask
    <3>2. spc \in [Schedulers -> Ticks] /\ {"start", "revert"} \subseteq Ticks
      BY <1>0 DEF TickTypes, Ticks
    <3>3. count \in [Schedulers -> Nat]
      BY <1>0 DEF TickTypes
    <3> QED
      BY <3>1, <3>2, <3>3
  <2>2. faults' \in 0..MaxFaults
    BY <1>0, <1>4 DEF StartSubtask, TickTypes, Answered
  <2>3. UNCHANGED <<epic, view, todo, blocked, ready, at, outcome>>
    BY <1>4 DEF StartSubtask
  <2> QED
    BY <1>0, <2>1, <2>2, <2>3 DEF TickTypes
<1>5. ASSUME NEW s \in Schedulers, RevertSubtask(s) PROVE TickTypes'
  BY <1>0, <1>5 DEF RevertSubtask, TickTypes, Ticks
<1>6. ASSUME NEW s \in Schedulers, EndTick(s) PROVE TickTypes'
  BY <1>0, <1>6 DEF EndTick, TickTypes, Ticks
<1>7. ASSUME NEW s \in Schedulers, NEW i \in Items, Note(s, i) PROVE TickTypes'
  BY <1>0, <1>7 DEF Note, TickTypes
<1>8. ASSUME NEW s \in Schedulers, NEW i \in Items, Ask(s, i) PROVE TickTypes'
  <2>1. outcome' \in [Schedulers -> RunOutcomes \cup Live \cup {"unknown"}]
    BY <1>0, <1>8, AnswerTyped DEF Ask, TickTypes
  <2>2. faults' \in 0..MaxFaults
    BY <1>0, <1>8 DEF Ask, TickTypes, Answered
  <2> QED
    BY <1>0, <1>8, <2>1, <2>2 DEF Ask, TickTypes, Ticks
<1>9. ASSUME NEW s \in Schedulers, NEW i \in Items, ClaimSubtask(s, i) PROVE TickTypes'
  <2>1. UNCHANGED <<epic, view, todo, count, blocked, outcome, faults>>
    BY <1>9 DEF ClaimSubtask
  <2>2. spc' \in [Schedulers -> Ticks] /\ at' \in [Schedulers -> Items \cup {None}]
    <3>1. \/ spc' = [spc EXCEPT ![s] = "claimed"] /\ at' = [at EXCEPT ![s] = i]
          \/ UNCHANGED <<spc, at>>
      BY <1>9 DEF ClaimSubtask
    <3>2. /\ spc \in [Schedulers -> Ticks] /\ at \in [Schedulers -> Items \cup {None}]
          /\ "claimed" \in Ticks
      BY <1>0 DEF TickTypes, Ticks
    <3> QED
      BY <3>1, <3>2
  <2>3. ready' \in [Schedulers -> SUBSET Items]
    BY <1>0, <1>9 DEF ClaimSubtask, TickTypes
  <2> QED
    BY <1>0, <2>1, <2>2, <2>3 DEF TickTypes
<1>10. ASSUME NEW s \in Schedulers, Crash(s) PROVE TickTypes'
  <2>1. faults' \in 0..MaxFaults /\ UNCHANGED <<epic, count, blocked>>
    BY <1>0, <1>10 DEF Crash, TickTypes
  <2>2. /\ spc' \in [Schedulers -> Ticks] /\ at' \in [Schedulers -> Items \cup {None}]
        /\ outcome' \in [Schedulers -> RunOutcomes \cup Live \cup {"unknown"}]
    BY <1>0, <1>10 DEF Crash, TickTypes, Ticks
  <2>3. /\ view' \in [Schedulers -> [Items -> ItemStates]]
        /\ todo' \in [Schedulers -> SUBSET Items] /\ ready' \in [Schedulers -> SUBSET Items]
    BY <1>0, <1>10 DEF Crash, TickTypes
  <2> QED
    BY <1>0, <2>1, <2>2, <2>3 DEF TickTypes
<1>11. CASE UNCHANGED <<epic, tickVars, faults>>
  BY <1>0, <1>11 DEF tickVars, TickTypes
<1> QED
  BY <1>1, <1>2, <1>3, <1>4, <1>5, <1>6, <1>7, <1>8, <1>9, <1>10, <1>11 DEF Next, Tick,
     Drive, RunBegins, RunEnds, RunReleases, PersonStarts, EditItem, vars

\* The invariant is inductive.
LEMMA NextIInv == IInv /\ [Next]_vars => IInv'
<1> SUFFICES ASSUME IInv, [Next]_vars PROVE IInv'
  OBVIOUS
<1>1. Moves
  BY MovesStep DEF IInv
<1>2. /\ WorkTypes' /\ runState' \in [Runs -> RunOutcomes \cup Live \cup {"none"}]
      /\ ran' \subseteq Runs /\ refused' \subseteq Items
      /\ ItemInv' /\ HeldInv' /\ RunInv'
  BY <1>1, WorkStep DEF IInv
<1>3. TickTypes' /\ TickInv'
  BY <1>1, TickTyped, TickStep DEF IInv
<1>4. TypeOK'
  BY <1>2, <1>3 DEF TypeOK, TickTypes
<1> QED
  BY <1>2, <1>3, <1>4 DEF IInv

\* Every reachable state satisfies it.
LEMMA Invariance == Spec => []IInv
BY InitIInv, NextIInv, PTL DEF Spec

-----------------------------------------------------------------------------
(* Results *)

\* The epic, its subtasks, their runs and the replicas' ticks keep their types.
THEOREM TypeCorrect == Spec => []TypeOK
<1>1. IInv => TypeOK
  BY DEF IInv
<1> QED
  BY <1>1, Invariance, PTL

\* SetState, TransitionState and ClaimOpen: however stale what a tick read, no
\* subtask is taken from under the run that holds it.
THEOREM HeldStaysInProgress == Spec => []HeldIsInProgress
<1>1. IInv => HeldIsInProgress
  BY DEF IInv, ItemInv, HeldIsInProgress
<1> QED
  BY <1>1, Invariance, PTL

\* A subtask that no run holds has no run that is going.
LEMMA FreeIsQuiet ==
  ASSUME HeldInv, RunInv, NEW i \in Items, active[i] = None, NEW r \in Runs, ItemOf[r] = i
  PROVE  runState[r] \notin Live
BY DEF HeldInv, RunInv

\* A verdict of the scheduler, or the release of a run, has its evidence.
LEMMA VerdictStep ==
  ASSUME TypeOK, ItemInv, HeldInv, RunInv, Moves, NEW i \in Items,
         itemState[i] = "in_progress", itemState'[i] \in {"blocked", "done"}
  PROVE  /\ Evidence(i, itemState'[i])
         /\ itemState'[i] = "blocked" => \A r \in Runs : ItemOf[r] = i => runState[r] \notin Live
<1>0. itemState \in [Items -> ItemStates]
  BY DEF TypeOK, WorkTypes
<1> DEFINE Goal == /\ Evidence(i, itemState'[i])
                   /\ itemState'[i] = "blocked" =>
                        \A r \in Runs : ItemOf[r] = i => runState[r] \notin Live
<1>1. ASSUME NEW q \in Runs, Admitted(q) PROVE Goal
  <2>1. itemState'[i] = "in_progress"
    BY <1>0, <1>1 DEF Admitted
  <2> QED
    BY <2>1
<1>2. ASSUME NEW q \in Runs, NEW o \in Outcomes, Released(q, o) PROVE Goal
  <2>1. i = ItemOf[q] /\ itemState'[i] = AfterRelease(o)
    BY <1>0, <1>2 DEF Released
  <2>2. AfterRelease(o) \in {"blocked", "done"}
    BY <2>1
  <2>3. AfterRelease(o) = "blocked" /\ o \in Failures /\ o # "admission_failed"
    BY <2>2 DEF AfterRelease, Outcomes, RunOutcomes, Failures
  <2>4. runState[q] = o
    BY <1>2, <2>3 DEF Released
  <2>5. \A r \in Runs : ItemOf[r] = i => runState[r] \notin Live
    <3> SUFFICES ASSUME NEW r \in Runs, ItemOf[r] = i, runState[r] \in Live PROVE FALSE
      OBVIOUS
    <3>1. r = q
      BY <1>2, <2>1 DEF HeldInv, RunInv, Released
    <3> QED
      BY <2>3, <2>4, <3>1 DEF Failures, Live
  <2> QED
    BY <2>1, <2>3, <2>4, <2>5 DEF Evidence
<1>3. ASSUME NEW j \in Items, NEW s \in ItemStates, Moved(j, s) PROVE Goal
  <2>1. i = j /\ itemState'[i] = s
    BY <1>0, <1>3 DEF Moved
  <2> QED
    BY <1>3, <2>1, FreeIsQuiet DEF Moved
<1>4. CASE Quiet
  BY <1>4 DEF Quiet, workVars
<1> QED
  BY <1>1, <1>2, <1>3, <1>4 DEF Moves

\* runOutcome, agentRunOutcome and ReleaseExecution: a subtask is blocked or
\* finished on evidence, and an old failure blocks none that a later run works on.
THEOREM VerdictsAreEvidenced == Spec => VerdictIsEvidenced
<1>1. ASSUME IInv, [Next]_vars, NEW i \in Items, itemState[i] = "in_progress"
      PROVE  LET states == {runState[r] : r \in {q \in Runs : ItemOf[q] = i}} IN
             /\ itemState'[i] = "blocked" =>
                  (i \in refused \/ states \cap Failures # {}) /\ states \cap Live = {}
             /\ itemState'[i] = "done" => "succeeded" \in states
  <2>1. Moves
    BY <1>1, MovesStep DEF IInv
  <2>2. itemState'[i] \in {"blocked", "done"} =>
          /\ Evidence(i, itemState'[i])
          /\ itemState'[i] = "blocked" =>
               \A r \in Runs : ItemOf[r] = i => runState[r] \notin Live
    BY <1>1, <2>1, VerdictStep DEF IInv
  <2> QED
    BY <2>2 DEF Evidence
<1>2. IInv /\ [Next]_vars =>
        [\A i \in Items : itemState[i] = "in_progress" =>
           LET states == {runState[r] : r \in {q \in Runs : ItemOf[q] = i}} IN
           /\ itemState'[i] = "blocked" =>
                (i \in refused \/ states \cap Failures # {}) /\ states \cap Live = {}
           /\ itemState'[i] = "done" => "succeeded" \in states]_vars
  BY <1>1
<1> QED
  BY <1>2, Invariance, PTL DEF Spec, VerdictIsEvidenced
=============================================================================
