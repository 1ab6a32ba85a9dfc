------------------------- MODULE AgentReviewProofs -------------------------
(***************************************************************************)
(* Proofs about AgentReview, for every set of requests and of workers and  *)
(* every number of roles.                                                  *)
(***************************************************************************)
EXTENDS AgentReview, FiniteSetTheorems, SequenceTheorems, TLAPS

Busy(w) == worker[w].pc \notin {"idle", "claim"}

\* How far a worker has come determines how many calls its request has begun;
\* all of them are retired, but for the last one while its outcome is awaited.
WorkerOK(w) ==
  /\ worker[w].q \in Requests
  /\ state[worker[w].q] \notin {"none", "queued"}
  /\ worker[w].pc = "succeed" <=> worker[w].roles = Roles
  /\ Len(exec[worker[w].q]) =
       worker[w].roles + (IF worker[w].pc \in {"bind", "await", "answer"} THEN 1 ELSE 0)
  /\ \A n \in DOMAIN exec[worker[w].q] :
       \/ exec[worker[w].q][n] = "retired"
       \/ worker[w].pc \in {"bind", "await"} /\ n = Len(exec[worker[w].q])

WorkerInv == \A w \in Workers : Busy(w) => WorkerOK(w)

\* No two workers work on one request.
HolderInv ==
  \A v, w \in Workers : Busy(v) /\ Busy(w) /\ worker[v].q = worker[w].q => v = w

\* A request nobody has claimed has begun no call.
QueuedInv == \A q \in Requests : state[q] \in {"none", "queued"} => exec[q] = <<>>

\* Only a receipt retires a call.
RetiredInv ==
  \A q \in Requests : \A n \in DOMAIN exec[q] :
    exec[q][n] = "retired" => call[<<q, n>>] = "completed"

\* The requests that count against the organization's limit.
OutstandingInv ==
  /\ IsFiniteSet(Outstanding(state))
  /\ Cardinality(Outstanding(state)) <= MaxConcurrent

IInv ==
  /\ TypeOK
  /\ WorkerInv
  /\ HolderInv
  /\ QueuedInv
  /\ RetiredInv
  /\ OutstandingInv
  /\ NeverReplayed
  /\ SettledIsTerminated
  /\ DueIsBound

USE ReviewAssumption

\* No request is made, and no call, at the start.
LEMMA InitIInv == Init => IInv
<1> SUFFICES ASSUME Init PROVE IInv
  OBVIOUS
<1>1. /\ TypeOK /\ WorkerInv /\ HolderInv /\ QueuedInv /\ RetiredInv
      /\ NeverReplayed /\ SettledIsTerminated
  BY DEF Init, TypeOK, WorkerInv, HolderInv, QueuedInv, RetiredInv, NeverReplayed,
         SettledIsTerminated, Unretired, Idle, Busy, Calls
<1>2. OutstandingInv
  <2>1. Outstanding(state) = {}
    BY DEF Init, Outstanding, Unretired
  <2> QED
    BY <2>1, FS_EmptySet DEF OutstandingInv
<1>3. DueIsBound
  BY DEF Init, DueIsBound, IsInjective, Range, Calls
<1> QED
  BY <1>1, <1>2, <1>3 DEF IInv

-----------------------------------------------------------------------------
(* What the actions do to the executions *)

Row == {"begun", "bound", "retired"}

\* What the sweep may do: a call that has ended is retired, no other row changes.
Swept ==
  /\ exec' \in [Requests -> Seq(Row)]
  /\ \A q \in Requests :
       /\ Len(exec'[q]) = Len(exec[q])
       /\ \A n \in DOMAIN exec[q] :
            \/ exec'[q][n] = exec[q][n]
            \/ exec'[q][n] = "retired" /\ call[<<q, n>>] = "completed"

\* One row of one request changes.
LEMMA RowSet ==
  ASSUME TypeOK, NEW q \in Requests, NEW n \in Nat, NEW x \in Row,
         exec' = [exec EXCEPT ![q][n] = x]
  PROVE  /\ exec' \in [Requests -> Seq(Row)]
         /\ \A p \in Requests : p # q => exec'[p] = exec[p]
         /\ Len(exec'[q]) = Len(exec[q])
         /\ \A m \in DOMAIN exec[q] :
              exec'[q][m] = IF m = n THEN x ELSE exec[q][m]
<1>1. exec \in [Requests -> Seq(Row)]
  BY DEF TypeOK, Row
<1>2. \A s \in Seq(Row) : [s EXCEPT ![n] = x] \in Seq(Row) /\ Len([s EXCEPT ![n] = x]) = Len(s)
  <2> SUFFICES ASSUME NEW s \in Seq(Row)
               PROVE  [s EXCEPT ![n] = x] \in Seq(Row) /\ Len([s EXCEPT ![n] = x]) = Len(s)
    OBVIOUS
  <2>1. CASE n \in 1..Len(s)
    BY <2>1, ExceptSeq
  <2>2. CASE n \notin 1..Len(s)
    <3>1. DOMAIN s = 1..Len(s) /\ s = [i \in 1..Len(s) |-> s[i]]
      OBVIOUS
    <3>2. [s EXCEPT ![n] = x] = [i \in 1..Len(s) |-> s[i]]
      BY <2>2, <3>1
    <3> QED
      BY <3>1, <3>2
  <2> QED
    BY <2>1, <2>2
<1>3. /\ exec'[q] = [exec[q] EXCEPT ![n] = x]
      /\ \A p \in Requests : p # q => exec'[p] = exec[p]
  BY <1>1
<1>4. exec' \in [Requests -> Seq(Row)]
  BY <1>1, <1>2, <1>3
<1> QED
  BY <1>1, <1>2, <1>3, <1>4

\* Retiring a call that has ended is what the sweep may do.
LEMMA RetireSweeps ==
  ASSUME TypeOK, NEW a \in Calls, Receipt(a), exec' = [exec EXCEPT ![a[1]][a[2]] = "retired"]
  PROVE  Swept /\ (a[2] \in DOMAIN exec[a[1]] => exec'[a[1]][a[2]] = "retired")
<1>1. a[1] \in Requests /\ a[2] \in Nat /\ a = <<a[1], a[2]>>
  BY DEF Calls
<1>2. /\ exec' \in [Requests -> Seq(Row)]
      /\ \A p \in Requests : p # a[1] => exec'[p] = exec[p]
      /\ Len(exec'[a[1]]) = Len(exec[a[1]])
      /\ \A m \in DOMAIN exec[a[1]] :
           exec'[a[1]][m] = IF m = a[2] THEN "retired" ELSE exec[a[1]][m]
  BY <1>1, RowSet DEF Row
<1> QED
  BY <1>1, <1>2 DEF Swept, Receipt

\* Leaving the rows alone is, too.
LEMMA SameSweeps == ASSUME TypeOK, exec' = exec PROVE Swept
BY DEF TypeOK, Swept, Row

\* The execution taken by the sweep is one of the calls.
LEMMA DueCalls == TypeOK => Due \subseteq Calls
BY DEF TypeOK, Due

\* Tick: the sweep, whatever the state of the worker's rivals.
LEMMA TickEffect ==
  ASSUME TypeOK, NEW w \in Workers, Tick(w)
  PROVE  Swept
<1>1. CASE exec' = exec
  BY <1>1, SameSweeps
<1>2. CASE \E a \in Due : ReconcileOne(a)
  <2>1. PICK a \in Due : ReconcileOne(a)
    BY <1>2
  <2>2. a \in Calls
    BY <2>1, DueCalls
  <2> QED
    BY <2>1, <2>2, RetireSweeps, SameSweeps DEF ReconcileOne, Retire
<1> QED
  BY <1>1, <1>2 DEF Tick

Q(w) == worker[w].q

\* A worker begins a call of its request.
Begins(w) ==
  /\ worker[w].pc = "begin" /\ Q(w) \in Requests /\ Current(Q(w))
  /\ exec' \in [Requests -> Seq(Row)]
  /\ \A p \in Requests : p # Q(w) => exec'[p] = exec[p]
  /\ Len(exec'[Q(w)]) = Len(exec[Q(w)]) + 1
  /\ \A n \in DOMAIN exec[Q(w)] : exec'[Q(w)][n] = exec[Q(w)][n]
  /\ exec'[Q(w)][Len(exec[Q(w)]) + 1] = "begun"
  /\ state' = state /\ call' = call /\ fresh' = fresh /\ rotation' = rotation

\* A worker binds the call it has begun, and sends it.
Binds(w) ==
  /\ worker[w].pc = "bind" /\ Q(w) \in Requests /\ Current(Q(w))
  /\ Attempt(w) \in Calls /\ Attempt(w)[2] \in DOMAIN exec[Q(w)]
  /\ exec' \in [Requests -> Seq(Row)]
  /\ \A p \in Requests : p # Q(w) => exec'[p] = exec[p]
  /\ Len(exec'[Q(w)]) = Len(exec[Q(w)])
  /\ \A n \in DOMAIN exec[Q(w)] :
       exec'[Q(w)][n] = IF n = Len(exec[Q(w)]) THEN "bound" ELSE exec[Q(w)][n]
  /\ call' \in [Calls -> {"none", "sent", "completed"}]
  /\ call'[Attempt(w)] = "sent"
  /\ \A a \in Calls : a # Attempt(w) => call'[a] = call[a]
  /\ state' = state /\ fresh' = fresh \cup {Attempt(w)} /\ rotation' = rotation

\* The calls that have ended stay ended.
Ended ==
  /\ call' \in [Calls -> {"none", "sent", "completed"}]
  /\ \A a \in Calls : call[a] = "completed" => call'[a] = "completed"

\* The rows of a worker that works have their place among the calls.
LEMMA AttemptIsCall ==
  ASSUME TypeOK, WorkerInv, NEW w \in Workers, worker[w].pc \in {"bind", "await", "answer"}
  PROVE  /\ Q(w) \in Requests /\ Attempt(w) = <<Q(w), Len(exec[Q(w)])>>
         /\ Attempt(w) \in Calls /\ Attempt(w)[1] = Q(w)
         /\ Attempt(w)[2] = Len(exec[Q(w)])
         /\ Len(exec[Q(w)]) = worker[w].roles + 1 /\ worker[w].roles < Roles
         /\ Attempt(w)[2] \in DOMAIN exec[Q(w)]
<1>1. WorkerOK(w) /\ worker[w].roles \in 0..Roles
  BY DEF WorkerInv, Busy, TypeOK
<1>2. /\ Q(w) \in Requests /\ Len(exec[Q(w)]) = worker[w].roles + 1
      /\ worker[w].roles < Roles
  BY <1>1 DEF WorkerOK, Q
<1>3. exec[Q(w)] \in Seq({"begun", "bound", "retired"})
  BY <1>2 DEF TypeOK
<1> HIDE DEF Q
<1>4. Attempt(w) = <<Q(w), Len(exec[Q(w)])>>
  BY DEF Attempt, Q
<1> QED
  BY <1>1, <1>2, <1>3, <1>4 DEF Calls

\* beginReviewExecution adds a row to a request that the worker still holds, or
\* nothing.
LEMMA BeginEffect ==
  ASSUME TypeOK, WorkerInv, NEW w \in Workers, BeginExecution(w)
  PROVE  \/ Begins(w)
         \/ exec' = exec /\ Stop(w)
<1>1. Q(w) \in Requests
  BY DEF BeginExecution, At, WorkerInv, WorkerOK, Busy, Q
<1>2. exec \in [Requests -> Seq(Row)] /\ exec[Q(w)] \in Seq(Row) /\ "begun" \in Row
  BY <1>1 DEF TypeOK, Row
<1>3. CASE Current(Q(w)) /\ exec' = [exec EXCEPT ![Q(w)] = Append(@, "begun")]
  <2>1. /\ exec'[Q(w)] = Append(exec[Q(w)], "begun")
        /\ \A p \in Requests : p # Q(w) => exec'[p] = exec[p]
    BY <1>1, <1>2, <1>3
  <2>2. exec' \in [Requests -> Seq(Row)]
    BY <1>1, <1>2, <1>3
  <2>3. /\ Len(exec'[Q(w)]) = Len(exec[Q(w)]) + 1
        /\ \A n \in DOMAIN exec[Q(w)] : exec'[Q(w)][n] = exec[Q(w)][n]
        /\ exec'[Q(w)][Len(exec[Q(w)]) + 1] = "begun"
    BY <1>2, <2>1
  <2> QED
    BY <1>1, <1>3, <2>1, <2>2, <2>3 DEF Begins, BeginExecution, At
<1> QED
  BY <1>3 DEF BeginExecution, Q

\* RoundTrip binds a call and sends it, or leaves the executions alone.
LEMMA BindEffect ==
  ASSUME TypeOK, WorkerInv, NEW w \in Workers, BindAndSend(w)
  PROVE  \/ Binds(w) /\ GoTo(w, "await")
         \/ /\ Finish(w, OutcomeUnknown)
            /\ UNCHANGED <<exec, fresh, rotation, call>>
<1>1. worker[w].pc = "bind" /\ rotation' = rotation
  BY DEF BindAndSend, At
<1>2. /\ Q(w) \in Requests /\ Attempt(w) = <<Q(w), Len(exec[Q(w)])>>
      /\ Attempt(w) \in Calls /\ Attempt(w)[1] = Q(w)
      /\ Attempt(w)[2] = Len(exec[Q(w)])
      /\ Attempt(w)[2] \in DOMAIN exec[Q(w)]
  BY <1>1, AttemptIsCall
<1>3. CASE /\ Current(Q(w))
           /\ exec' = [exec EXCEPT ![Q(w)][Len(exec[Q(w)])] = "bound"]
           /\ fresh' = fresh \cup {Attempt(w)}
           /\ call' = [call EXCEPT ![Attempt(w)] = "sent"]
           /\ state' = state /\ GoTo(w, "await")
  <2>1. Len(exec[Q(w)]) \in Nat /\ "bound" \in Row
    BY <1>2 DEF TypeOK, Row
  <2>2. /\ exec' \in [Requests -> Seq(Row)]
        /\ \A p \in Requests : p # Q(w) => exec'[p] = exec[p]
        /\ Len(exec'[Q(w)]) = Len(exec[Q(w)])
        /\ \A n \in DOMAIN exec[Q(w)] :
             exec'[Q(w)][n] = IF n = Len(exec[Q(w)]) THEN "bound" ELSE exec[Q(w)][n]
    BY <1>2, <1>3, <2>1, RowSet
  <2>3. /\ call' \in [Calls -> {"none", "sent", "completed"}]
        /\ call'[Attempt(w)] = "sent"
        /\ \A a \in Calls : a # Attempt(w) => call'[a] = call[a]
    BY <1>2, <1>3 DEF TypeOK
  <2> QED
    BY <1>1, <1>2, <1>3, <2>2, <2>3 DEF Binds
<1> QED
  BY <1>1, <1>2, <1>3 DEF BindAndSend

\* The worker's own call: answered, and then retired, or left to the sweep.
LEMMA AwaitEffect ==
  ASSUME TypeOK, WorkerInv, NEW w \in Workers, Await(w)
  PROVE  /\ Swept
         /\ \/ /\ GoTo(w, "answer") /\ state' = state
               /\ exec'[Q(w)][Len(exec[Q(w)])] = "retired"
            \/ Finish(w, OutcomeUnknown)
<1>1. worker[w].pc = "await"
  BY DEF Await, At
<1>2. /\ Attempt(w) \in Calls /\ Attempt(w)[1] = Q(w)
      /\ Attempt(w)[2] = Len(exec[Q(w)])
      /\ Attempt(w)[2] \in DOMAIN exec[Q(w)]
  BY <1>1, AttemptIsCall
<1>3. CASE Receipt(Attempt(w)) /\ Retire(Attempt(w))
  BY <1>2, <1>3, RetireSweeps DEF Retire, Await
<1>4. CASE ~(Receipt(Attempt(w)) /\ Retire(Attempt(w)))
  <2>1. \/ /\ exec[Q(w)][Len(exec[Q(w)])] = "retired" /\ exec' = exec
           /\ GoTo(w, "answer") /\ state' = state
        \/ Finish(w, OutcomeUnknown) /\ exec' = exec
    BY <1>2, <1>4 DEF Await
  <2> QED
    BY <2>1, SameSweeps
<1> QED
  BY <1>3, <1>4
-----------------------------------------------------------------------------
(* What one step does to requests, executions and workers *)

States == {"none", "queued", "running", "succeeded", "failed", "uncertain"}

\* The life of a request.
StateMove(q) ==
  \/ state'[q] = state[q]
  \/ state[q] = "none" /\ state'[q] = "queued"
  \/ state[q] = "running" /\ state'[q] = "uncertain"
  \/ /\ state[q] = "running" /\ state'[q] \in {"succeeded", "failed"}
     /\ ~Unretired(q) /\ exec' = exec
  \/ state[q] = "queued" /\ state'[q] = "running" /\ exec' = exec

StateMoves == state' \in [Requests -> States] /\ \A q \in Requests : StateMove(q)

\* finish writes the last state of the worker's request, if it still holds it.
LEMMA FinishEffect ==
  ASSUME TypeOK, NEW w \in Workers, Q(w) \in Requests, NEW st \in States, Finish(w, st)
  PROVE  /\ state' \in [Requests -> States]
         /\ \A p \in Requests : p # Q(w) => state'[p] = state[p]
         /\ \/ state'[Q(w)] = state[Q(w)]
            \/ state[Q(w)] = "running" /\ state'[Q(w)] = st
         /\ Stop(w)
BY DEF TypeOK, Finish, Current, Q, States

\* A worker that is about to begin a call, or to conclude, has none left.
LEMMA NoneLeft ==
  ASSUME WorkerInv, NEW w \in Workers, worker[w].pc \in {"begin", "answer", "succeed"}
  PROVE  Q(w) \in Requests /\ ~Unretired(Q(w))
BY DEF WorkerInv, WorkerOK, Busy, Q, Unretired

\* claimReview expires what has run out, and takes at most one queued request.
LEMMA ClaimEffect ==
  ASSUME TypeOK, NEW w \in Workers, ClaimReview(w)
  PROVE  /\ exec' = exec /\ call' = call /\ fresh' = fresh /\ rotation' = rotation
         /\ state' \in [Requests -> States]
         /\ \/ /\ Stop(w)
               /\ \A p \in Requests :
                    \/ state'[p] = state[p]
                    \/ state[p] = "running" /\ state'[p] = "uncertain"
            \/ \E q \in Requests :
                 /\ worker' = [worker EXCEPT ![w] = [Idle EXCEPT !.pc = "begin", !.q = q]]
                 /\ state[q] = "queued" /\ state'[q] = "running"
                 /\ Cardinality(Outstanding(ExpireLeases)) < MaxConcurrent
                 /\ \A p \in Requests : p # q => state'[p] = ExpireLeases[p]
                 /\ \A p \in Requests :
                      p # q => \/ state'[p] = state[p]
                               \/ state[p] = "running" /\ state'[p] = "uncertain"
<1>1. /\ ExpireLeases \in [Requests -> States]
      /\ \A p \in Requests : \/ ExpireLeases[p] = state[p]
                             \/ state[p] = "running" /\ ExpireLeases[p] = "uncertain"
  BY DEF TypeOK, ExpireLeases, States
<1>2. exec' = exec /\ call' = call /\ fresh' = fresh /\ rotation' = rotation
  BY DEF ClaimReview
<1>3. CASE state' = ExpireLeases /\ Stop(w)
  BY <1>1, <1>2, <1>3
<1>4. CASE Cardinality(Outstanding(ExpireLeases)) < MaxConcurrent
           /\ \E q \in Requests :
             /\ ExpireLeases[q] = "queued"
             /\ state' = [ExpireLeases EXCEPT ![q] = "running"]
             /\ worker' = [worker EXCEPT ![w] = [Idle EXCEPT !.pc = "begin", !.q = q]]
  <2>1. PICK q \in Requests :
             /\ ExpireLeases[q] = "queued"
             /\ state' = [ExpireLeases EXCEPT ![q] = "running"]
             /\ worker' = [worker EXCEPT ![w] = [Idle EXCEPT !.pc = "begin", !.q = q]]
    BY <1>4
  <2>2. /\ state'[q] = "running"
        /\ \A p \in Requests : p # q => state'[p] = ExpireLeases[p]
    BY <1>1, <2>1
  <2>3. state' \in [Requests -> States]
    BY <1>1, <2>1 DEF States
  <2>4. state[q] = "queued"
    BY <1>1, <2>1
  <2> QED
    BY <1>1, <1>2, <1>4, <2>1, <2>2, <2>3, <2>4
<1> QED
  BY <1>3, <1>4 DEF ClaimReview

\* Every step moves requests along their life.
LEMMA StateStep ==
  ASSUME TypeOK, WorkerInv, [Next]_vars
  PROVE  StateMoves
<1>1. ASSUME NEW q \in Requests, RequestAgentReview(q) PROVE StateMoves
  BY <1>1 DEF RequestAgentReview, TypeOK, StateMoves, StateMove, States
<1>2. ASSUME NEW q \in Requests, LeaseRunsOut(q) PROVE StateMoves
  BY <1>2 DEF LeaseRunsOut, TypeOK, StateMoves, StateMove, States
<1>3. ASSUME NEW w \in Workers, Tick(w) PROVE StateMoves
  BY <1>3 DEF Tick, TypeOK, StateMoves, StateMove, States
<1>4. ASSUME NEW w \in Workers, ClaimReview(w) PROVE StateMoves
  BY <1>4, ClaimEffect DEF StateMoves, StateMove
<1>5. ASSUME NEW w \in Workers, Preflight(w) PROVE StateMoves
  <2>1. worker[w].pc = "begin" /\ "failed" \in States /\ exec' = exec
    BY <1>5 DEF Preflight, At, States
  <2>2. Q(w) \in Requests /\ ~Unretired(Q(w))
    BY <2>1, NoneLeft
  <2>3. CASE Finish(w, "failed")
    BY <2>1, <2>2, <2>3, FinishEffect DEF StateMoves, StateMove
  <2> QED
    BY <1>5, <2>3 DEF Preflight
<1>6. ASSUME NEW w \in Workers, BeginExecution(w) PROVE StateMoves
  BY <1>6 DEF BeginExecution, TypeOK, StateMoves, StateMove, States
<1>7. ASSUME NEW w \in Workers, BindAndSend(w) PROVE StateMoves
  <2>1. Q(w) \in Requests /\ OutcomeUnknown \in States /\ OutcomeUnknown = "uncertain"
    BY <1>7 DEF BindAndSend, At, States, OutcomeUnknown, WorkerInv, WorkerOK, Busy, Q
  <2>2. CASE Finish(w, OutcomeUnknown)
    BY <2>1, <2>2, FinishEffect DEF StateMoves, StateMove
  <2>3. CASE state' = state
    BY <2>3 DEF TypeOK, StateMoves, StateMove, States
  <2> QED
    BY <1>7, <2>2, <2>3 DEF BindAndSend
<1>8. ASSUME NEW w \in Workers, Await(w) PROVE StateMoves
  <2>1. Q(w) \in Requests /\ OutcomeUnknown \in States /\ OutcomeUnknown = "uncertain"
    BY <1>8 DEF Await, At, States, OutcomeUnknown, WorkerInv, WorkerOK, Busy, Q
  <2>2. CASE Finish(w, OutcomeUnknown)
    BY <2>1, <2>2, FinishEffect DEF StateMoves, StateMove
  <2>3. CASE state' = state
    BY <2>3 DEF TypeOK, StateMoves, StateMove, States
  <2> QED
    BY <1>8, <2>2, <2>3 DEF Await
<1>9. ASSUME NEW w \in Workers, SaveReview(w) PROVE StateMoves
  <2>1. worker[w].pc = "answer" /\ "failed" \in States /\ exec' = exec
    BY <1>9 DEF SaveReview, At, States
  <2>2. Q(w) \in Requests /\ ~Unretired(Q(w))
    BY <2>1, NoneLeft
  <2>3. CASE Finish(w, "failed")
    BY <2>1, <2>2, <2>3, FinishEffect DEF StateMoves, StateMove
  <2>4. CASE state' = state
    BY <2>4 DEF TypeOK, StateMoves, StateMove, States
  <2> QED
    BY <1>9, <2>3, <2>4 DEF SaveReview
<1>10. ASSUME NEW w \in Workers, Conclude(w) PROVE StateMoves
  <2>1. worker[w].pc = "succeed" /\ "succeeded" \in States /\ exec' = exec
    BY <1>10 DEF Conclude, At, States
  <2>2. Q(w) \in Requests /\ ~Unretired(Q(w))
    BY <2>1, NoneLeft
  <2>3. CASE Finish(w, "succeeded")
    BY <2>1, <2>2, <2>3, FinishEffect DEF StateMoves, StateMove
  <2> QED
    BY <1>10, <2>3 DEF Conclude
<1>11. ASSUME NEW w \in Workers, Crash(w) PROVE StateMoves
  BY <1>11 DEF Crash, TypeOK, StateMoves, StateMove, States
<1>12. ASSUME NEW a \in Calls, GatewayCompletes(a) PROVE StateMoves
  BY <1>12 DEF GatewayCompletes, TypeOK, StateMoves, StateMove, States
<1>13. ASSUME CloseRun PROVE StateMoves
  BY <1>13 DEF CloseRun, TypeOK, StateMoves, StateMove, States
<1>14. CASE UNCHANGED vars
  BY <1>14 DEF vars, TypeOK, StateMoves, StateMove, States
<1> QED
  BY <1>1, <1>2, <1>3, <1>4, <1>5, <1>6, <1>7, <1>8, <1>9, <1>10, <1>11, <1>12,
     <1>13, <1>14 DEF Next, WorkerStep

\* Whatever the step, executions are swept, or one worker begins or binds a call.
ExecMoves ==
  \/ Swept /\ Ended
  \/ \E w \in Workers : Begins(w) \/ Binds(w)

\* Every step moves executions along theirs.
LEMMA ExecStep ==
  ASSUME TypeOK, WorkerInv, [Next]_vars
  PROVE  ExecMoves
<1>1. ASSUME NEW q \in Requests, RequestAgentReview(q) PROVE ExecMoves
  BY <1>1, SameSweeps DEF RequestAgentReview, TypeOK, ExecMoves, Ended
<1>2. ASSUME NEW q \in Requests, LeaseRunsOut(q) PROVE ExecMoves
  BY <1>2, SameSweeps DEF LeaseRunsOut, TypeOK, ExecMoves, Ended
<1>3. ASSUME NEW w \in Workers, Tick(w) PROVE ExecMoves
  BY <1>3, TickEffect DEF Tick, TypeOK, ExecMoves, Ended
<1>4. ASSUME NEW w \in Workers, ClaimReview(w) PROVE ExecMoves
  BY <1>4, SameSweeps DEF ClaimReview, TypeOK, ExecMoves, Ended
<1>5. ASSUME NEW w \in Workers, Preflight(w) PROVE ExecMoves
  BY <1>5, SameSweeps DEF Preflight, TypeOK, ExecMoves, Ended
<1>6. ASSUME NEW w \in Workers, BeginExecution(w) PROVE ExecMoves
  <2>1. CASE exec' = exec
    BY <1>6, <2>1, SameSweeps DEF BeginExecution, TypeOK, ExecMoves, Ended
  <2> QED
    BY <1>6, <2>1, BeginEffect DEF ExecMoves
<1>7. ASSUME NEW w \in Workers, BindAndSend(w) PROVE ExecMoves
  <2>1. CASE exec' = exec /\ call' = call
    BY <1>7, <2>1, SameSweeps DEF TypeOK, ExecMoves, Ended
  <2> QED
    BY <1>7, <2>1, BindEffect DEF ExecMoves
<1>8. ASSUME NEW w \in Workers, Await(w) PROVE ExecMoves
  BY <1>8, AwaitEffect DEF Await, TypeOK, ExecMoves, Ended
<1>9. ASSUME NEW w \in Workers, SaveReview(w) PROVE ExecMoves
  BY <1>9, SameSweeps DEF SaveReview, TypeOK, ExecMoves, Ended
<1>10. ASSUME NEW w \in Workers, Conclude(w) PROVE ExecMoves
  BY <1>10, SameSweeps DEF Conclude, TypeOK, ExecMoves, Ended
<1>11. ASSUME NEW w \in Workers, Crash(w) PROVE ExecMoves
  BY <1>11, SameSweeps DEF Crash, TypeOK, ExecMoves, Ended
<1>12. ASSUME NEW a \in Calls, GatewayCompletes(a) PROVE ExecMoves
  BY <1>12, SameSweeps DEF GatewayCompletes, TypeOK, ExecMoves, Ended
<1>13. ASSUME CloseRun PROVE ExecMoves
  BY <1>13, SameSweeps DEF CloseRun, TypeOK, ExecMoves, Ended
<1>14. CASE UNCHANGED vars
  BY <1>14, SameSweeps DEF vars, TypeOK, ExecMoves, Ended
<1> QED
  BY <1>1, <1>2, <1>3, <1>4, <1>5, <1>6, <1>7, <1>8, <1>9, <1>10, <1>11, <1>12,
     <1>13, <1>14 DEF Next, WorkerStep

WorkerType ==
  [pc : {"idle", "claim", "begin", "bind", "await", "answer", "succeed"},
   q : Requests \cup {None}, roles : 0..Roles]

\* The worker takes up a request nobody has claimed.
Claims(w) ==
  /\ ~Busy(w) /\ exec' = exec
  /\ worker'[w].pc = "begin" /\ worker'[w].roles = 0 /\ worker'[w].q \in Requests
  /\ state[worker'[w].q] = "queued" /\ state'[worker'[w].q] = "running"
  /\ \A v \in Workers : v # w => worker'[v] = worker[v]

\* The worker goes on with its request.
GoesOn(w) ==
  /\ Busy(w) /\ worker'[w].q = worker[w].q
  /\ \/ /\ Begins(w)
        /\ worker'[w].pc = "bind" /\ worker'[w].roles = worker[w].roles
     \/ /\ Binds(w)
        /\ worker'[w].pc = "await" /\ worker'[w].roles = worker[w].roles
     \/ /\ worker[w].pc = "await" /\ Swept /\ exec'[Q(w)][Len(exec[Q(w)])] = "retired"
        /\ worker'[w].pc = "answer" /\ worker'[w].roles = worker[w].roles
     \/ /\ worker[w].pc = "answer" /\ exec' = exec
        /\ worker'[w].roles = worker[w].roles + 1
        /\ worker'[w].pc = IF worker'[w].roles < Roles THEN "begin" ELSE "succeed"

\* The worker takes no part in the step.
Watches(w) ==
  /\ worker'[w] = worker[w]
  /\ Swept \/ \E v \in Workers : v # w /\ (Begins(v) \/ Binds(v))

WorkerMove(w) == ~Busy(w)' \/ Claims(w) \/ GoesOn(w) \/ Watches(w)

WorkerMoves ==
  worker' \in [Workers -> WorkerType] /\ \A w \in Workers : WorkerMove(w)

\* A worker that stops, or goes from tick to claim, holds no request.
LEMMA StopEffect ==
  ASSUME TypeOK, NEW w \in Workers, Stop(w) \/ GoTo(w, "claim")
  PROVE  /\ worker' \in [Workers -> WorkerType]
         /\ ~Busy(w)'
         /\ \A v \in Workers : v # w => worker'[v] = worker[v]
<1>1. worker \in [Workers -> WorkerType] /\ Idle \in WorkerType
  BY DEF TypeOK, Idle, WorkerType
<1>2. CASE Stop(w)
  BY <1>1, <1>2 DEF Stop, Busy, Idle
<1>3. CASE GoTo(w, "claim")
  BY <1>1, <1>3 DEF GoTo, Busy, WorkerType
<1> QED
  BY <1>2, <1>3

\* A worker that goes on has its place changed, and nothing else.
LEMMA GoToEffect ==
  ASSUME TypeOK, NEW w \in Workers, NEW pc \in {"bind", "await", "answer"}, GoTo(w, pc)
  PROVE  /\ worker' \in [Workers -> WorkerType]
         /\ worker'[w].pc = pc /\ worker'[w].q = worker[w].q
         /\ worker'[w].roles = worker[w].roles
         /\ \A v \in Workers : v # w => worker'[v] = worker[v]
BY DEF TypeOK, GoTo, WorkerType

\* So has a worker that has saved a verdict.
LEMMA SavedEffect ==
  ASSUME TypeOK, WorkerInv, NEW w \in Workers, worker[w].pc = "answer",
         worker' = [worker EXCEPT ![w].roles = worker[w].roles + 1,
                      ![w].pc = IF worker[w].roles + 1 < Roles THEN "begin" ELSE "succeed"]
  PROVE  /\ worker' \in [Workers -> WorkerType]
         /\ worker'[w].q = worker[w].q
         /\ worker'[w].roles = worker[w].roles + 1
         /\ worker'[w].pc = IF worker[w].roles + 1 < Roles THEN "begin" ELSE "succeed"
         /\ \A v \in Workers : v # w => worker'[v] = worker[v]
<1>1. worker[w].roles + 1 \in 0..Roles
  BY AttemptIsCall DEF TypeOK
<1> QED
  BY <1>1 DEF TypeOK, WorkerType

\* And one that claims.
LEMMA ClaimsEffect ==
  ASSUME TypeOK, NEW w \in Workers, NEW q \in Requests,
         worker' = [worker EXCEPT ![w] = [Idle EXCEPT !.pc = "begin", !.q = q]]
  PROVE  /\ worker' \in [Workers -> WorkerType]
         /\ worker'[w].pc = "begin" /\ worker'[w].roles = 0 /\ worker'[w].q = q
         /\ \A v \in Workers : v # w => worker'[v] = worker[v]
<1>1. worker \in [Workers -> WorkerType]
  BY DEF TypeOK, WorkerType
<1>2. \A r \in WorkerType : r.roles = 0 =>
        LET x == [r EXCEPT !.pc = "begin", !.q = q]
        IN  x \in WorkerType /\ x.pc = "begin" /\ x.q = q /\ x.roles = 0
  BY DEF WorkerType
<1>3. Idle \in WorkerType /\ Idle.roles = 0
  BY DEF Idle, WorkerType
<1> QED
  BY <1>1, <1>2, <1>3

\* Every step moves the workers along their tick.
LEMMA WorkerMovesStep ==
  ASSUME TypeOK, WorkerInv, [Next]_vars
  PROVE  WorkerMoves
<1>1. ASSUME NEW q \in Requests, RequestAgentReview(q) PROVE WorkerMoves
  BY <1>1, SameSweeps DEF RequestAgentReview, TypeOK, WorkerType, WorkerMoves,
     WorkerMove, Watches
<1>2. ASSUME NEW q \in Requests, LeaseRunsOut(q) PROVE WorkerMoves
  BY <1>2, SameSweeps DEF LeaseRunsOut, TypeOK, WorkerType, WorkerMoves, WorkerMove,
     Watches
<1>3. ASSUME NEW w \in Workers, Tick(w) PROVE WorkerMoves
  BY <1>3, TickEffect, StopEffect DEF Tick, WorkerMoves, WorkerMove, Watches
<1>4. ASSUME NEW w \in Workers, ClaimReview(w) PROVE WorkerMoves
  <2>1. exec' = exec /\ Swept /\ ~Busy(w)
    BY <1>4, SameSweeps DEF ClaimReview, At, Busy
  <2>2. CASE Stop(w)
    BY <2>1, <2>2, StopEffect DEF WorkerMoves, WorkerMove, Watches
  <2>3. CASE ~Stop(w)
    <3>1. PICK q \in Requests :
                 /\ worker' = [worker EXCEPT ![w] = [Idle EXCEPT !.pc = "begin", !.q = q]]
                 /\ state[q] = "queued" /\ state'[q] = "running"
      BY <1>4, <2>3, ClaimEffect
    <3>2. /\ worker' \in [Workers -> WorkerType]
          /\ worker'[w].pc = "begin" /\ worker'[w].roles = 0 /\ worker'[w].q = q
          /\ \A v \in Workers : v # w => worker'[v] = worker[v]
      BY <3>1, ClaimsEffect
    <3>3. Claims(w)
      BY <2>1, <3>1, <3>2 DEF Claims
    <3> QED
      BY <2>1, <3>2, <3>3 DEF WorkerMoves, WorkerMove, Watches
  <2> QED
    BY <2>2, <2>3
<1>5. ASSUME NEW w \in Workers, Preflight(w) PROVE WorkerMoves
  BY <1>5, SameSweeps, StopEffect DEF Preflight, Finish, WorkerMoves, WorkerMove,
     Watches
<1>6. ASSUME NEW w \in Workers, BeginExecution(w) PROVE WorkerMoves
  <2>1. worker[w].pc = "begin" /\ Busy(w)
    BY <1>6 DEF BeginExecution, At, Busy
  <2>2. Begins(w) \/ Swept
    BY <1>6, BeginEffect, SameSweeps
  <2>3. CASE Stop(w)
    BY <2>2, <2>3, StopEffect DEF WorkerMoves, WorkerMove, Watches
  <2>4. CASE GoTo(w, "bind") /\ Begins(w)
    <3>1. GoesOn(w) /\ worker' \in [Workers -> WorkerType]
      BY <2>1, <2>4, GoToEffect DEF GoesOn
    <3> QED
      BY <2>4, <3>1, GoToEffect DEF WorkerMoves, WorkerMove, Watches
  <2> QED
    BY <1>6, <2>3, <2>4, BeginEffect DEF BeginExecution
<1>7. ASSUME NEW w \in Workers, BindAndSend(w) PROVE WorkerMoves
  <2>1. worker[w].pc = "bind" /\ Busy(w)
    BY <1>7 DEF BindAndSend, At, Busy
  <2>2. CASE Stop(w) /\ exec' = exec
    BY <2>2, StopEffect, SameSweeps DEF WorkerMoves, WorkerMove, Watches
  <2>3. CASE GoTo(w, "await") /\ Binds(w)
    <3>1. GoesOn(w) /\ worker' \in [Workers -> WorkerType]
      BY <2>1, <2>3, GoToEffect DEF GoesOn
    <3> QED
      BY <2>3, <3>1, GoToEffect DEF WorkerMoves, WorkerMove, Watches
  <2> QED
    BY <1>7, <2>2, <2>3, BindEffect DEF Finish
<1>8. ASSUME NEW w \in Workers, Await(w) PROVE WorkerMoves
  <2>1. worker[w].pc = "await" /\ Busy(w) /\ Swept
    BY <1>8, AwaitEffect DEF Await, At, Busy
  <2>2. CASE Stop(w)
    BY <2>1, <2>2, StopEffect DEF WorkerMoves, WorkerMove, Watches
  <2>3. CASE GoTo(w, "answer") /\ exec'[Q(w)][Len(exec[Q(w)])] = "retired"
    <3>1. GoesOn(w) /\ worker' \in [Workers -> WorkerType]
      BY <2>1, <2>3, GoToEffect DEF GoesOn
    <3> QED
      BY <2>1, <2>3, <3>1, GoToEffect DEF WorkerMoves, WorkerMove, Watches
  <2> QED
    BY <1>8, <2>2, <2>3, AwaitEffect DEF Finish
<1>9. ASSUME NEW w \in Workers, SaveReview(w) PROVE WorkerMoves
  <2>1. worker[w].pc = "answer" /\ Busy(w) /\ exec' = exec /\ Swept
    BY <1>9, SameSweeps DEF SaveReview, At, Busy
  <2>2. CASE Stop(w)
    BY <2>1, <2>2, StopEffect DEF WorkerMoves, WorkerMove, Watches
  <2>3. CASE worker' = [worker EXCEPT ![w].roles = worker[w].roles + 1,
                          ![w].pc = IF worker[w].roles + 1 < Roles THEN "begin" ELSE "succeed"]
    <3>1. GoesOn(w) /\ worker' \in [Workers -> WorkerType]
      BY <2>1, <2>3, SavedEffect DEF GoesOn
    <3> QED
      BY <2>1, <2>3, <3>1, SavedEffect DEF WorkerMoves, WorkerMove, Watches
  <2> QED
    BY <1>9, <2>2, <2>3 DEF SaveReview, Finish
<1>10. ASSUME NEW w \in Workers, Conclude(w) PROVE WorkerMoves
  BY <1>10, SameSweeps, StopEffect DEF Conclude, Finish, WorkerMoves, WorkerMove,
     Watches
<1>11. ASSUME NEW w \in Workers, Crash(w) PROVE WorkerMoves
  BY <1>11, SameSweeps, StopEffect DEF Crash, Finish, WorkerMoves, WorkerMove, Watches
<1>12. ASSUME NEW a \in Calls, GatewayCompletes(a) PROVE WorkerMoves
  BY <1>12, SameSweeps DEF GatewayCompletes, TypeOK, WorkerType, WorkerMoves,
     WorkerMove, Watches
<1>13. ASSUME CloseRun PROVE WorkerMoves
  BY <1>13, SameSweeps DEF CloseRun, TypeOK, WorkerType, WorkerMoves, WorkerMove,
     Watches
<1>14. CASE UNCHANGED vars
  BY <1>14, SameSweeps DEF vars, TypeOK, WorkerType, WorkerMoves, WorkerMove, Watches
<1> QED
  BY <1>1, <1>2, <1>3, <1>4, <1>5, <1>6, <1>7, <1>8, <1>9, <1>10, <1>11, <1>12,
     <1>13, <1>14 DEF Next, WorkerStep

-----------------------------------------------------------------------------
(* The invariants *)

\* The rows of a request are a sequence.
LEMMA ExecTyped ==
  ASSUME NEW e \in [Requests -> Seq(Row)], NEW q \in Requests
  PROVE  e[q] \in Seq(Row) /\ Len(e[q]) \in Nat /\ DOMAIN e[q] = 1..Len(e[q])
OBVIOUS

\* A sweep leaves what is retired.
LEMMA SweptKeeps ==
  ASSUME TypeOK, Swept, NEW q \in Requests
  PROVE  /\ exec[q] \in Seq(Row) /\ exec'[q] \in Seq(Row)
         /\ Len(exec[q]) \in Nat /\ Len(exec'[q]) = Len(exec[q])
         /\ DOMAIN exec[q] = 1..Len(exec[q]) /\ DOMAIN exec'[q] = 1..Len(exec[q])
         /\ \A n \in 1..Len(exec[q]) : exec[q][n] = "retired" => exec'[q][n] = "retired"
<1>1. exec \in [Requests -> Seq(Row)] /\ exec' \in [Requests -> Seq(Row)]
  BY DEF TypeOK, Swept, Row
<1>2. Len(exec'[q]) = Len(exec[q])
  BY DEF Swept
<1>3. /\ exec[q] \in Seq(Row) /\ Len(exec[q]) \in Nat
      /\ DOMAIN exec[q] = 1..Len(exec[q])
      /\ exec'[q] \in Seq(Row) /\ DOMAIN exec'[q] = 1..Len(exec'[q])
  BY <1>1
<1>4. \A n \in DOMAIN exec[q] : exec[q][n] = "retired" => exec'[q][n] = "retired"
  BY DEF Swept
<1> QED
  BY <1>2, <1>3, <1>4

\* The invariant of a worker that takes no part in the step.
LEMMA WatcherOK ==
  ASSUME TypeOK, WorkerInv, HolderInv, StateMoves, NEW w \in Workers, Busy(w), Watches(w)
  PROVE  WorkerOK(w)'
<1>1. WorkerOK(w) /\ worker'[w] = worker[w] /\ Q(w) \in Requests
  BY DEF WorkerInv, Watches, WorkerOK, Q
<1>2. state'[Q(w)] \notin {"none", "queued"}
  BY <1>1 DEF StateMoves, StateMove, WorkerOK, Q
<1>3. /\ Len(exec'[Q(w)]) = Len(exec[Q(w)])
      /\ DOMAIN exec'[Q(w)] = DOMAIN exec[Q(w)]
      /\ \A n \in DOMAIN exec[Q(w)] :
           exec[Q(w)][n] = "retired" => exec'[Q(w)][n] = "retired"
  <2>1. CASE Swept
    BY <1>1, <2>1, SweptKeeps
  <2>2. CASE \E v \in Workers : v # w /\ (Begins(v) \/ Binds(v))
    <3>1. PICK v \in Workers : v # w /\ (Begins(v) \/ Binds(v))
      BY <2>2
    <3>2. Q(v) # Q(w)
      BY <3>1 DEF HolderInv, Busy, Begins, Binds, Q
    <3> QED
      BY <1>1, <3>1, <3>2 DEF Begins, Binds
  <2> QED
    BY <2>1, <2>2 DEF Watches
<1> QED
  BY <1>1, <1>2, <1>3 DEF WorkerOK, Q

\* The invariant of a worker that goes on with its request.
LEMMA GoesOnOK ==
  ASSUME TypeOK, WorkerInv, StateMoves, NEW w \in Workers, GoesOn(w),
         worker' \in [Workers -> WorkerType]
  PROVE  WorkerOK(w)'
<1>1. /\ WorkerOK(w) /\ worker'[w].q = Q(w) /\ Q(w) \in Requests
      /\ worker[w].roles \in 0..Roles
  BY DEF WorkerInv, GoesOn, WorkerOK, Q, TypeOK
<1>2. state'[Q(w)] \notin {"none", "queued"}
  BY <1>1 DEF StateMoves, StateMove, WorkerOK, Q
<1>3. /\ exec[Q(w)] \in Seq(Row) /\ Len(exec[Q(w)]) \in Nat
      /\ DOMAIN exec[Q(w)] = 1..Len(exec[Q(w)])
  <2>1. exec \in [Requests -> Seq(Row)]
    BY DEF TypeOK, Row
  <2> QED
    BY <1>1, <2>1, ExecTyped
<1>4. /\ worker[w].pc = "succeed" <=> worker[w].roles = Roles
      /\ Len(exec[Q(w)]) =
           worker[w].roles + (IF worker[w].pc \in {"bind", "await", "answer"} THEN 1 ELSE 0)
      /\ \A n \in DOMAIN exec[Q(w)] :
           \/ exec[Q(w)][n] = "retired"
           \/ worker[w].pc \in {"bind", "await"} /\ n = Len(exec[Q(w)])
  BY <1>1 DEF WorkerOK, Q
<1>5. SUFFICES
      /\ worker'[w].pc = "succeed" <=> worker'[w].roles = Roles
      /\ Len(exec'[Q(w)]) =
           worker'[w].roles + (IF worker'[w].pc \in {"bind", "await", "answer"} THEN 1 ELSE 0)
      /\ \A n \in DOMAIN exec'[Q(w)] :
           \/ exec'[Q(w)][n] = "retired"
           \/ worker'[w].pc \in {"bind", "await"} /\ n = Len(exec'[Q(w)])
  BY <1>1, <1>2 DEF WorkerOK
<1>6. CASE /\ Begins(w)
           /\ worker'[w].pc = "bind" /\ worker'[w].roles = worker[w].roles
  <2>1. /\ Len(exec'[Q(w)]) = Len(exec[Q(w)]) + 1 /\ exec'[Q(w)] \in Seq(Row)
        /\ \A n \in DOMAIN exec[Q(w)] : exec'[Q(w)][n] = exec[Q(w)][n]
        /\ worker[w].pc = "begin"
    BY <1>1, <1>6 DEF Begins
  <2>2. DOMAIN exec'[Q(w)] = 1..(Len(exec[Q(w)]) + 1)
    BY <2>1
  <2>3. Len(exec[Q(w)]) = worker[w].roles /\ worker[w].roles # Roles
        /\ \A n \in DOMAIN exec[Q(w)] : exec[Q(w)][n] = "retired"
    BY <1>1, <1>4, <2>1
  <2>4. \A n \in 1..(Len(exec[Q(w)]) + 1) : n \in DOMAIN exec[Q(w)] \/ n = Len(exec[Q(w)]) + 1
    BY <1>3
  <2> QED
    BY <1>6, <2>1, <2>2, <2>3, <2>4
<1>7. CASE /\ Binds(w)
           /\ worker'[w].pc = "await" /\ worker'[w].roles = worker[w].roles
  <2>1. /\ Len(exec'[Q(w)]) = Len(exec[Q(w)]) /\ exec'[Q(w)] \in Seq(Row)
        /\ \A n \in DOMAIN exec[Q(w)] : n # Len(exec[Q(w)]) => exec'[Q(w)][n] = exec[Q(w)][n]
        /\ worker[w].pc = "bind"
    BY <1>1, <1>7 DEF Binds
  <2>2. DOMAIN exec'[Q(w)] = DOMAIN exec[Q(w)]
    BY <1>3, <2>1
  <2> QED
    BY <1>1, <1>3, <1>4, <1>7, <2>1, <2>2
<1>8. CASE /\ worker[w].pc = "await" /\ Swept
           /\ exec'[Q(w)][Len(exec[Q(w)])] = "retired"
           /\ worker'[w].pc = "answer" /\ worker'[w].roles = worker[w].roles
  <2>1. /\ Len(exec'[Q(w)]) = Len(exec[Q(w)]) /\ exec'[Q(w)] \in Seq(Row)
        /\ \A n \in DOMAIN exec[Q(w)] : exec[Q(w)][n] = "retired" => exec'[Q(w)][n] = "retired"
    BY <1>1, <1>8, SweptKeeps
  <2>2. DOMAIN exec'[Q(w)] = DOMAIN exec[Q(w)]
    BY <1>3, <2>1
  <2> QED
    BY <1>1, <1>3, <1>4, <1>8, <2>1, <2>2
<1>9. CASE /\ worker[w].pc = "answer" /\ exec' = exec
           /\ worker'[w].roles = worker[w].roles + 1
           /\ worker'[w].pc = IF worker'[w].roles < Roles THEN "begin" ELSE "succeed"
  <2>1. worker[w].roles < Roles
    BY <1>1, <1>4, <1>9
  <2>2. Len(exec[Q(w)]) = worker'[w].roles /\ worker'[w].roles \in Nat
        /\ \A n \in DOMAIN exec[Q(w)] : exec[Q(w)][n] = "retired"
    BY <1>1, <1>4, <1>9
  <2>3. worker'[w].pc = "succeed" <=> worker'[w].roles = Roles
    BY <1>1, <1>9, <2>1
  <2>4. worker'[w].pc \in {"begin", "succeed"}
    BY <1>9
  <2> QED
    BY <1>9, <2>2, <2>3, <2>4
<1> QED
  BY <1>6, <1>7, <1>8, <1>9 DEF GoesOn

\* A worker that works keeps its account of the calls it has made.
LEMMA WorkerInvStep ==
  ASSUME TypeOK, WorkerInv, HolderInv, QueuedInv, [Next]_vars
  PROVE  WorkerInv'
<1>1. StateMoves /\ WorkerMoves
  BY StateStep, WorkerMovesStep
<1> SUFFICES ASSUME NEW w \in Workers, Busy(w)' PROVE WorkerOK(w)'
  BY DEF WorkerInv
<1>2. CASE Claims(w)
  <2>1. exec[worker'[w].q] = <<>> /\ exec' = exec
    BY <1>2 DEF QueuedInv, Claims
  <2> QED
    BY <1>2, <2>1 DEF Claims, WorkerOK
<1>3. CASE GoesOn(w)
  BY <1>1, <1>3, GoesOnOK DEF WorkerMoves
<1>4. CASE Watches(w)
  BY <1>1, <1>4, WatcherOK DEF Watches, Busy
<1> QED
  BY <1>1, <1>2, <1>3, <1>4 DEF WorkerMoves, WorkerMove

\* A request that is taken up had no worker.
LEMMA HolderInvStep ==
  ASSUME TypeOK, WorkerInv, HolderInv, [Next]_vars
  PROVE  HolderInv'
<1>1. WorkerMoves
  BY WorkerMovesStep
<1>2. \A w \in Workers : Busy(w) => state[worker[w].q] # "queued"
  BY DEF WorkerInv, WorkerOK
<1>3. \A w \in Workers : Busy(w)' => Claims(w) \/ (Busy(w) /\ worker'[w].q = worker[w].q)
  BY <1>1 DEF WorkerMoves, WorkerMove, GoesOn, Watches, Busy
<1> QED
  BY <1>2, <1>3 DEF HolderInv, Claims, Busy

\* A request nobody has claimed begins no call.
LEMMA QueuedInvStep ==
  ASSUME TypeOK, WorkerInv, QueuedInv, [Next]_vars
  PROVE  QueuedInv'
<1>1. StateMoves /\ ExecMoves
  BY StateStep, ExecStep
<1> SUFFICES ASSUME NEW q \in Requests, state'[q] \in {"none", "queued"}
             PROVE  exec'[q] = <<>>
  BY DEF QueuedInv
<1>2. state[q] \in {"none", "queued"} /\ exec[q] = <<>> /\ Len(exec[q]) = 0
  BY <1>1 DEF QueuedInv, StateMoves, StateMove
<1>3. CASE Swept
  <2>1. exec'[q] \in Seq(Row) /\ Len(exec'[q]) = 0
    BY <1>2, <1>3 DEF Swept
  <2> QED
    BY <2>1
<1>4. CASE \E w \in Workers : Begins(w) \/ Binds(w)
  <2>1. PICK w \in Workers : Begins(w) \/ Binds(w)
    BY <1>4
  <2>2. Q(w) # q
    BY <1>2, <2>1 DEF Begins, Binds, Current
  <2> QED
    BY <1>2, <2>1, <2>2 DEF Begins, Binds
<1> QED
  BY <1>1, <1>3, <1>4 DEF ExecMoves

\* Rows are added only up to the number of calls.
LEMMA RowIsCall ==
  ASSUME TypeOK, NeverReplayed, NEW q \in Requests, NEW n \in DOMAIN exec[q]
  PROVE  <<q, n>> \in Calls
<1>1. exec \in [Requests -> Seq(Row)]
  BY DEF TypeOK, Row
<1>2. n \in 1..Len(exec[q]) /\ Len(exec[q]) \in Nat
  BY <1>1, ExecTyped
<1>3. Len(exec[q]) <= Roles
  BY DEF NeverReplayed
<1> QED
  BY <1>2, <1>3 DEF Calls

\* No call is retired before its receipt.
LEMMA RetiredInvStep ==
  ASSUME TypeOK, WorkerInv, NeverReplayed, RetiredInv, [Next]_vars
  PROVE  RetiredInv'
<1>1. ExecMoves
  BY ExecStep
<1> SUFFICES ASSUME NEW q \in Requests, NEW n \in DOMAIN exec'[q], exec'[q][n] = "retired"
             PROVE  call'[<<q, n>>] = "completed"
  BY DEF RetiredInv
<1>0. exec \in [Requests -> Seq(Row)]
  BY DEF TypeOK, Row
<1>2. CASE Swept /\ Ended
  <2>1. n \in DOMAIN exec[q]
    BY <1>2, SweptKeeps
  <2>2. call[<<q, n>>] = "completed"
    BY <1>2, <2>1 DEF Swept, RetiredInv
  <2> QED
    BY <1>2, <2>1, <2>2, RowIsCall DEF Ended
<1>3. ASSUME NEW w \in Workers, Begins(w) PROVE call'[<<q, n>>] = "completed"
  <2>1. exec' \in [Requests -> Seq(Row)] /\ call' = call
    BY <1>3 DEF Begins
  <2>2. /\ n \in 1..Len(exec'[q]) /\ DOMAIN exec[q] = 1..Len(exec[q])
        /\ Len(exec[q]) \in Nat
    BY <1>0, <2>1, ExecTyped
  <2>3. n \in DOMAIN exec[q] /\ exec[q][n] = "retired"
    BY <1>3, <2>2 DEF Begins
  <2> QED
    BY <2>1, <2>3 DEF RetiredInv
<1>4. ASSUME NEW w \in Workers, Binds(w) PROVE call'[<<q, n>>] = "completed"
  <2>1. exec' \in [Requests -> Seq(Row)]
    BY <1>4 DEF Binds
  <2>2. /\ n \in 1..Len(exec'[q]) /\ DOMAIN exec[q] = 1..Len(exec[q])
        /\ Len(exec[q]) \in Nat
    BY <1>0, <2>1, ExecTyped
  <2>3. n \in DOMAIN exec[q]
    BY <1>4, <2>2 DEF Binds
  <2>4. exec[q][n] = "retired" /\ ~(q = Q(w) /\ n = Len(exec[Q(w)]))
    BY <1>4, <2>3 DEF Binds
  <2>5. <<q, n>> \in Calls /\ <<q, n>> # Attempt(w)
    BY <2>3, <2>4, RowIsCall DEF Attempt, Q
  <2> QED
    BY <1>4, <2>3, <2>4, <2>5 DEF Binds, RetiredInv
<1> QED
  BY <1>1, <1>2, <1>3, <1>4 DEF ExecMoves

\* claimReview never queues a request again, so no worker begins more calls than
\* its request has roles.
LEMMA ReplayStep ==
  ASSUME TypeOK, WorkerInv, NeverReplayed, [Next]_vars
  PROVE  NeverReplayed'
<1>1. ExecMoves
  BY ExecStep
<1>2. CASE Swept
  BY <1>2 DEF Swept, NeverReplayed
<1>3. ASSUME NEW w \in Workers, Begins(w) PROVE NeverReplayed'
  <2>1. /\ Len(exec[Q(w)]) = worker[w].roles /\ worker[w].roles # Roles
        /\ worker[w].roles \in 0..Roles
    BY <1>3 DEF Begins, WorkerInv, WorkerOK, Busy, Q, TypeOK
  <2>2. /\ Len(exec'[Q(w)]) = Len(exec[Q(w)]) + 1
        /\ \A p \in Requests : p # Q(w) => exec'[p] = exec[p]
    BY <1>3 DEF Begins
  <2>3. Len(exec'[Q(w)]) <= Roles
    BY <2>1, <2>2
  <2> QED
    BY <2>2, <2>3 DEF NeverReplayed
<1>4. ASSUME NEW w \in Workers, Binds(w) PROVE NeverReplayed'
  <2>1. /\ Len(exec'[Q(w)]) = Len(exec[Q(w)])
        /\ \A p \in Requests : p # Q(w) => exec'[p] = exec[p]
    BY <1>4 DEF Binds
  <2> QED
    BY <2>1 DEF NeverReplayed
<1> QED
  BY <1>1, <1>2, <1>3, <1>4 DEF ExecMoves

\* A request without a call left upstream gets none unless its worker, which holds
\* it, begins one.
LEMMA UnretiredStep ==
  ASSUME TypeOK, WorkerInv, [Next]_vars, NEW q \in Requests, Unretired(q)'
  PROVE  Unretired(q) \/ (Current(q) /\ state' = state)
<1>1. ExecMoves
  BY ExecStep
<1>2. PICK n \in DOMAIN exec'[q] : exec'[q][n] # "retired"
  BY DEF Unretired
<1>3. CASE Swept
  BY <1>2, <1>3, SweptKeeps DEF Unretired
<1>4. ASSUME NEW w \in Workers, Begins(w) \/ Binds(w)
      PROVE  Unretired(q) \/ (Current(q) /\ state' = state)
  BY <1>2, <1>4 DEF Begins, Binds, Unretired
<1> QED
  BY <1>1, <1>3, <1>4 DEF ExecMoves

\* A request that is settled has no call left upstream.
LEMMA SettledStep ==
  ASSUME TypeOK, WorkerInv, SettledIsTerminated, [Next]_vars
  PROVE  SettledIsTerminated'
<1>1. StateMoves
  BY StateStep
<1> SUFFICES ASSUME NEW q \in Requests, state'[q] \in {"succeeded", "failed"}, Unretired(q)'
             PROVE  FALSE
  BY DEF SettledIsTerminated
<1>2. Unretired(q) \/ (Current(q) /\ state' = state)
  BY UnretiredStep
<1>3. CASE state'[q] = state[q]
  BY <1>2, <1>3 DEF SettledIsTerminated, Current
<1>4. CASE exec' = exec /\ ~Unretired(q)
  BY <1>4 DEF Unretired
<1> QED
  BY <1>1, <1>3, <1>4 DEF StateMoves, StateMove

\* Only a claim sets a request running.
LEMMA RunningKept ==
  ASSUME TypeOK, WorkerInv, \A w \in Workers : ~ClaimReview(w), [Next]_vars
  PROVE  \A p \in Requests : state'[p] = "running" => state[p] = "running"
<1>1. ASSUME NEW q \in Requests, RequestAgentReview(q)
       PROVE  \A p \in Requests : state'[p] = "running" => state[p] = "running"
  BY <1>1 DEF RequestAgentReview, TypeOK
<1>2. ASSUME NEW q \in Requests, LeaseRunsOut(q)
       PROVE  \A p \in Requests : state'[p] = "running" => state[p] = "running"
  BY <1>2 DEF LeaseRunsOut
<1>3. ASSUME NEW w \in Workers, Tick(w)
       PROVE  \A p \in Requests : state'[p] = "running" => state[p] = "running"
  BY <1>3 DEF Tick
<1>4. ASSUME NEW w \in Workers, ClaimReview(w)
       PROVE  \A p \in Requests : state'[p] = "running" => state[p] = "running"
  BY <1>4
<1>5. ASSUME NEW w \in Workers, Preflight(w)
       PROVE  \A p \in Requests : state'[p] = "running" => state[p] = "running"
  BY <1>5 DEF Preflight, Finish, OutcomeUnknown, TypeOK
<1>6. ASSUME NEW w \in Workers, BeginExecution(w)
       PROVE  \A p \in Requests : state'[p] = "running" => state[p] = "running"
  BY <1>6 DEF BeginExecution
<1>7. ASSUME NEW w \in Workers, BindAndSend(w)
       PROVE  \A p \in Requests : state'[p] = "running" => state[p] = "running"
  BY <1>7 DEF BindAndSend, Finish, OutcomeUnknown, TypeOK
<1>8. ASSUME NEW w \in Workers, Await(w)
       PROVE  \A p \in Requests : state'[p] = "running" => state[p] = "running"
  BY <1>8 DEF Await, Finish, OutcomeUnknown, TypeOK
<1>9. ASSUME NEW w \in Workers, SaveReview(w)
       PROVE  \A p \in Requests : state'[p] = "running" => state[p] = "running"
  BY <1>9 DEF SaveReview, Finish, OutcomeUnknown, TypeOK
<1>10. ASSUME NEW w \in Workers, Conclude(w)
       PROVE  \A p \in Requests : state'[p] = "running" => state[p] = "running"
  BY <1>10 DEF Conclude, Finish, OutcomeUnknown, TypeOK
<1>11. ASSUME NEW w \in Workers, Crash(w)
       PROVE  \A p \in Requests : state'[p] = "running" => state[p] = "running"
  BY <1>11 DEF Crash
<1>12. ASSUME NEW a \in Calls, GatewayCompletes(a)
       PROVE  \A p \in Requests : state'[p] = "running" => state[p] = "running"
  BY <1>12 DEF GatewayCompletes
<1>13. ASSUME CloseRun
       PROVE  \A p \in Requests : state'[p] = "running" => state[p] = "running"
  BY <1>13 DEF CloseRun
<1>14. CASE UNCHANGED vars
  BY <1>14 DEF vars
<1> QED
  BY <1>1, <1>2, <1>3, <1>4, <1>5, <1>6, <1>7, <1>8, <1>9, <1>10, <1>11, <1>12,
     <1>13, <1>14 DEF Next, WorkerStep

\* What counts against the limit grows only by a claim, which has counted first.
LEMMA OutstandingStep ==
  ASSUME TypeOK, WorkerInv, OutstandingInv, [Next]_vars
  PROVE  OutstandingInv'
<1>1. StateMoves
  BY StateStep
<1> DEFINE Old == Outstanding(state)
           New == Outstanding(state)'
<1>2. CASE \A q \in Requests : state'[q] = "running" => state[q] = "running"
  <2>1. New \subseteq Old
    BY <1>2, UnretiredStep DEF Outstanding, Current
  <2>2. IsFiniteSet(Old) /\ Cardinality(Old) <= MaxConcurrent
    BY DEF OutstandingInv
  <2> HIDE DEF Old, New
  <2>3. IsFiniteSet(New) /\ Cardinality(New) <= MaxConcurrent
    BY <2>1, <2>2, FS_Subset, FS_CardinalityType
  <2> QED
    BY <2>3 DEF New, OutstandingInv
<1>3. ASSUME NEW w \in Workers, ClaimReview(w),
             ~ \A q \in Requests : state'[q] = "running" => state[q] = "running"
      PROVE  OutstandingInv'
  <2>1. PICK q \in Requests :
                 /\ state[q] = "queued" /\ state'[q] = "running"
                 /\ Cardinality(Outstanding(ExpireLeases)) < MaxConcurrent
                 /\ \A p \in Requests : p # q => state'[p] = ExpireLeases[p]
    BY <1>3, ClaimEffect
  <2> DEFINE Seen == Outstanding(ExpireLeases)
  <2>2. New \subseteq Seen \cup {q}
    <3>1. exec' = exec
      BY <1>3 DEF ClaimReview
    <3>2. \A p \in Requests : Unretired(p)' <=> Unretired(p)
      BY <3>1 DEF Unretired
    <3> QED
      BY <2>1, <3>2 DEF Outstanding
  <2>3. Seen \subseteq Old
    BY DEF Outstanding, ExpireLeases
  <2>4. IsFiniteSet(Old) /\ Cardinality(Seen) < MaxConcurrent
    BY <2>1 DEF OutstandingInv
  <2> HIDE DEF Old, New, Seen
  <2>5. IsFiniteSet(Seen) /\ Cardinality(Seen) \in Nat
    BY <2>3, <2>4, FS_Subset, FS_CardinalityType
  <2>6. IsFiniteSet(Seen \cup {q}) /\ Cardinality(Seen \cup {q}) <= MaxConcurrent
    <3>1. /\ IsFiniteSet(Seen \cup {q})
          /\ \/ Cardinality(Seen \cup {q}) = Cardinality(Seen)
             \/ Cardinality(Seen \cup {q}) = Cardinality(Seen) + 1
      BY <2>5, FS_AddElement
    <3> QED
      BY <2>4, <2>5, <3>1
  <2>7. IsFiniteSet(New) /\ Cardinality(New) <= MaxConcurrent
    BY <2>2, <2>6, FS_Subset, FS_CardinalityType
  <2> QED
    BY <2>7 DEF New, OutstandingInv
<1>4. CASE \A w \in Workers : ~ClaimReview(w)
  <2>1. \A q \in Requests : state'[q] = "running" => state[q] = "running"
    BY <1>4, RunningKept
  <2> QED
    BY <1>2, <2>1
<1> QED
  BY <1>2, <1>3, <1>4

-----------------------------------------------------------------------------
(* Types, and what the sweep has before it *)

\* Taking an execution out of the order leaves the others, each at one place.
LEMMA WithoutOne ==
  ASSUME NEW S, NEW s \in Seq(S), IsInjective(s), NEW a
  PROVE  /\ Without(s, a) \in Seq(S)
         /\ IsInjective(Without(s, a))
         /\ Range(Without(s, a)) = Range(s) \ {a}
<1>1. CASE ~ \E i \in DOMAIN s : s[i] = a
  BY <1>1 DEF Without, Range
<1>2. CASE \E i \in DOMAIN s : s[i] = a
  <2>1. PICK k \in DOMAIN s : s[k] = a /\ Without(s, a) = RemoveAt(s, k)
    BY <1>2 DEF Without
  <2> DEFINE t == RemoveAt(s, k)
  <2>2. k \in 1..Len(s) /\ Len(s) \in Nat
    BY <2>1
  <2>3. /\ t \in Seq(S) /\ Len(t) = Len(s) - 1
        /\ \A i \in 1..(Len(s) - 1) : t[i] = IF i < k THEN s[i] ELSE s[i + 1]
    <3> DEFINE l == SubSeq(s, 1, k - 1)
               r == SubSeq(s, k + 1, Len(s))
    <3>1. l \in Seq(S) /\ Len(l) = k - 1 /\ \A i \in 1..(k - 1) : l[i] = s[i]
      BY <2>2, SubSeqProperties
    <3>2. /\ r \in Seq(S) /\ Len(r) = Len(s) - k
          /\ \A i \in 1..(Len(s) - k) : r[i] = s[k + i]
      BY <2>2, SubSeqProperties
    <3>3. t = l \o r
      BY DEF RemoveAt
    <3> HIDE DEF l, r, t
    <3>4. t \in Seq(S) /\ Len(t) = Len(s) - 1
      BY <2>2, <3>1, <3>2, <3>3
    <3>5. \A i \in 1..(Len(s) - 1) : t[i] = IF i < k THEN l[i] ELSE r[i - (k - 1)]
      <4>1. \A i \in 1..(Len(l) + Len(r)) :
              (l \o r)[i] = IF i <= Len(l) THEN l[i] ELSE r[i - Len(l)]
        BY <3>1, <3>2, ConcatProperties
      <4>2. /\ Len(l) + Len(r) = Len(s) - 1
            /\ \A i \in 1..(Len(s) - 1) : i <= Len(l) <=> i < k
        BY <2>2, <3>1, <3>2
      <4> QED
        BY <3>1, <3>3, <4>1, <4>2
    <3>6. ASSUME NEW i \in 1..(Len(s) - 1) PROVE t[i] = IF i < k THEN s[i] ELSE s[i + 1]
      <4>1. CASE i < k
        BY <2>2, <3>1, <3>5, <4>1
      <4>2. CASE ~(i < k)
        <5>1. i - (k - 1) \in 1..(Len(s) - k) /\ k + (i - (k - 1)) = i + 1
          BY <2>2, <4>2
        <5> QED
          BY <3>2, <3>5, <4>2, <5>1
      <4> QED
        BY <4>1, <4>2
    <3> QED
      BY <3>4, <3>6
  <2>4. DOMAIN t = 1..(Len(s) - 1)
    BY <2>2, <2>3
  <2> HIDE DEF t
  <2>5. IsInjective(t)
    <3> DEFINE m(x) == IF x < k THEN x ELSE x + 1
    <3>1. \A x \in DOMAIN t : t[x] = s[m(x)] /\ m(x) \in DOMAIN s
      BY <2>2, <2>3, <2>4
    <3>2. \A x, y \in DOMAIN t : m(x) = m(y) => x = y
      BY <2>2, <2>4
    <3> HIDE DEF m
    <3> QED
      BY <3>1, <3>2 DEF IsInjective
  <2>6. \A i \in DOMAIN t : t[i] # a /\ t[i] \in Range(s)
    BY <2>1, <2>2, <2>3, <2>4 DEF IsInjective, Range
  <2>7. ASSUME NEW j \in DOMAIN s, s[j] # a PROVE s[j] \in Range(t)
    <3>1. j < k \/ j > k
      BY <2>1, <2>2, <2>7
    <3>2. CASE j < k
      BY <2>2, <2>3, <2>4, <3>2 DEF Range
    <3>3. CASE j > k
      <4>1. j - 1 \in DOMAIN t /\ t[j - 1] = s[j]
        BY <2>2, <2>3, <2>4, <3>3
      <4> QED
        BY <4>1 DEF Range
    <3> QED
      BY <3>1, <3>2, <3>3
  <2>8. Range(t) = Range(s) \ {a}
    BY <2>6, <2>7 DEF Range
  <2> QED
    BY <2>1, <2>3, <2>5, <2>8 DEF t
<1> QED
  BY <1>1, <1>2

\* What the sweep has before it.
Swath == fresh \cup Range(rotation)

\* The sweep and the worker take an execution out, put it back at the end, or
\* leave the order alone; a binding adds one.
SwathMoves ==
  /\ fresh' \subseteq Calls /\ rotation' \in Seq(Calls) /\ IsInjective(rotation')
  /\ \/ Swath' = Swath /\ exec' = exec
     \/ Swath' = Swath /\ \E w \in Workers : Begins(w)
     \/ \E a \in Calls :
          /\ Swath' = Swath \ {a}
          /\ exec' = [exec EXCEPT ![a[1]][a[2]] = "retired"]
     \/ \E w \in Workers : Binds(w) /\ Swath' = Swath \cup {Attempt(w)}

\* Retiring a call takes it out of the order.
LEMMA RetireSwath ==
  ASSUME TypeOK, IsInjective(rotation), NEW a \in Calls, Retire(a)
  PROVE  SwathMoves
<1>1. /\ rotation' \in Seq(Calls) /\ IsInjective(rotation')
      /\ Range(rotation') = Range(rotation) \ {a}
  BY WithoutOne DEF TypeOK, Retire
<1>2. fresh' = fresh \ {a} /\ fresh' \subseteq Calls
  BY DEF TypeOK, Retire
<1>3. Swath' = Swath \ {a}
  BY <1>1, <1>2 DEF Swath
<1> QED
  BY <1>1, <1>2, <1>3 DEF SwathMoves, Retire

\* Looking up a call that has not ended puts it at the end of the order.
LEMMA RotateSwath ==
  ASSUME TypeOK, IsInjective(rotation), NEW a \in Calls, a \in Swath,
         rotation' = Rotate(a), fresh' = fresh \ {a}, exec' = exec
  PROVE  SwathMoves
<1> DEFINE s == Without(rotation, a)
<1>1. s \in Seq(Calls) /\ IsInjective(s) /\ Range(s) = Range(rotation) \ {a}
  BY WithoutOne DEF TypeOK
<1>2. rotation' = Append(s, a)
  BY DEF Rotate
<1> HIDE DEF s
<1>3. /\ rotation' \in Seq(Calls) /\ DOMAIN rotation' = 1..(Len(s) + 1)
      /\ DOMAIN s = 1..Len(s) /\ Len(s) \in Nat
      /\ \A i \in 1..Len(s) : rotation'[i] = s[i]
      /\ rotation'[Len(s) + 1] = a
  BY <1>1, <1>2
<1>4. \A i \in 1..Len(s) : s[i] # a
  BY <1>1, <1>3 DEF Range
<1>5. \A i \in 1..(Len(s) + 1) : i \in 1..Len(s) \/ i = Len(s) + 1
  BY <1>3
<1>6. IsInjective(rotation')
  BY <1>1, <1>3, <1>4, <1>5 DEF IsInjective
<1>7. Range(rotation') = Range(s) \cup {a}
  <2>1. \A x \in Range(rotation') : x \in Range(s) \cup {a}
    BY <1>3, <1>5 DEF Range
  <2>2. \A x \in Range(s) : x \in Range(rotation')
    BY <1>3 DEF Range
  <2>3. a \in Range(rotation')
    BY <1>3 DEF Range
  <2> QED
    BY <2>1, <2>2, <2>3
<1>8. Swath' = Swath
  BY <1>1, <1>7 DEF Swath
<1> QED
  BY <1>3, <1>6, <1>8 DEF SwathMoves, TypeOK

\* Every step moves what the sweep has before it.
LEMMA SwathStep ==
  ASSUME TypeOK, WorkerInv, IsInjective(rotation), [Next]_vars
  PROVE  SwathMoves
<1>1. ASSUME NEW q \in Requests, RequestAgentReview(q) PROVE SwathMoves
  BY <1>1 DEF RequestAgentReview, TypeOK, SwathMoves, Swath
<1>2. ASSUME NEW q \in Requests, LeaseRunsOut(q) PROVE SwathMoves
  BY <1>2 DEF LeaseRunsOut, TypeOK, SwathMoves, Swath
<1>3. ASSUME NEW w \in Workers, Tick(w) PROVE SwathMoves
  <2>1. CASE UNCHANGED <<exec, fresh, rotation>>
    BY <2>1 DEF TypeOK, SwathMoves, Swath
  <2>2. CASE \E a \in Due : ReconcileOne(a)
    <3>1. PICK a \in Due : ReconcileOne(a)
      BY <2>2
    <3>2. a \in Calls /\ a \in Swath
      BY <3>1, DueCalls DEF Due, Swath, Range
    <3> QED
      BY <3>1, <3>2, RetireSwath, RotateSwath DEF ReconcileOne
  <2> QED
    BY <1>3, <2>1, <2>2 DEF Tick
<1>4. ASSUME NEW w \in Workers, ClaimReview(w) PROVE SwathMoves
  BY <1>4 DEF ClaimReview, TypeOK, SwathMoves, Swath
<1>5. ASSUME NEW w \in Workers, Preflight(w) PROVE SwathMoves
  BY <1>5 DEF Preflight, TypeOK, SwathMoves, Swath
<1>6. ASSUME NEW w \in Workers, BeginExecution(w) PROVE SwathMoves
  <2>1. CASE exec' = exec
    BY <1>6, <2>1 DEF BeginExecution, TypeOK, SwathMoves, Swath
  <2>2. CASE Begins(w)
    BY <1>6, <2>2 DEF BeginExecution, TypeOK, SwathMoves, Swath
  <2> QED
    BY <1>6, <2>1, <2>2, BeginEffect
<1>7. ASSUME NEW w \in Workers, BindAndSend(w) PROVE SwathMoves
  <2>1. CASE UNCHANGED <<exec, fresh, rotation>>
    BY <2>1 DEF TypeOK, SwathMoves, Swath
  <2>2. CASE Binds(w)
    BY <2>2 DEF Binds, TypeOK, SwathMoves, Swath
  <2> QED
    BY <1>7, <2>1, <2>2, BindEffect
<1>8. ASSUME NEW w \in Workers, Await(w) PROVE SwathMoves
  <2>1. CASE UNCHANGED <<exec, fresh, rotation>>
    BY <2>1 DEF TypeOK, SwathMoves, Swath
  <2>2. Attempt(w) \in Calls
    BY <1>8, AttemptIsCall DEF Await, At
  <2> QED
    BY <1>8, <2>1, <2>2, RetireSwath DEF Await
<1>9. ASSUME NEW w \in Workers, SaveReview(w) PROVE SwathMoves
  BY <1>9 DEF SaveReview, TypeOK, SwathMoves, Swath
<1>10. ASSUME NEW w \in Workers, Conclude(w) PROVE SwathMoves
  BY <1>10 DEF Conclude, TypeOK, SwathMoves, Swath
<1>11. ASSUME NEW w \in Workers, Crash(w) PROVE SwathMoves
  BY <1>11 DEF Crash, TypeOK, SwathMoves, Swath
<1>12. ASSUME NEW a \in Calls, GatewayCompletes(a) PROVE SwathMoves
  BY <1>12 DEF GatewayCompletes, TypeOK, SwathMoves, Swath
<1>13. ASSUME CloseRun PROVE SwathMoves
  BY <1>13 DEF CloseRun, TypeOK, SwathMoves, Swath
<1>14. CASE UNCHANGED vars
  BY <1>14 DEF vars, TypeOK, SwathMoves, Swath
<1> QED
  BY <1>1, <1>2, <1>3, <1>4, <1>5, <1>6, <1>7, <1>8, <1>9, <1>10, <1>11, <1>12,
     <1>13, <1>14 DEF Next, WorkerStep

\* The row of a call is bound.
Bound(a) == a[2] \in DOMAIN exec[a[1]] /\ exec[a[1]][a[2]] = "bound"

\* The order holds the calls that are bound, and no others.
LEMMA DueStep ==
  ASSUME TypeOK, WorkerInv, NeverReplayed, DueIsBound, [Next]_vars
  PROVE  DueIsBound'
<1>1. SwathMoves
  BY SwathStep DEF DueIsBound
<1>2. \A a \in Calls : a \in Swath <=> Bound(a)
  BY DEF DueIsBound, Swath, Bound
<1>3. SUFFICES \A b \in Calls : b \in Swath' <=> Bound(b)'
  BY <1>1 DEF DueIsBound, Swath, Bound, SwathMoves
<1>0. /\ exec \in [Requests -> Seq(Row)]
      /\ \A b \in Calls : b[1] \in Requests /\ b[2] \in Nat
  BY DEF TypeOK, Row, Calls
<1> TAKE b \in Calls
<1>4. CASE Swath' = Swath /\ exec' = exec
  BY <1>2, <1>4 DEF Bound
<1>5. CASE Swath' = Swath /\ \E w \in Workers : Begins(w)
  <2>1. PICK w \in Workers : Begins(w)
    BY <1>5
  <2>2. exec' \in [Requests -> Seq(Row)]
    BY <2>1 DEF Begins
  <2>3. /\ DOMAIN exec[b[1]] = 1..Len(exec[b[1]]) /\ Len(exec[b[1]]) \in Nat
        /\ DOMAIN exec'[b[1]] = 1..Len(exec'[b[1]])
    BY <1>0, <2>2, ExecTyped
  <2>4. Bound(b)' <=> Bound(b)
    <3>1. CASE b[1] # Q(w)
      BY <1>0, <2>1, <3>1 DEF Begins, Bound
    <3>2. CASE b[1] = Q(w)
      <4>1. /\ Len(exec'[b[1]]) = Len(exec[b[1]]) + 1
            /\ \A n \in DOMAIN exec[b[1]] : exec'[b[1]][n] = exec[b[1]][n]
            /\ exec'[b[1]][Len(exec[b[1]]) + 1] = "begun"
        BY <2>1, <3>2 DEF Begins
      <4>2. /\ DOMAIN exec[b[1]] \subseteq DOMAIN exec'[b[1]]
            /\ \A n \in DOMAIN exec'[b[1]] : n \in DOMAIN exec[b[1]] \/ n = Len(exec[b[1]]) + 1
        BY <2>3, <4>1
      <4> QED
        BY <4>1, <4>2 DEF Bound
    <3> QED
      BY <3>1, <3>2
  <2> QED
    BY <1>2, <1>5, <2>4
<1>6. CASE \E a \in Calls :
             /\ Swath' = Swath \ {a}
             /\ exec' = [exec EXCEPT ![a[1]][a[2]] = "retired"]
  <2>1. PICK a \in Calls :
          /\ Swath' = Swath \ {a}
          /\ exec' = [exec EXCEPT ![a[1]][a[2]] = "retired"]
    BY <1>6
  <2>2. /\ exec' \in [Requests -> Seq(Row)]
        /\ \A p \in Requests : p # a[1] => exec'[p] = exec[p]
        /\ Len(exec'[a[1]]) = Len(exec[a[1]])
        /\ \A m \in DOMAIN exec[a[1]] :
             exec'[a[1]][m] = IF m = a[2] THEN "retired" ELSE exec[a[1]][m]
    BY <1>0, <2>1, RowSet DEF Row
  <2>3. DOMAIN exec'[b[1]] = DOMAIN exec[b[1]]
    <3>1. Len(exec'[b[1]]) = Len(exec[b[1]])
      BY <1>0, <2>2
    <3>2. /\ DOMAIN exec[b[1]] = 1..Len(exec[b[1]])
          /\ DOMAIN exec'[b[1]] = 1..Len(exec'[b[1]])
      BY <1>0, <2>2, ExecTyped
    <3> QED
      BY <3>1, <3>2
  <2>4. a = b <=> (a[1] = b[1] /\ a[2] = b[2])
    BY DEF Calls
  <2>5. Bound(b)' <=> (Bound(b) /\ a # b)
    BY <1>0, <2>2, <2>3, <2>4 DEF Bound
  <2> QED
    BY <1>2, <2>1, <2>5
<1>7. CASE \E w \in Workers : Binds(w) /\ Swath' = Swath \cup {Attempt(w)}
  <2>1. PICK w \in Workers : Binds(w) /\ Swath' = Swath \cup {Attempt(w)}
    BY <1>7
  <2>2. DOMAIN exec'[b[1]] = DOMAIN exec[b[1]]
    <3>1. exec' \in [Requests -> Seq(Row)] /\ Len(exec'[b[1]]) = Len(exec[b[1]])
      BY <1>0, <2>1 DEF Binds
    <3> QED
      BY <1>0, <3>1, ExecTyped
  <2>3. Attempt(w) = <<Q(w), Len(exec[Q(w)])>>
    BY DEF Attempt, Q
  <2>4. Attempt(w) = b <=> (Q(w) = b[1] /\ Len(exec[Q(w)]) = b[2])
    BY <2>3 DEF Calls
  <2>5. Len(exec[Q(w)]) \in DOMAIN exec[Q(w)]
    BY <2>1, <2>3 DEF Binds
  <2>6. Bound(b)' <=> (Bound(b) \/ Attempt(w) = b)
    BY <1>0, <2>1, <2>2, <2>4, <2>5 DEF Bound, Binds
  <2> QED
    BY <1>2, <2>1, <2>6
<1> QED
  BY <1>1, <1>4, <1>5, <1>6, <1>7 DEF SwathMoves

RestTypes ==
  /\ expired \in [Requests -> BOOLEAN]
  /\ verdicts \subseteq Calls
  /\ runOpen \in BOOLEAN
  /\ crashes \in 0..MaxCrashes

\* The rest of the variables keep their types.
LEMMA RestTyped ==
  ASSUME TypeOK, WorkerInv, [Next]_vars
  PROVE  RestTypes'
<1>1. ASSUME NEW q \in Requests, RequestAgentReview(q) PROVE RestTypes'
  BY <1>1 DEF RequestAgentReview, TypeOK, RestTypes
<1>2. ASSUME NEW q \in Requests, LeaseRunsOut(q) PROVE RestTypes'
  BY <1>2 DEF LeaseRunsOut, TypeOK, RestTypes
<1>3. ASSUME NEW w \in Workers, Tick(w) PROVE RestTypes'
  BY <1>3 DEF Tick, TypeOK, RestTypes
<1>4. ASSUME NEW w \in Workers, ClaimReview(w) PROVE RestTypes'
  BY <1>4 DEF ClaimReview, TypeOK, RestTypes
<1>5. ASSUME NEW w \in Workers, Preflight(w) PROVE RestTypes'
  BY <1>5 DEF Preflight, TypeOK, RestTypes
<1>6. ASSUME NEW w \in Workers, BeginExecution(w) PROVE RestTypes'
  BY <1>6 DEF BeginExecution, TypeOK, RestTypes
<1>7. ASSUME NEW w \in Workers, BindAndSend(w) PROVE RestTypes'
  BY <1>7 DEF BindAndSend, TypeOK, RestTypes
<1>8. ASSUME NEW w \in Workers, Await(w) PROVE RestTypes'
  BY <1>8 DEF Await, TypeOK, RestTypes
<1>9. ASSUME NEW w \in Workers, SaveReview(w) PROVE RestTypes'
  <2>1. Attempt(w) \in Calls
    BY <1>9, AttemptIsCall DEF SaveReview, At
  <2> QED
    BY <1>9, <2>1 DEF SaveReview, TypeOK, RestTypes
<1>10. ASSUME NEW w \in Workers, Conclude(w) PROVE RestTypes'
  BY <1>10 DEF Conclude, TypeOK, RestTypes
<1>11. ASSUME NEW w \in Workers, Crash(w) PROVE RestTypes'
  BY <1>11 DEF Crash, TypeOK, RestTypes
<1>12. ASSUME NEW a \in Calls, GatewayCompletes(a) PROVE RestTypes'
  BY <1>12 DEF GatewayCompletes, TypeOK, RestTypes
<1>13. ASSUME CloseRun PROVE RestTypes'
  BY <1>13 DEF CloseRun, TypeOK, RestTypes
<1>14. CASE UNCHANGED vars
  BY <1>14 DEF vars, TypeOK, RestTypes
<1> QED
  BY <1>1, <1>2, <1>3, <1>4, <1>5, <1>6, <1>7, <1>8, <1>9, <1>10, <1>11, <1>12,
     <1>13, <1>14 DEF Next, WorkerStep

\* Every step keeps the types.
LEMMA TypeStep ==
  ASSUME TypeOK, WorkerInv, DueIsBound, [Next]_vars
  PROVE  TypeOK'
<1>1. state' \in [Requests -> States] /\ worker' \in [Workers -> WorkerType]
  BY StateStep, WorkerMovesStep DEF StateMoves, WorkerMoves
<1>2. /\ exec' \in [Requests -> Seq(Row)]
      /\ call' \in [Calls -> {"none", "sent", "completed"}]
  BY ExecStep DEF ExecMoves, Swept, Ended, Begins, Binds, TypeOK
<1>3. fresh' \subseteq Calls /\ rotation' \in Seq(Calls)
  BY SwathStep DEF DueIsBound, SwathMoves
<1>4. RestTypes'
  BY RestTyped
<1> QED
  BY <1>1, <1>2, <1>3, <1>4 DEF TypeOK, RestTypes, States, WorkerType, Row

\* The invariant is inductive.
LEMMA NextIInv == IInv /\ [Next]_vars => IInv'
BY TypeStep, WorkerInvStep, HolderInvStep, QueuedInvStep, RetiredInvStep,
   OutstandingStep,
   ReplayStep, SettledStep, DueStep DEF IInv

LEMMA Invariance == Spec => []IInv
BY InitIInv, NextIInv, PTL DEF Spec

-----------------------------------------------------------------------------
(* Results *)

\* The rows of requests and executions, and the workers, keep their types.
THEOREM TypeCorrect == Spec => []TypeOK
<1>1. IInv => TypeOK
  BY DEF IInv
<1> QED
  BY <1>1, Invariance, PTL

\* claimReview: however workers crash and leases run out, no request begins more
\* model calls than it has roles.
THEOREM SpendIsBounded == Spec => []NeverReplayed
<1>1. IInv => NeverReplayed
  BY DEF IInv
<1> QED
  BY <1>1, Invariance, PTL

\* ReviewWorker.execute: a request reported as succeeded or failed has no call left
\* upstream.
THEOREM SettledHasEnded == Spec => []SettledIsTerminated
<1>1. IInv => SettledIsTerminated
  BY DEF IInv
<1> QED
  BY <1>1, Invariance, PTL

\* takeReviewExecutions: the sweep has before it the calls that are bound and not
\* retired, and no others.
THEOREM SweepSeesBound == Spec => []DueIsBound
<1>1. IInv => DueIsBound
  BY DEF IInv
<1> QED
  BY <1>1, Invariance, PTL

\* claimReview's count: the calls that may run upstream belong to no more requests
\* than the organization is allowed.
THEOREM AdmissionIsHeld == Spec => []AdmissionHolds
<1>1. IInv => AdmissionHolds
  <2> SUFFICES ASSUME IInv PROVE AdmissionHolds
    OBVIOUS
  <2> DEFINE Sent == {q \in Requests : \E n \in DOMAIN exec[q] : call[<<q, n>>] = "sent"}
             Out == Outstanding(state)
  <2>1. Sent \subseteq Out
    BY DEF IInv, RetiredInv, Outstanding, Unretired
  <2>2. IsFiniteSet(Out) /\ Cardinality(Out) <= MaxConcurrent
    BY DEF IInv, OutstandingInv
  <2> HIDE DEF Sent, Out
  <2>3. Cardinality(Sent) <= MaxConcurrent
    BY <2>1, <2>2, FS_Subset, FS_CardinalityType
  <2> QED
    BY <2>3 DEF Sent, AdmissionHolds
<1> QED
  BY <1>1, Invariance, PTL
=============================================================================
