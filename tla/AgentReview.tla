---------------------------- MODULE AgentReview ----------------------------
(***************************************************************************)
(* Independent agent review (internal/reviews: review_requests.go,         *)
(* review_worker.go, review_execution.go, execution_gateway.go).  A person *)
(* asks for the review of one pair of revisions; a worker of some replica  *)
(* claims the request under a lease and makes one model call per role      *)
(* through the managed execution gateway, which may answer, lose the       *)
(* request, or never finish.  Every call is an obligation: it holds a unit *)
(* of the organization's concurrency until the gateway shows a durable     *)
(* receipt that the call ended.                                            *)
(***************************************************************************)
EXTENDS Naturals, Sequences, FiniteSets, SequencesExt

CONSTANTS
  Requests,       \* review requests, one per pair of revisions, 1..N as they are made
  Workers,        \* review workers
  Roles,          \* model calls a request makes
  MaxConcurrent,  \* ReviewConfig.MaxConcurrentRequests
  MaxCalls,       \* bound on the attempts of one request, above Roles
  MaxCrashes,     \* bound on worker crashes
  None

ASSUME ReviewAssumption ==
  /\ Roles \in Nat \ {0} /\ MaxConcurrent \in Nat \ {0}
  /\ MaxCalls \in Nat /\ MaxCalls >= Roles /\ MaxCrashes \in Nat
  /\ Requests \subseteq Nat /\ None \notin Requests

VARIABLES
  state,     \* agent_review_requests.state
  expired,   \* has the lease of a claimed request run out?
  exec,      \* review_executions of a request, in the order they were begun
  call,      \* external: what became of the call at the gateway
  fresh,     \* bound executions whose receipt was never looked up
  rotation,  \* the others, least recently looked up first
  verdicts,  \* attempts whose verdict is a row of run_reviews
  runOpen,   \* is the run open?
  worker, crashes

vars == <<state, expired, exec, call, fresh, rotation, verdicts, runOpen, worker,
          crashes>>

Calls == Requests \X (1..MaxCalls)
Idle == [pc |-> "idle", q |-> None, roles |-> 0]

Init ==
  /\ state = [q \in Requests |-> "none"]
  /\ expired = [q \in Requests |-> FALSE]
  /\ exec = [q \in Requests |-> <<>>]
  /\ call = [a \in Calls |-> "none"]
  /\ fresh = {}
  /\ rotation = <<>>
  /\ verdicts = {}
  /\ runOpen = TRUE
  /\ worker = [w \in Workers |-> Idle]
  /\ crashes = 0

At(w, pc) == worker[w].pc = pc
GoTo(w, pc) == worker' = [worker EXCEPT ![w].pc = pc]
Stop(w) == worker' = [worker EXCEPT ![w] = Idle]

\* The attempt a worker is making: the last one its request has begun.
Attempt(w) == <<worker[w].q, Len(exec[worker[w].q])>>

Unretired(q) == \E n \in DOMAIN exec[q] : exec[q][n] # "retired"

(***************************************************************************)
(* The request and its lease.                                              *)
(***************************************************************************)
\* RequestAgentReview: a second request for the same pair changes nothing.
RequestAgentReview(q) ==
  /\ runOpen
  /\ state[q] = "none"
  /\ \A p \in Requests : p < q => state[p] # "none"
  /\ state' = [state EXCEPT ![q] = "queued"]
  /\ UNCHANGED <<expired, exec, call, fresh, rotation, verdicts, runOpen, worker,
                 crashes>>

\* Mutant: an expired request is queued again.
ExpireToQueued ==
  [q \in Requests |-> IF state[q] = "running" /\ expired[q] THEN "queued"
                      ELSE state[q]]

\* "Lease expiry is uncertainty, NOT proof another process died."
ExpireLeases ==
  [q \in Requests |-> IF state[q] = "running" /\ expired[q] THEN "uncertain"
                      ELSE state[q]]

\* Mutant: an execution without a running request is not counted.
Running(st) == {q \in Requests : st[q] = "running"}

Outstanding(st) == {q \in Requests : st[q] = "running" \/ Unretired(q)}

\* claimReview: expire, count and claim the oldest request under the
\* organization's lock.
ClaimReview(w) ==
  /\ At(w, "claim")
  /\ \/ /\ Cardinality(Outstanding(ExpireLeases)) >= MaxConcurrent
        /\ state' = ExpireLeases
        /\ Stop(w)
     \/ /\ Cardinality(Outstanding(ExpireLeases)) < MaxConcurrent
        /\ \A q \in Requests : ExpireLeases[q] # "queued"
        /\ state' = ExpireLeases
        /\ Stop(w)
     \/ /\ Cardinality(Outstanding(ExpireLeases)) < MaxConcurrent
        /\ \E q \in Requests :
             /\ ExpireLeases[q] = "queued"
             /\ \A p \in Requests : ExpireLeases[p] = "queued" => q <= p
             /\ state' = [ExpireLeases EXCEPT ![q] = "running"]
             /\ worker' = [worker EXCEPT ![w] = [Idle EXCEPT !.pc = "begin", !.q = q]]
  /\ expired' = [q \in Requests |-> expired[q] /\ ExpireLeases[q] = "running"]
  /\ UNCHANGED <<exec, call, fresh, rotation, verdicts, runOpen, crashes>>

\* Does the worker still hold the request it claimed?
Current(q) == state[q] = "running" /\ ~expired[q]

\* finish: the last write of a request, refused once the lease is lost.
Finish(w, st) ==
  /\ state' = IF Current(worker[w].q) THEN [state EXCEPT ![worker[w].q] = st]
              ELSE state
  /\ Stop(w)

\* The revisions moved, the diff is too large, no reviewer is enabled or the
\* time is up: no model is invoked.
Preflight(w) ==
  /\ At(w, "begin")
  /\ Finish(w, "failed")
  /\ UNCHANGED <<expired, exec, call, fresh, rotation, verdicts, runOpen, crashes>>

\* Mutant: a call that failed fails its request, like one that ended.
OutcomeFailed == "failed"

\* "model termination unconfirmed; admission held, no automatic replay"
OutcomeUnknown == "uncertain"

(***************************************************************************)
(* One model call.                                                         *)
(***************************************************************************)
\* beginReviewExecution persists the obligation before anything is sent.  The
\* worker may not learn that its transaction was committed.
BeginExecution(w) ==
  /\ At(w, "begin")
  /\ LET q == worker[w].q
     IN  \/ /\ Current(q)
            /\ Len(exec[q]) < MaxCalls
            /\ exec' = [exec EXCEPT ![q] = Append(@, "begun")]
            /\ (GoTo(w, "bind") \/ Stop(w))
         \/ ~Current(q) /\ Stop(w) /\ UNCHANGED exec
  /\ UNCHANGED <<state, expired, call, fresh, rotation, verdicts, runOpen, crashes>>

\* RoundTrip binds the execution to this gateway and this request body, and
\* only then sends.  A request lost on the way leaves the binding behind; a
\* binding that fails leaves an execution no receipt can ever retire.
BindAndSend(w) ==
  /\ At(w, "bind")
  /\ LET a == Attempt(w)
     IN  \/ /\ Current(a[1])
            /\ exec' = [exec EXCEPT ![a[1]][a[2]] = "bound"]
            /\ fresh' = fresh \cup {a}
            /\ call' = [call EXCEPT ![a] = "sent"]
            /\ GoTo(w, "await")
            /\ UNCHANGED state
         \/ /\ Finish(w, OutcomeUnknown)
            /\ UNCHANGED <<exec, fresh, call>>
  /\ UNCHANGED <<expired, rotation, verdicts, runOpen, crashes>>

\* external: the gateway ends a call it was sent, late or never.
GatewayCompletes(a) ==
  /\ call[a] = "sent"
  /\ call' = [call EXCEPT ![a] = "completed"]
  /\ UNCHANGED <<state, expired, exec, fresh, rotation, verdicts, runOpen, worker,
                 crashes>>

\* executionReceipt.validate: terminal, for this execution and this body.
Receipt(a) == call[a] = "completed"

\* The order of look-ups without one execution, which occurs in it at most once.
Without(s, a) ==
  IF \E i \in DOMAIN s : s[i] = a
  THEN RemoveAt(s, CHOOSE i \in DOMAIN s : s[i] = a) ELSE s

\* confirmReviewReceipt retires the obligation, once.
Retire(a) ==
  /\ exec' = [exec EXCEPT ![a[1]][a[2]] = "retired"]
  /\ fresh' = fresh \ {a}
  /\ rotation' = Without(rotation, a)

\* The worker's own call: the answer and its receipt, or an error that leaves
\* the outcome unknown.
Await(w) ==
  /\ At(w, "await")
  /\ LET a == Attempt(w)
     IN  \/ /\ Receipt(a)
            /\ IF exec[a[1]][a[2]] = "retired"
               THEN UNCHANGED <<exec, fresh, rotation>> ELSE Retire(a)
            /\ GoTo(w, "answer")
            /\ UNCHANGED state
         \/ /\ Finish(w, OutcomeUnknown)
            /\ UNCHANGED <<exec, fresh, rotation>>
  /\ UNCHANGED <<expired, call, verdicts, runOpen, crashes>>

\* saveReview: the attempt and its verdict in one transaction, under the lease
\* and only while the run is open.
MaySave(q) == Current(q) /\ runOpen

\* The answer decides; a verdict that cannot be read, or a reviewer no longer
\* enabled, fails the request although the call has ended.
SaveReview(w) ==
  /\ At(w, "answer")
  /\ LET q == worker[w].q
         done == worker[w].roles + 1
     IN  \/ /\ MaySave(q)
            /\ verdicts' = verdicts \cup {Attempt(w)}
            /\ worker' = [worker EXCEPT ![w].roles = done,
                            ![w].pc = IF done < Roles THEN "begin" ELSE "succeed"]
            /\ UNCHANGED state
         \/ ~MaySave(q) /\ Stop(w) /\ UNCHANGED <<state, verdicts>>
         \/ Finish(w, "failed") /\ UNCHANGED verdicts
  /\ UNCHANGED <<expired, exec, call, fresh, rotation, runOpen, crashes>>

Conclude(w) ==
  /\ At(w, "succeed")
  /\ Finish(w, "succeeded")
  /\ UNCHANGED <<expired, exec, call, fresh, rotation, verdicts, runOpen, crashes>>

(***************************************************************************)
(* The sweep over obligations, before every claim.                         *)
(***************************************************************************)
\* Mutant: the first bound execution is looked up again and again.
RotateNot(a) == <<a>> \o Without(rotation, a)

\* takeReviewExecutions persists that it looked before it looks (at one
\* execution here, at no more than four in the code).
Rotate(a) == Append(Without(rotation, a), a)

\* ORDER BY last_checked_at NULLS FIRST
Due == IF fresh # {} THEN fresh ELSE {rotation[i] : i \in DOMAIN rotation \cap {1}}

\* reconcileOne: a readable receipt retires its execution.
ReconcileOne(a) ==
  IF Receipt(a) THEN Retire(a)
  ELSE rotation' = Rotate(a) /\ fresh' = fresh \ {a} /\ UNCHANGED exec

\* Tick: the sweep, then the claim.
Tick(w) ==
  /\ At(w, "idle")
  /\ \/ Due = {} /\ UNCHANGED <<exec, fresh, rotation>>
     \/ \E a \in Due : ReconcileOne(a)
  /\ GoTo(w, "claim")
  /\ UNCHANGED <<state, expired, call, verdicts, runOpen, crashes>>

(***************************************************************************)
(* Time, crashes and the run.                                              *)
(***************************************************************************)
LeaseRunsOut(q) ==
  /\ state[q] = "running"
  /\ ~expired[q]
  /\ expired' = [expired EXCEPT ![q] = TRUE]
  /\ UNCHANGED <<state, exec, call, fresh, rotation, verdicts, runOpen, worker,
                 crashes>>

Crash(w) ==
  /\ crashes < MaxCrashes
  /\ worker[w] # Idle
  /\ crashes' = crashes + 1
  /\ Stop(w)
  /\ UNCHANGED <<state, expired, exec, call, fresh, rotation, verdicts, runOpen>>

CloseRun ==
  /\ runOpen
  /\ runOpen' = FALSE
  /\ UNCHANGED <<state, expired, exec, call, fresh, rotation, verdicts, worker,
                 crashes>>

WorkerStep(w) ==
  \/ Tick(w) \/ ClaimReview(w) \/ Preflight(w)
  \/ BeginExecution(w) \/ BindAndSend(w) \/ Await(w) \/ SaveReview(w) \/ Conclude(w)

Next ==
  \/ \E q \in Requests : RequestAgentReview(q) \/ LeaseRunsOut(q)
  \/ \E w \in Workers : WorkerStep(w) \/ Crash(w)
  \/ \E a \in Calls : GatewayCompletes(a)
  \/ CloseRun

Spec == Init /\ [][Next]_vars

\* A worker keeps ticking and its calls end (they have deadlines); a lease runs
\* out.  Nothing obliges the gateway to finish a call.
Fairness ==
  /\ \A w \in Workers : WF_vars(WorkerStep(w))
  /\ \A q \in Requests : WF_vars(LeaseRunsOut(q))

FairSpec == Spec /\ Fairness

(***************************************************************************)
(* Properties.                                                             *)
(***************************************************************************)
\* Every variable keeps its shape.
TypeOK ==
  /\ state \in [Requests -> {"none", "queued", "running", "succeeded", "failed",
                             "uncertain"}]
  /\ expired \in [Requests -> BOOLEAN]
  /\ exec \in [Requests -> Seq({"begun", "bound", "retired"})]
  /\ call \in [Calls -> {"none", "sent", "completed"}]
  /\ fresh \subseteq Calls
  /\ rotation \in Seq(Calls)
  /\ verdicts \subseteq Calls
  /\ runOpen \in BOOLEAN
  /\ worker \in [Workers ->
       [pc : {"idle", "claim", "begin", "bind", "await", "answer", "succeed"},
        q : Requests \cup {None}, roles : 0..Roles]]
  /\ crashes \in 0..MaxCrashes

\* The sweep has before it exactly the calls that were bound and not yet
\* retired, each at one place of its order (review_executions, by state and
\* last_checked_at).
DueIsBound ==
  /\ IsInjective(rotation)
  /\ \A a \in Calls : a \in fresh \cup Range(rotation) <=>
       a[2] \in DOMAIN exec[a[1]] /\ exec[a[1]][a[2]] = "bound"

\* However workers crash, leases run out and answers are lost, the calls that
\* may still be running upstream belong to no more requests than the
\* organization is allowed (claimReview's count over requests and executions).
AdmissionHolds ==
  Cardinality({q \in Requests :
    \E n \in DOMAIN exec[q] : call[<<q, n>>] = "sent"}) <= MaxConcurrent

\* No expiry, crash or second worker repeats model spend: a request begins no
\* more calls than it has roles (claimReview never re-queues).
NeverReplayed == \A q \in Requests : Len(exec[q]) <= Roles

\* A request reported as succeeded or failed has no call left upstream; one
\* whose calls may still run is reported as uncertain (ReviewWorker.execute).
SettledIsTerminated ==
  \A q \in Requests : state[q] \in {"succeeded", "failed"} => ~Unretired(q)

\* A receipt is found for every call that ended, even while others never end
\* (takeReviewExecutions rotates the order in which it looks).
ReceiptsAreFound ==
  \A q \in Requests :
    (\A n \in DOMAIN exec[q] : call[<<q, n>>] = "completed") ~> ~Unretired(q)
=============================================================================
