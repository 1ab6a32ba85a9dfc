----------------------------- MODULE Deployment -----------------------------
(***************************************************************************)
(* Approved deployments to one destination (internal/deployment): the      *)
(* request, its attempts, the destination lock, the credential journal,    *)
(* the Kubernetes Secret that carries a credential, the Helm Job and the   *)
(* release it changes, the cleanup janitor and the success outbox.         *)
(*                                                                         *)
(* A worker is one call of Execute, Retry, Reconcile or CleanupCredentials *)
(* in some replica.  The lock is a PostgreSQL session lock: when the       *)
(* session dies the lock is free again, but the call that held it goes on, *)
(* and only its writes THROUGH that session fail.  Writes of the           *)
(* materialization row, the issuer and Kubernetes do not go through it.    *)
(*                                                                         *)
(* Expiry of authority is a nondeterministic refusal (Uncovered); identity *)
(* checks (organization, actor, target revision, the bound text of an      *)
(* approval) only refuse a call before it changes anything.                *)
(***************************************************************************)
EXTENDS Naturals, Sequences, FiniteSets

CONSTANTS
    Ops,          \* operations on the destination, numbered by created_at
    Workers,      \* concurrent calls, over all replicas
    None,         \* the lock is free
    MaxAttempts,  \* bound: attempts of all operations together
    MaxFaults     \* bound: crashes, lost sessions, lost replies, kills

ASSUME DeploymentAssumption ==
    /\ Ops \subseteq Nat \ {0}
    /\ IsFiniteSet(Ops)
    /\ None \notin Workers
    /\ MaxAttempts \in Nat
    /\ MaxFaults \in Nat

Nums == 1 .. MaxAttempts
Attempts == Ops \X Nums

VARIABLES
    op,        \* deployment.operations.state
    approved,  \* the operation's approval request is decided 'approved'
    att,       \* deployment.attempts, per operation, in order of number
    obl,       \* deployment.credential_obligations, parallel to att
    mat,       \* deployment.materializations
    fence,     \* the issuer's fence of the attempt is closed
    lease,     \* the issuer's credential for the attempt
    secret,    \* the Kubernetes Secret of the attempt
    job,       \* the Kubernetes Job of the attempt and its Pod
    history,   \* revisions of the Helm release, newest last
    outbox,    \* deployment.success_outbox
    lock,      \* owner of the destination's advisory lock
    worker,    \* the calls in progress
    faults

dbVars == <<op, approved, att, obl>>
credVars == <<mat, fence, lease, secret>>
clusterVars == <<job, history>>
vars == <<dbVars, credVars, clusterVars, outbox, lock, worker, faults>>

-----------------------------------------------------------------------------
(* Shapes *)

OpStates == {"none", "pending", "running", "succeeded", "failed", "uncertain"}
Kinds == {"execute", "observe", "recover"}
RowPhases == {"none", "intent", "creating", "materialized", "absent"}
Steps == {"idle", "sweep", "judge", "passive", "prepare", "reserve", "issue",
          "creating", "create", "record", "dispatch", "submit", "watch", "close",
          "issuer", "remove", "resolve", "finish"}

\* A row of each table, a Job, a revision of the release, and a call in progress
AttemptRows == [kind : Kinds, state : OpStates \ {"none", "pending"}, ext : BOOLEAN]
Obligations == [phase : {"none", "preparing", "dispatching"}, resolved : BOOLEAN]
Materializations == [phase : RowPhases, closed : BOOLEAN, uid : BOOLEAN]
Jobs == [st : {"none", "inflight", "active", "upgrading", "done"}, terminal : BOOLEAN,
         evidence : {"none", "succeeded", "failed", "partial"}]
Revisions == [by : Attempts, status : {"pending", "deployed", "failed"}]
Calls == [pc : Steps, op : Ops \cup {0}, num : 0 .. MaxAttempts, tgt : 0 .. MaxAttempts,
          res : {"none", "succeeded", "failed", "uncertain"}, ext : BOOLEAN,
          row : Materializations, issuer : BOOLEAN, seen : Seq(Obligations)]

NoRow == [phase |-> "none", closed |-> FALSE, uid |-> FALSE]
NoJob == [st |-> "none", terminal |-> FALSE, evidence |-> "none"]
NoObligation == [phase |-> "none", resolved |-> TRUE]
Idle == [pc |-> "idle", op |-> 0, num |-> 0, tgt |-> 0, res |-> "none",
         ext |-> FALSE, row |-> NoRow, issuer |-> FALSE, seen |-> <<>>]

DbTypes ==
    /\ op \in [Ops -> OpStates]
    /\ approved \in [Ops -> BOOLEAN]
    /\ att \in [Ops -> Seq(AttemptRows)]
    /\ obl \in [Ops -> Seq(Obligations)]
    /\ \A o \in Ops : Len(att[o]) <= MaxAttempts /\ Len(obl[o]) = Len(att[o])

CredentialTypes ==
    /\ mat \in [Attempts -> Materializations]
    /\ fence \in [Attempts -> BOOLEAN]
    /\ lease \in [Attempts -> {"none", "reserved", "live", "unknown", "revoked"}]
    /\ secret \in [Attempts -> {"none", "inflight", "present", "deleted", "foreign"}]

ClusterTypes ==
    /\ job \in [Attempts -> Jobs]
    /\ history \in Seq(Revisions)
    /\ outbox \in [Attempts -> {"none", "pending", "published"}]

CallTypes ==
    /\ lock \in Workers \cup {None}
    /\ worker \in [Workers -> Calls]
    /\ faults \in 0 .. MaxFaults

\* Every variable keeps its shape: every attempt has its obligation, and only the
\* states of types.go are ever stored.
TypeOK == DbTypes /\ CredentialTypes /\ ClusterTypes /\ CallTypes

Init ==
    /\ op = [o \in Ops |-> "none"]
    /\ approved = [o \in Ops |-> FALSE]
    /\ att = [o \in Ops |-> <<>>]
    /\ obl = [o \in Ops |-> <<>>]
    /\ mat = [a \in Attempts |-> NoRow]
    /\ fence = [a \in Attempts |-> FALSE]
    /\ lease = [a \in Attempts |-> "none"]
    /\ secret = [a \in Attempts |-> "none"]
    /\ job = [a \in Attempts |-> NoJob]
    /\ history = <<>>
    /\ outbox = [a \in Attempts |-> "none"]
    /\ lock = None
    /\ worker = [w \in Workers |-> Idle]
    /\ faults = 0

-----------------------------------------------------------------------------
(* What the code reads off an operation *)

\* credentialJournal.pending
PendingCredentials(o) == \E n \in 1 .. Len(obl[o]) : ~obl[o][n].resolved

\* latestDelivery over the attempts up to number n (0 when there is none)
LatestDelivery(o, n) ==
    LET D == {m \in 1 .. n : att[o][m].kind = "execute"}
    IN  IF D = {} THEN 0 ELSE CHOOSE m \in D : \A k \in D : k <= m

\* previousDeliveryBinding of attempt n: the delivery that the newest earlier
\* attempt with an external id speaks of, when it is another delivery
PreviousDelivery(o, n) ==
    LET E == {m \in 1 .. n - 1 : /\ att[o][m].ext
                                 /\ LatestDelivery(o, m) # LatestDelivery(o, n)}
    IN  IF E = {} THEN 0
        ELSE LatestDelivery(o, CHOOSE m \in E : \A k \in E : k <= m)

\* Mutant of Blocked: an operation whose outcome is unknown blocks nobody.
BlockedByNewer(o) == \E p \in Ops \ {o} : p > o /\ op[p] \notin {"none", "pending"}

\* Mutant of Blocked: the order of requests is not compared.
BlockedByUnknown(o) ==
    \E p \in Ops \ {o} : op[p] \in {"running", "uncertain"} \/ PendingCredentials(p)

\* start's check against the other operations of the destination
Blocked(o) ==
    \E p \in Ops \ {o} :
        \/ op[p] \in {"running", "uncertain"}
        \/ PendingCredentials(p)
        \/ p > o /\ op[p] \notin {"none", "pending"}

JobFound(a) == job[a].st \notin {"none", "inflight"}

\* a terminal Job condition and, in terminalPod, an executor Pod that ended
PodEnded(a) == job[a].terminal /\ job[a].st = "done"

\* preparationStopped, over the obligations this call has read
PreparationStopped(o, n, seen) ==
    LET d == LatestDelivery(o, n)
    IN  /\ d > 0
        /\ seen[d].phase = "preparing"
        /\ seen[d].resolved
        /\ ~JobFound(<<o, d>>)

TotalAttempts ==
    LET Used == {a \in Attempts : a[2] <= Len(att[a[1]])} IN Cardinality(Used)

Own(w) == <<worker[w].op, worker[w].num>>
Target(w) == <<worker[w].op, worker[w].tgt>>

\* the call revokes the credential of its own attempt
RevokesOwn(w) == worker[w].num = worker[w].tgt

-----------------------------------------------------------------------------
(* Requests and approvals *)

\* Service.Request: insert, then EnsureDeployment.  A request whose approval
\* was not raised is, to everything else, one that is not approved yet.
Request(o) ==
    /\ op[o] = "none"
    /\ \A p \in Ops : p < o => op[p] # "none"
    /\ op' = [op EXCEPT ![o] = "pending"]
    /\ UNCHANGED <<approved, att, obl, credVars, clusterVars, outbox, lock, worker,
                   faults>>

\* approvals.Store.Resolve by an administrator who is not the author.  A denial
\* leaves the operation as it is: never approved.
Approve(o) ==
    /\ op[o] # "none"
    /\ ~approved[o]
    /\ approved' = [approved EXCEPT ![o] = TRUE]
    /\ UNCHANGED <<op, att, obl, credVars, clusterVars, outbox, lock, worker, faults>>

\* Service.execute up to and including start: take the lock, re-read the
\* operation and its approval, and in one transaction on the lock's session
\* mark the operation running, number the attempt and register its obligation.
\* journal.require, the first step of the executor, reads what start wrote
\* through the same session.
Begin(w, o, kind) ==
    /\ worker[w] = Idle
    /\ lock = None
    /\ approved[o]
    /\ TotalAttempts < MaxAttempts
    /\ IF kind = "execute"
       THEN op[o] \in {"pending", "failed"} /\ ~PendingCredentials(o)
       ELSE op[o] \in {"running", "uncertain"}
    /\ ~Blocked(o)
    /\ LET interrupted == [n \in 1 .. Len(att[o]) |->
                              IF kind # "execute" /\ att[o][n].state = "running"
                              THEN [att[o][n] EXCEPT !.state = "uncertain"]
                              ELSE att[o][n]]
           n == Len(att[o]) + 1
           obligation == IF kind = "recover" THEN NoObligation
                         ELSE [phase |-> "preparing", resolved |-> FALSE]
       IN  /\ att' = [att EXCEPT ![o] = Append(interrupted,
                          [kind |-> kind, state |-> "running", ext |-> FALSE])]
           /\ obl' = [obl EXCEPT ![o] = Append(obl[o], obligation)]
           /\ worker' = [worker EXCEPT ![w] =
                  [Idle EXCEPT !.op = o, !.num = n, !.seen = obl'[o],
                               !.pc = CASE kind = "execute" -> "prepare"
                                        [] kind = "observe" -> "sweep"
                                        [] kind = "recover" -> "passive"]]
    /\ op' = [op EXCEPT ![o] = "running"]
    /\ lock' = w
    /\ UNCHANGED <<approved, credVars, clusterVars, outbox, faults>>

\* CleanupCredentials, called by CleanupPending for an obligation that
\* claimCleanup found: the lock, then cleanupCredential.
Janitor(w, o, n) ==
    /\ worker[w] = Idle
    /\ lock = None
    /\ n <= Len(obl[o])
    /\ ~obl[o][n].resolved
    /\ worker' = [worker EXCEPT ![w] =
                     [Idle EXCEPT !.op = o, !.tgt = n, !.seen = obl[o], !.pc = "judge"]]
    /\ lock' = w
    /\ UNCHANGED <<dbVars, credVars, clusterVars, outbox, faults>>

-----------------------------------------------------------------------------
(* Cleaning up earlier attempts *)

\* Leave the call: its deferred unlock closes the session.
Leave(w) ==
    /\ worker' = [worker EXCEPT ![w] = Idle]
    /\ lock' = IF lock = w THEN None ELSE lock

\* The next earlier obligation that Observe found unresolved, 0 when none is left
NextObligation(w) ==
    LET S == {m \in 1 .. worker[w].num - 1 :
                 m > worker[w].tgt /\ ~worker[w].seen[m].resolved}
    IN  IF S = {} THEN 0 ELSE CHOOSE m \in S : \A k \in S : m <= k

\* HelmExecutor.Observe: cleanupCredential for each earlier obligation, then
\* preparationStopped, which needs no credential, or run.
Sweep(w) ==
    /\ worker[w].pc = "sweep"
    /\ LET m == NextObligation(w)
           stopped == PreparationStopped(worker[w].op, worker[w].num, worker[w].seen)
       IN  worker' = [worker EXCEPT ![w] =
               IF m > 0 THEN [@ EXCEPT !.pc = "judge", !.tgt = m]
               ELSE IF stopped
               THEN [@ EXCEPT !.pc = "close", !.tgt = worker[w].num, !.res = "failed"]
               ELSE [@ EXCEPT !.pc = "prepare"]]
    /\ UNCHANGED <<dbVars, credVars, clusterVars, outbox, lock, faults>>

\* Mutant of Revocable: what was dispatched is left to its own call.
RevocableUndispatched(w) ==
    ~JobFound(Target(w)) /\ worker[w].seen[worker[w].tgt].phase = "preparing"

\* cleanupCredential's evidence: nothing was dispatched, or the Job and its Pod
\* ended.  Anything else leaves the obligation open.
Revocable(w) ==
    IF JobFound(Target(w)) THEN PodEnded(Target(w))
    ELSE worker[w].seen[worker[w].tgt].phase = "preparing"

\* cleanupCredential.  A Job that is found supersedes the preparing mark, which
\* is a write through the lock's session and must succeed.
Judge(w) ==
    /\ worker[w].pc = "judge"
    /\ LET a == Target(w)
           o == a[1]
           n == a[2]
           marks == lock = w /\ ~obl[o][n].resolved
           revoke == Revocable(w) /\ (JobFound(a) => marks)
       IN  /\ obl' = IF JobFound(a) /\ marks
                     THEN [obl EXCEPT ![o][n].phase = "dispatching"] ELSE obl
           /\ \/ /\ revoke
                 /\ worker' = [worker EXCEPT ![w].pc = "close"]
                 /\ UNCHANGED lock
              \/ /\ ~revoke
                 /\ worker[w].num > 0
                 /\ worker' = [worker EXCEPT ![w].pc = "sweep"]
                 /\ UNCHANGED lock
              \/ /\ ~revoke
                 /\ worker[w].num = 0
                 /\ Leave(w)
    /\ UNCHANGED <<op, approved, att, credVars, clusterVars, outbox, faults>>

-----------------------------------------------------------------------------
(* A credential of its own: Prepare *)

\* The outcome of a call that stops before a Job exists and must first revoke.
\* Observe turns every error that is no delivery failure into uncertain.
Compensate(w, res) ==
    worker' = [worker EXCEPT ![w] =
        [@ EXCEPT !.pc = "close", !.tgt = worker[w].num,
                  !.res = IF att[worker[w].op][worker[w].num].kind = "observe"
                          THEN "uncertain" ELSE res]]

GoTo(w, pc) == worker' = [worker EXCEPT ![w].pc = pc]

\* The authority does not cover the execution window.
Uncovered(w) ==
    /\ worker[w].pc = "prepare"
    /\ Compensate(w, "failed")
    /\ UNCHANGED <<dbVars, credVars, clusterVars, outbox, lock, faults>>

\* SecretMaterializer.intent: a row of this attempt that a janitor has already
\* closed refuses the credential.  The attempt is new, so the row is in phase
\* intent or it is closed: Prepare never meets an open row of a later phase.
Prepare(w) ==
    /\ worker[w].pc = "prepare"
    /\ LET a == Own(w) IN
        \/ /\ mat[a].closed
           /\ Compensate(w, "uncertain")
           /\ UNCHANGED mat
        \/ /\ ~mat[a].closed
           /\ mat' = [mat EXCEPT ![a] = [NoRow EXCEPT !.phase = "intent"]]
           /\ GoTo(w, "reserve")
    /\ UNCHANGED <<dbVars, fence, lease, secret, clusterVars, outbox, lock, faults>>

\* PrepareDeployment, external here (secrets): deploymentIntent and the
\* reservation are refused once the attempt is fenced.
Reserve(w) ==
    /\ worker[w].pc = "reserve"
    /\ LET a == Own(w) IN
        \/ /\ fence[a]
           /\ Compensate(w, "failed")
           /\ UNCHANGED lease
        \/ /\ ~fence[a]
           /\ lease' = [lease EXCEPT ![a] = "reserved"]
           /\ GoTo(w, "issue")
    /\ UNCHANGED <<dbVars, mat, fence, secret, clusterVars, outbox, lock, faults>>

\* The issuer answers.  A fence closed meanwhile makes the broker revoke what
\* it just got; a lost answer leaves a credential nobody can name.
Issue(w) ==
    /\ worker[w].pc = "issue"
    /\ LET a == Own(w) IN
        \/ /\ fence[a]
           /\ lease' = [lease EXCEPT ![a] = "revoked"]
           /\ Compensate(w, "failed")
           /\ UNCHANGED faults
        \/ /\ ~fence[a]
           /\ lease' = [lease EXCEPT ![a] = "live"]
           /\ GoTo(w, "creating")
           /\ UNCHANGED faults
        \/ /\ faults < MaxFaults
           /\ faults' = faults + 1
           /\ lease' = [lease EXCEPT ![a] = "unknown"]
           /\ Compensate(w, "failed")
    /\ UNCHANGED <<dbVars, mat, fence, secret, clusterVars, outbox, lock>>

\* The CAS intent -> creating that only an open row lets through.
MarkCreating(w) ==
    /\ worker[w].pc = "creating"
    /\ LET a == Own(w) IN
        \/ /\ mat[a].closed
           /\ Compensate(w, "uncertain")
           /\ UNCHANGED mat
        \/ /\ ~mat[a].closed
           /\ mat' = [mat EXCEPT ![a].phase = "creating"]
           /\ GoTo(w, "create")
    /\ UNCHANGED <<dbVars, fence, lease, secret, clusterVars, outbox, lock, faults>>

\* Create the Secret: done; a Secret of that name is already there; or the
\* reply is lost and the request may still commit.
CreateSecret(w) ==
    /\ worker[w].pc = "create"
    /\ LET a == Own(w) IN
        \/ /\ secret' = [secret EXCEPT ![a] = "present"]
           /\ GoTo(w, "record")
           /\ UNCHANGED <<mat, faults>>
        \/ /\ faults < MaxFaults
           /\ faults' = faults + 1
           /\ secret' = [secret EXCEPT ![a] = "foreign"]
           /\ mat' = [mat EXCEPT ![a].phase = "absent"]
           /\ Compensate(w, "failed")
        \/ /\ faults < MaxFaults
           /\ faults' = faults + 1
           /\ secret' = [secret EXCEPT ![a] = "inflight"]
           /\ Compensate(w, "uncertain")
           /\ UNCHANGED mat
    /\ UNCHANGED <<dbVars, fence, lease, clusterVars, outbox, lock>>

\* recordUID, which refuses a row already absent
CanRecordUID(a) == secret[a] = "present" /\ mat[a].phase \in {"creating", "materialized"}

\* recordUID and recoverPrepared: the Secret is still there and the row, now
\* materialized, is still open.
RecordSecret(w) ==
    /\ worker[w].pc = "record"
    /\ LET a == Own(w) IN
        /\ mat' = IF CanRecordUID(a)
                  THEN [mat EXCEPT ![a] = [@ EXCEPT !.phase = "materialized", !.uid = TRUE]]
                  ELSE mat
        /\ IF CanRecordUID(a) /\ ~mat[a].closed
           THEN GoTo(w, "dispatch") ELSE Compensate(w, "uncertain")
    /\ UNCHANGED <<dbVars, fence, lease, secret, clusterVars, outbox, lock, faults>>

\* The durable mark that precedes every Job, through the lock's session.
MarkDispatching(w) ==
    /\ worker[w].pc = "dispatch"
    /\ LET o == worker[w].op
           n == worker[w].num
       IN  IF lock = w /\ ~obl[o][n].resolved
           THEN /\ obl' = [obl EXCEPT ![o][n].phase = "dispatching"]
                /\ GoTo(w, "submit")
           ELSE /\ Compensate(w, "uncertain")
                /\ UNCHANGED obl
    /\ UNCHANGED <<op, approved, att, credVars, clusterVars, outbox, lock, faults>>

\* Mutant of SubmitJob: an error is taken for a refusal and compensated.
SubmitJobRefused(w) ==
    /\ worker[w].pc = "submit"
    /\ LET a == Own(w) IN
        \/ /\ job' = [job EXCEPT ![a].st = "active"]
           /\ GoTo(w, "watch")
           /\ UNCHANGED faults
        \/ /\ faults < MaxFaults
           /\ faults' = faults + 1
           /\ job' = [job EXCEPT ![a].st = "inflight"]
           /\ Compensate(w, "failed")
    /\ UNCHANGED <<dbVars, credVars, history, outbox, lock>>

\* Create the Job.  After any error it may still appear, so nothing is revoked
\* and the outcome is uncertain.  The mark after it is the same write again.
SubmitJob(w) ==
    /\ worker[w].pc = "submit"
    /\ LET a == Own(w) IN
        \/ /\ job' = [job EXCEPT ![a].st = "active"]
           /\ worker' = [worker EXCEPT ![w] =
                  IF lock = w THEN [@ EXCEPT !.pc = "watch"]
                  ELSE [@ EXCEPT !.pc = "finish", !.res = "uncertain"]]
           /\ UNCHANGED faults
        \/ /\ faults < MaxFaults
           /\ faults' = faults + 1
           /\ job' = [job EXCEPT ![a].st = "inflight"]
           /\ worker' = [worker EXCEPT ![w] = [@ EXCEPT !.pc = "finish", !.res = "uncertain"]]
    /\ UNCHANGED <<dbVars, credVars, history, outbox, lock>>

-----------------------------------------------------------------------------
(* Evidence *)

\* The result that evidence() reads: its state, and whether it has an external id
Verdict(e) == IF e \in {"succeeded", "failed"} THEN e ELSE "uncertain"

HasExternalID(e) == e # "none"

\* run's loop sees a terminal Job.  Evidence of an observation also needs the
\* end of the delivery it is about; revocation needs the end of its own Pod.
Watch(w) ==
    /\ worker[w].pc = "watch"
    /\ LET o == worker[w].op
           n == worker[w].num
           a == <<o, n>>
           d == <<o, LatestDelivery(o, n)>>
           known == PodEnded(a) /\ (att[o][n].kind = "observe" => PodEnded(d))
           e == IF known THEN job[a].evidence ELSE "none"
       IN  /\ job[a].terminal
           /\ worker' = [worker EXCEPT ![w] =
                  [@ EXCEPT !.res = Verdict(e), !.ext = HasExternalID(e), !.tgt = n,
                            !.pc = IF PodEnded(a) THEN "close" ELSE "finish"]]
    /\ UNCHANGED <<dbVars, credVars, clusterVars, outbox, lock, faults>>

\* The Job cannot be read before it is made, or the call ends before the Job does.
GiveUp(w) ==
    /\ worker[w].pc \in {"prepare", "watch"}
    /\ faults < MaxFaults
    /\ faults' = faults + 1
    /\ worker' = [worker EXCEPT ![w] = [@ EXCEPT !.pc = "finish", !.res = "uncertain"]]
    /\ UNCHANGED <<dbVars, credVars, clusterVars, outbox, lock>>

\* ObserveExisting, an administrator's passive recovery
ObserveExisting(w) ==
    /\ worker[w].pc = "passive"
    /\ LET o == worker[w].op
           n == worker[w].num
           d == <<o, LatestDelivery(o, n)>>
           stopped == PreparationStopped(o, n, worker[w].seen)
           e == IF PodEnded(d) THEN job[d].evidence ELSE "none"
       IN  worker' = [worker EXCEPT ![w] =
               [@ EXCEPT !.pc = "finish",
                         !.res = IF stopped THEN "failed" ELSE Verdict(e),
                         !.ext = ~stopped /\ HasExternalID(e)]]
    /\ UNCHANGED <<dbVars, credVars, clusterVars, outbox, lock, faults>>

-----------------------------------------------------------------------------
(* Revocation: SecretMaterializer.Revoke and its acknowledgement *)

\* Close the row, inserting it closed when Prepare never did, and remember
\* what it was: removeSecret decides by this copy.
CloseRow(w) ==
    /\ worker[w].pc = "close"
    /\ LET a == Target(w)
           row == [mat[a] EXCEPT !.closed = TRUE,
                                 !.phase = IF @ = "none" THEN "intent" ELSE @]
       IN  /\ mat' = [mat EXCEPT ![a] = row]
           /\ worker' = [worker EXCEPT ![w] = [@ EXCEPT !.pc = "issuer", !.row = row]]
    /\ UNCHANGED <<dbVars, fence, lease, secret, clusterVars, outbox, lock, faults>>

\* RevokeDeployment, external here: the fence is closed first; then a named
\* credential is revoked.  One that is still being issued, or that cannot be
\* named, stays pending, and so does any while the issuer is unavailable.
RevokeIssuer(w) ==
    /\ worker[w].pc = "issuer"
    /\ LET a == Target(w) IN
        /\ fence' = [fence EXCEPT ![a] = TRUE]
        /\ \/ /\ lease' = [lease EXCEPT ![a] = IF @ = "live" THEN "revoked" ELSE @]
              /\ worker' = [worker EXCEPT ![w] =
                     [@ EXCEPT !.pc = "remove",
                               !.issuer = lease[a] \in {"none", "live", "revoked"}]]
              /\ UNCHANGED faults
           \/ /\ faults < MaxFaults
              /\ lease[a] = "live"
              /\ faults' = faults + 1
              /\ worker' = [worker EXCEPT ![w] = [@ EXCEPT !.pc = "remove", !.issuer = FALSE]]
              /\ UNCHANGED lease
    /\ UNCHANGED <<dbVars, mat, secret, clusterVars, outbox, lock>>

\* Mutant of SecretGone: a Secret that is not found is gone.
SecretGoneWhenNotFound(w) ==
    LET a == Target(w)
    IN  \/ worker[w].row.phase \in {"intent", "absent"}
        \/ secret[a] # "present"
        \/ CanRecordUID(a)

\* removeSecret over the row that CloseRow read.  Outcomes: nothing was ever
\* created; the Secret is recorded, deleted and gone; or it cannot be known
\* (not found, while a creation with no recorded identity may still commit;
\* somebody else's Secret; a row that another call made absent).
SecretGone(w) ==
    LET a == Target(w)
        row == worker[w].row
    IN  \/ row.phase \in {"intent", "absent"}
        \/ secret[a] # "present" /\ row.uid
        \/ CanRecordUID(a)

\* Revoke succeeded at both authorities, or the obligation stays: the call goes
\* on to finish as uncertain, to the next obligation, or ends.
AfterRevoke(w, done) ==
    IF done
    THEN GoTo(w, "resolve") /\ UNCHANGED lock
    ELSE IF worker[w].num = 0 THEN Leave(w)
    ELSE /\ worker' = [worker EXCEPT ![w] =
                IF RevokesOwn(w)
                THEN [@ EXCEPT !.pc = "finish", !.res = "uncertain", !.ext = FALSE]
                ELSE [@ EXCEPT !.pc = "sweep"]]
         /\ UNCHANGED lock

RemoveSecret(w) ==
    /\ worker[w].pc = "remove"
    /\ LET a == Target(w)
           untouched == worker[w].row.phase \in {"intent", "absent"}
           gone == [mat[a] EXCEPT !.phase = "absent", !.uid = TRUE]
       IN  \/ /\ SecretGone(w)
              /\ IF untouched THEN UNCHANGED <<mat, secret>>
                 ELSE /\ mat' = [mat EXCEPT ![a] = gone]
                      /\ secret' = [secret EXCEPT ![a] = IF @ = "present" THEN "deleted" ELSE @]
              /\ AfterRevoke(w, worker[w].issuer)
              /\ UNCHANGED faults
           \/ /\ ~SecretGone(w)
              /\ AfterRevoke(w, FALSE)
              /\ UNCHANGED <<mat, secret, faults>>
           \* the deletion is done, or only recorded, when the reply is lost
           \/ /\ ~untouched
              /\ CanRecordUID(a)
              /\ faults < MaxFaults
              /\ faults' = faults + 1
              /\ mat' = [mat EXCEPT ![a] = [@ EXCEPT !.phase = "materialized", !.uid = TRUE]]
              /\ secret' \in {secret, [secret EXCEPT ![a] = "deleted"]}
              /\ AfterRevoke(w, FALSE)
    /\ UNCHANGED <<dbVars, fence, lease, clusterVars, outbox>>

\* journal.update: the acknowledgement goes through the lock's session.
Resolve(w) ==
    /\ worker[w].pc = "resolve"
    /\ LET o == worker[w].op
           n == worker[w].tgt
           done == lock = w /\ ~obl[o][n].resolved
           seen == [worker[w].seen EXCEPT ![n].resolved = TRUE]
       IN  IF done
           THEN /\ obl' = [obl EXCEPT ![o][n].resolved = TRUE]
                /\ IF worker[w].num = 0 THEN Leave(w)
                   ELSE /\ worker' = [worker EXCEPT ![w] =
                              [@ EXCEPT !.pc = IF RevokesOwn(w) THEN "finish" ELSE "sweep",
                                        !.seen = seen]]
                        /\ UNCHANGED lock
           ELSE /\ AfterRevoke(w, FALSE)
                /\ UNCHANGED obl
    /\ UNCHANGED <<op, approved, att, credVars, clusterVars, outbox, faults>>

\* The state that execute passes to finish: an obligation of the operation that
\* is still open makes it uncertain whatever the executor said.
FinalState(w) ==
    IF PendingCredentials(worker[w].op) THEN "uncertain" ELSE worker[w].res

\* Mutant of EnqueueSuccess: the event names the attempt that found the success.
EnqueueSuccessOfAttempt(o, n) ==
    outbox' = [outbox EXCEPT ![<<o, n>>] = "pending"]

\* enqueueSuccess: the event names the latest delivery, once.
EnqueueSuccess(o, n) ==
    LET d == <<o, LatestDelivery(o, n)>>
    IN  outbox' = IF outbox[d] = "none" THEN [outbox EXCEPT ![d] = "pending"] ELSE outbox

\* finish, in one transaction on the lock's session, with the success event.
\* A lost session writes nothing.
Finish(w) ==
    /\ worker[w].pc = "finish"
    /\ LET o == worker[w].op
           n == worker[w].num
           s == FinalState(w)
       IN  IF lock = w /\ att[o][n].state = "running" /\ op[o] = "running"
           THEN /\ att' = [att EXCEPT ![o][n] = [@ EXCEPT !.state = s, !.ext = worker[w].ext]]
                /\ op' = [op EXCEPT ![o] = s]
                /\ IF s = "succeeded" THEN EnqueueSuccess(o, n) ELSE UNCHANGED outbox
           ELSE UNCHANGED <<att, op, outbox>>
    /\ Leave(w)
    /\ UNCHANGED <<approved, obl, credVars, clusterVars, faults>>

-----------------------------------------------------------------------------
(* Publication *)

\* publishSuccess: XADD, then the acknowledgement, which a crash can lose: the
\* event is then sent again, with the same identity.
Publish(a) ==
    /\ outbox[a] = "pending"
    /\ outbox' = [outbox EXCEPT ![a] = "published"]
    /\ UNCHANGED <<dbVars, credVars, clusterVars, lock, worker, faults>>

-----------------------------------------------------------------------------
(* The cluster, external: requests in flight, the Job's Pod and Helm *)

LateSecret(a) ==
    /\ secret[a] = "inflight"
    /\ \E s \in {"present", "none"} : secret' = [secret EXCEPT ![a] = s]
    /\ UNCHANGED <<dbVars, mat, fence, lease, clusterVars, outbox, lock, worker, faults>>

LateJob(a) ==
    /\ job[a].st = "inflight"
    /\ \E s \in {"active", "none"} : job' = [job EXCEPT ![a].st = s]
    /\ UNCHANGED <<dbVars, credVars, history, outbox, lock, worker, faults>>

Ended(e) == [st |-> "done", terminal |-> TRUE, evidence |-> e]

\* What `helm status` tells of delivery d of operation o
StatusOf(d) ==
    IF history = <<>> \/ history[Len(history)].by # d THEN "none"
    ELSE CASE history[Len(history)].status = "deployed" -> "succeeded"
           [] history[Len(history)].status = "failed" -> "failed"
           [] OTHER -> "partial"

\* A retry goes on only over the failed release of the delivery it retries.
MayUpgrade(o, n) ==
    LET prev == PreviousDelivery(o, n)
    IN  prev = 0 \/ StatusOf(<<o, prev>>) = "failed"

\* RunHelmJob in mode execute, up to the upgrade: it is refused, or Helm
\* records a pending revision that carries this delivery's binding.
HelmCheck(a) ==
    /\ job[a].st = "active"
    /\ att[a[1]][a[2]].kind = "execute"
    /\ \/ /\ ~MayUpgrade(a[1], a[2])
          /\ job' = [job EXCEPT ![a] = Ended("none")]
          /\ UNCHANGED history
       \/ /\ MayUpgrade(a[1], a[2])
          /\ job' = [job EXCEPT ![a].st = "upgrading"]
          /\ history' = Append(history, [by |-> a, status |-> "pending"])
    /\ UNCHANGED <<dbVars, credVars, outbox, lock, worker, faults>>

SetStatus(s) == history' = [history EXCEPT ![Len(history)].status = s]

\* The upgrade ends and the wrapper prints what it can attest.
HelmUpgraded(a) ==
    /\ job[a].st = "upgrading"
    /\ \/ SetStatus("deployed") /\ job' = [job EXCEPT ![a] = Ended("succeeded")]
       \/ SetStatus("failed") /\ job' = [job EXCEPT ![a] = Ended("failed")]
    /\ UNCHANGED <<dbVars, credVars, outbox, lock, worker, faults>>

\* RunHelmJob in mode observe
HelmObserve(a) ==
    /\ job[a].st = "active"
    /\ att[a[1]][a[2]].kind = "observe"
    /\ job' = [job EXCEPT ![a] = Ended(StatusOf(<<a[1], LatestDelivery(a[1], a[2])>>))]
    /\ UNCHANGED <<dbVars, credVars, history, outbox, lock, worker, faults>>

\* activeDeadlineSeconds: the Job is failed while its Pod is still stopping.
Deadline(a) ==
    /\ job[a].st \in {"active", "upgrading"}
    /\ ~job[a].terminal
    /\ faults < MaxFaults
    /\ faults' = faults + 1
    /\ job' = [job EXCEPT ![a].terminal = TRUE]
    /\ UNCHANGED <<dbVars, credVars, history, outbox, lock, worker>>

\* The Pod is killed without a word; Helm's revision stays pending, or was
\* already deployed when the evidence was not yet written.
Killed(a) ==
    /\ job[a].st \in {"active", "upgrading"}
    /\ job[a].terminal
    /\ job' = [job EXCEPT ![a] = Ended("none")]
    /\ IF job[a].st = "upgrading" THEN SetStatus("deployed") \/ UNCHANGED history
       ELSE UNCHANGED history
    /\ UNCHANGED <<dbVars, credVars, outbox, lock, worker, faults>>

-----------------------------------------------------------------------------
(* Faults of the callers *)

Crash(w) ==
    /\ worker[w] # Idle
    /\ faults < MaxFaults
    /\ faults' = faults + 1
    /\ Leave(w)
    /\ UNCHANGED <<dbVars, credVars, clusterVars, outbox>>

LoseSession(w) ==
    /\ lock = w
    /\ faults < MaxFaults
    /\ faults' = faults + 1
    /\ lock' = None
    /\ UNCHANGED <<dbVars, credVars, clusterVars, outbox, worker>>

-----------------------------------------------------------------------------

\* A call's own steps, without the choice to begin one
Continue(w) ==
    \/ Sweep(w) \/ Judge(w) \/ Uncovered(w) \/ Prepare(w) \/ Reserve(w) \/ Issue(w)
    \/ MarkCreating(w) \/ CreateSecret(w) \/ RecordSecret(w) \/ MarkDispatching(w)
    \/ SubmitJob(w) \/ Watch(w) \/ ObserveExisting(w) \/ CloseRow(w)
    \/ RevokeIssuer(w) \/ RemoveSecret(w) \/ Resolve(w) \/ Finish(w)

Clean == \E w \in Workers, a \in Attempts : Janitor(w, a[1], a[2])

ClusterStep(a) ==
    \/ LateSecret(a) \/ LateJob(a) \/ HelmCheck(a) \/ HelmUpgraded(a)
    \/ HelmObserve(a) \/ Killed(a)

Next ==
    \/ \E o \in Ops : Request(o) \/ Approve(o)
    \/ \E w \in Workers, o \in Ops, kind \in Kinds : Begin(w, o, kind)
    \/ Clean
    \/ \E w \in Workers : Continue(w) \/ GiveUp(w) \/ Crash(w) \/ LoseSession(w)
    \/ \E a \in Attempts : ClusterStep(a) \/ Deadline(a) \/ Publish(a)

Spec == Init /\ [][Next]_vars

\* A running call goes on, the cluster works on what it was asked, the
\* publisher's ticker publishes.  The janitor's ticker finds the lock free
\* again and again between calls: it gets it infinitely often (strong fairness).
FairSpec ==
    /\ Spec
    /\ \A w \in Workers : WF_vars(Continue(w))
    /\ \A a \in Attempts :
        /\ WF_vars(ClusterStep(a))
        /\ WF_vars(Publish(a))
        /\ SF_vars(\E w \in Workers : Janitor(w, a[1], a[2]))

-----------------------------------------------------------------------------
(* Properties *)

Working(a) == job[a].st \in {"inflight", "active", "upgrading"}

\* At most one delivery Job of the destination runs or may still start, although
\* a call can outlive its lock and a lost reply can hide a Job (start, run).
OneDeliverer ==
    \A a, b \in Attempts :
        /\ Working(a) /\ att[a[1]][a[2]].kind = "execute"
        /\ Working(b) /\ att[b[1]][b[2]].kind = "execute"
        => a = b

\* An operation that is reported failed or succeeded, or that was never started,
\* has no Job that runs or may still start, so a retry or a newer operation races
\* nothing (execute's uncertain states, finish).
SettledIsQuiet ==
    \A a \in Attempts :
        op[a[1]] \in {"none", "pending", "failed", "succeeded"} => ~Working(a)

\* A resolved obligation is final: the issuer is fenced and holds no live
\* credential for the attempt, no Secret of the attempt exists or may still
\* appear, and no executor that mounts it runs or may still start
\* (credentialJournal.update after Revoke).
ResolvedIsFenced ==
    \A o \in Ops : \A n \in 1 .. Len(obl[o]) :
        obl[o][n].resolved /\ obl[o][n].phase # "none" =>
            /\ fence[<<o, n>>]
            /\ lease[<<o, n>>] \in {"none", "revoked"}
            /\ secret[<<o, n>>] \notin {"present", "inflight"}
            /\ ~Working(<<o, n>>)

\* A success and its event are about a delivery that Helm recorded as deployed;
\* as long as no newer operation has begun it is what is deployed (evidence,
\* enqueueSuccess).
SuccessIsDeployed ==
    /\ \A a \in Attempts : outbox[a] # "none" =>
           /\ op[a[1]] = "succeeded"
           /\ \E i \in 1 .. Len(history) : history[i] = [by |-> a, status |-> "deployed"]
    /\ \A o \in Ops :
           /\ op[o] = "succeeded"
           /\ \A p \in Ops : p > o => op[p] \in {"none", "pending"}
           => /\ history # <<>>
              /\ history[Len(history)] =
                     [by |-> <<o, LatestDelivery(o, Len(att[o]))>>, status |-> "deployed"]

\* The release never goes back: a revision of an older operation never follows
\* one of a newer operation, and an operation's own retry follows only a failed
\* revision of it (start's comparison of created_at, RunHelmJob's previous).
NeverRollsBack ==
    \A i \in 1 .. Len(history) - 1 :
        LET a == history[i].by
            b == history[i + 1].by
        IN  /\ a[1] <= b[1]
            /\ a[1] = b[1] => a[2] < b[2] /\ history[i].status = "failed"

\* The outcome of the obligation can no longer be established by anything the
\* code looks at: a Job announced and never found, a Secret whose creation was
\* announced and never seen, a credential without a name.
Unknowable(o, n) ==
    \/ obl[o][n].phase = "dispatching" /\ ~JobFound(<<o, n>>)
    \/ mat[<<o, n>>].phase = "creating" /\ secret[<<o, n>>] # "present"
    \/ lease[<<o, n>>] \in {"reserved", "unknown"}

\* An obligation that is open although its outcome can be established
Owed(a) ==
    /\ a[2] <= Len(obl[a[1]])
    /\ ~obl[a[1]][a[2]].resolved
    /\ ~Unknowable(a[1], a[2])

\* No credential obligation stays open for ever while its outcome can be known:
\* its own call, a later one or the janitor resolves it, whatever call died on
\* it (RunCleanup).
ObligationsAreResolved == \A a \in Attempts : Owed(a) ~> ~Owed(a)
=============================================================================
