----------------------------- MODULE CIDispatch -----------------------------
(***************************************************************************)
(* Dispatch of CI jobs to runners, with the credentials a job declares.    *)
(*                                                                         *)
(* Several replicas of the CI service share one PostgreSQL database.  Each *)
(* replica runs one Pump (internal/ci/pump.go) and one Dispatcher          *)
(* (dispatch.go) holding the Connect streams runners opened to it.  Every  *)
(* database transaction, every call to the secret broker and every write   *)
(* to a stream is one action, so the steps of different replicas, runners  *)
(* and workers interleave between them; a replica may crash between any    *)
(* two of its steps, and a transaction may commit although its caller sees *)
(* an error.                                                               *)
(***************************************************************************)
EXTENDS Naturals, FiniteSets

CONSTANTS
  Jobs,        \* command jobs (ci.workflow_jobs without an agent_role)
  Runs,        \* ci.workflow_runs
  RunOf,       \* the run a job belongs to
  Needs,       \* the jobs of the same run a job needs
  Secrets,     \* the jobs that declare at least one secret
  Runners,     \* ci.runners of the organization the runs belong to
  Replicas,    \* processes of the CI service
  Conns,       \* connection ids (uuid.New() of BeginRunnerConnection)
  Attempts,    \* credential attempt ids (uuid.New() of Pump.offer)
  Nil,         \* the nil attempt: the obligation of the whole job
  None,        \* SQL NULL
  MaxCrashes   \* bound on replica crashes

ASSUME DispatchAssumption ==
  /\ RunOf \in [Jobs -> Runs]
  /\ Needs \in [Jobs -> SUBSET Jobs]
  /\ Secrets \subseteq Jobs
  /\ None \notin Runners \cup Replicas \cup Conns \cup Jobs \cup Attempts
  /\ Nil \notin Attempts
  /\ MaxCrashes \in Nat

VARIABLES
  status,      \* workflow_jobs.status
  runnerId,    \* workflow_jobs.runner_id
  jobConn,     \* workflow_jobs.connection_id
  receipt,     \* workflow_jobs.terminal_receipt
  runStatus,   \* workflow_runs.status
  connection,  \* runners.connection_id
  cleanup,     \* credential_cleanup rows: job, attempt -> phase, "none" if absent
  expired,     \* attempts whose preparation deadline (ready_at) has passed
  stream,      \* how far the Connect handler of each connection is
  runnerOf,    \* the runner a connection is of
  hostOf,      \* the replica serving it
  registered,  \* Dispatcher.runners of each replica
  snapshot,    \* the runners this tick of a pump has still to offer work to
  pc,          \* where each replica's pump stands in offer
  offer,       \* the local variables of offer
  sent,        \* jobs written to a stream's channel
  settling,    \* rollUpRunStatus calls not yet made, per replica
  acked,       \* cleanup RPCs answered "fenced, nothing pending", row not yet deleted
  usedAttempts,\* attempt ids already drawn
  inflight,    \* IssueJobLease requests the broker has not yet processed
  lease,       \* the leases of an attempt at the broker
  fence,       \* scopes closed at the broker: attempts, or Nil for the job
  crashes      \* replica crashes so far

jobVars    == <<status, runnerId, jobConn, receipt>>
connVars   == <<connection, stream, runnerOf, hostOf, registered>>
pumpVars   == <<snapshot, pc, offer>>
brokerVars == <<inflight, lease, fence>>
vars == <<jobVars, runStatus, connVars, cleanup, expired, pumpVars, sent,
          settling, acked, usedAttempts, brokerVars, crashes>>

Terminal  == {"success", "failure", "cancelled"}
JobStatus == {"pending", "running"} \cup Terminal
RunStatus == {"queued", "running"} \cup Terminal
Phases    == {"none", "preparing", "dispatched", "cleanup"}
Rows      == Attempts \cup {Nil}
Leases    == {"none", "issued", "revoking", "revoked"}
PumpSteps == {"idle", "claimed", "resolve", "issuing", "redeem", "ready", "send",
              "revokeBlock", "revokeFail",
              "abandonBlock", "abandonRelease", "abandonFail",
              "block", "release", "fail", "rollup"}
NoOffer   == [runner |-> None, conn |-> None, job |-> None, attempt |-> None]
Offers    == [runner : Runners \cup {None}, conn : Conns \cup {None},
              job : Jobs \cup {None}, attempt : Attempts \cup {None}]
Messages  == [runner : Runners, conn : Conns, job : Jobs,
              attempt : Attempts \cup {None}]

Active(j) == status[j] \notin Terminal

JobsOf(u) == {j \in Jobs : RunOf[j] = u}

(***************************************************************************)
(* The database.                                                           *)
(***************************************************************************)

\* Mutant of Settled: the count of unfinished jobs misses the pending ones.
SettledIgnoresPending(u, st) ==
  IF /\ runStatus[u] \notin Terminal
     /\ \A j \in JobsOf(u) : st[j] # "running"
  THEN IF \E j \in JobsOf(u) : st[j] \in {"failure", "cancelled"}
       THEN "failure" ELSE "success"
  ELSE runStatus[u]

\* rollUpRunStatus, and the settlement interruptRunnerJobs commits with the
\* interruption: the status of run u once its jobs have statuses st.
Settled(u, st) ==
  IF /\ runStatus[u] \notin Terminal
     /\ \A j \in JobsOf(u) : st[j] \in Terminal
  THEN IF \E j \in JobsOf(u) : st[j] \in {"failure", "cancelled"}
       THEN "failure" ELSE "success"
  ELSE runStatus[u]

\* The trigger fence_job_credentials, for the jobs J written with a terminal
\* status: the nil row appears and every row of the job is due for cleanup.
FenceRows(J) ==
  [j \in Jobs |->
     IF j \in J \cap Secrets
     THEN [a \in Rows |-> IF a = Nil \/ cleanup[j][a] # "none"
                          THEN "cleanup" ELSE "none"]
     ELSE cleanup[j]]

\* Writing status s to the jobs J, with the trigger.
Write(J, s) ==
  /\ status' = [j \in Jobs |-> IF j \in J THEN s ELSE status[j]]
  /\ cleanup' = IF s \in Terminal THEN FenceRows(J) ELSE cleanup

\* interruptRunnerJobs: the active jobs J fail and their runs settle, in one
\* transaction.
Interrupt(J) ==
  /\ Write(J, "failure")
  /\ runStatus' = [u \in Runs |-> IF u \in {RunOf[j] : j \in J}
                                  THEN Settled(u, status') ELSE runStatus[u]]

(***************************************************************************)
(* Initial states: the scheduler has created the runs and all their jobs.  *)
(***************************************************************************)
Init ==
  /\ status = [j \in Jobs |-> "pending"]
  /\ runnerId = [j \in Jobs |-> None]
  /\ jobConn = [j \in Jobs |-> None]
  /\ receipt = [j \in Jobs |-> None]
  /\ runStatus = [u \in Runs |-> "queued"]
  /\ connection = [r \in Runners |-> None]
  /\ cleanup = [j \in Jobs |-> [a \in Rows |-> "none"]]
  /\ expired = {}
  /\ stream = [c \in Conns |-> "unused"]
  /\ runnerOf = [c \in Conns |-> None]
  /\ hostOf = [c \in Conns |-> None]
  /\ registered = [p \in Replicas |-> [r \in Runners |-> None]]
  /\ snapshot = [p \in Replicas |-> {}]
  /\ pc = [p \in Replicas |-> "idle"]
  /\ offer = [p \in Replicas |-> NoOffer]
  /\ sent = {}
  /\ settling = {}
  /\ acked = {}
  /\ usedAttempts = {}
  /\ inflight = {}
  /\ lease = [j \in Jobs |-> [a \in Attempts |-> "none"]]
  /\ fence = [j \in Jobs |-> {}]
  /\ crashes = 0

(***************************************************************************)
(* Connect streams (grpc.go Connect, dispatch.go, connections.go).         *)
(***************************************************************************)

\* Mutant of BeginRunnerConnection: every job the runner ever held is
\* interrupted, finished ones too.
BeginInterruptsAll(p, r, c) ==
  /\ stream[c] = "unused"
  /\ \A d \in Conns : ~(stream[d] = "activating" /\ hostOf[d] = p)
  /\ connection' = [connection EXCEPT ![r] = c]
  /\ stream' = [stream EXCEPT ![c] = "activating"]
  /\ runnerOf' = [runnerOf EXCEPT ![c] = r]
  /\ hostOf' = [hostOf EXCEPT ![c] = p]
  /\ Interrupt({j \in Jobs : runnerId[j] = r})
  /\ UNCHANGED <<runnerId, jobConn, receipt, registered, expired, pumpVars, sent,
                 settling, acked, usedAttempts, brokerVars, crashes>>

\* BeginRunnerConnection: a new incarnation of runner r is admitted by
\* replica p; whatever the runner held, under any incarnation, is interrupted.
\* activationMu lets a replica activate one stream at a time.
BeginRunnerConnection(p, r, c) ==
  /\ stream[c] = "unused"
  /\ \A d \in Conns : ~(stream[d] = "activating" /\ hostOf[d] = p)
  /\ connection' = [connection EXCEPT ![r] = c]
  /\ stream' = [stream EXCEPT ![c] = "activating"]
  /\ runnerOf' = [runnerOf EXCEPT ![c] = r]
  /\ hostOf' = [hostOf EXCEPT ![c] = p]
  /\ Interrupt({j \in Jobs : runnerId[j] = r /\ Active(j)})
  /\ UNCHANGED <<runnerId, jobConn, receipt, registered, expired, pumpVars, sent,
                 settling, acked, usedAttempts, brokerVars, crashes>>

\* activateConnection, second half: the hello is queued and the dispatcher's
\* map points at the new stream.
ActivateConnection(c) ==
  /\ stream[c] = "activating"
  /\ stream' = [stream EXCEPT ![c] = "open"]
  /\ registered' = [registered EXCEPT ![hostOf[c]][runnerOf[c]] = c]
  /\ UNCHANGED <<jobVars, runStatus, connection, runnerOf, hostOf, cleanup, expired,
                 pumpVars, sent, settling, acked, usedAttempts, brokerVars, crashes>>

\* UnregisterConnection, first half: the stream ended (or its activation
\* failed after BeginRunnerConnection committed); the map entry goes only if it
\* is this stream's own.
UnregisterConnection(c) ==
  /\ stream[c] \in {"activating", "open"}
  /\ stream' = [stream EXCEPT ![c] = "closing"]
  /\ LET p == hostOf[c]
         r == runnerOf[c]
     IN registered' = IF registered[p][r] = c
                      THEN [registered EXCEPT ![p][r] = None] ELSE registered
  /\ UNCHANGED <<jobVars, runStatus, connection, runnerOf, hostOf, cleanup, expired,
                 pumpVars, sent, settling, acked, usedAttempts, brokerVars, crashes>>

\* EndRunnerConnection: refused unless the incarnation is still the runner's;
\* otherwise its authority ends and the jobs it holds are interrupted.  The
\* caller discards an error, so the transaction may also simply not happen.
EndRunnerConnection(c) ==
  /\ stream[c] = "closing"
  /\ stream' = [stream EXCEPT ![c] = "closed"]
  /\ LET r == runnerOf[c]
     IN \/ /\ connection[r] = c
           /\ connection' = [connection EXCEPT ![r] = None]
           /\ Interrupt({j \in Jobs : runnerId[j] = r /\ jobConn[j] = c /\ Active(j)})
        \/ UNCHANGED <<connection, status, cleanup, runStatus>>
  /\ UNCHANGED <<runnerId, jobConn, receipt, runnerOf, hostOf, registered, expired,
                 pumpVars, sent, settling, acked, usedAttempts, brokerVars, crashes>>

(***************************************************************************)
(* The pump (pump.go tick and offer): one process per replica.             *)
(***************************************************************************)

At(p, step) == pc[p] = step

Goto(p, step) == pc' = [pc EXCEPT ![p] = step]

\* offer is over, and with it the pump's hold on the job.
Return(p) ==
  /\ Goto(p, "idle")
  /\ offer' = [offer EXCEPT ![p] = NoOffer]

DropRunner(p) ==
  snapshot' = [snapshot EXCEPT ![p] = {x \in @ : x[1] # offer[p].runner}]

\* offer returned true: this tick is done with the runner.
DoneWith(p) == Return(p) /\ DropRunner(p)

\* offer returned false: the runner is offered another job, unless it has had
\* maxClaimsPerRunner of them this tick.
TryAnother(p) == Return(p) /\ (UNCHANGED snapshot \/ DropRunner(p))

\* tick: Connected() copies the dispatcher's map; streams may come and go
\* while the copy is worked through.
Tick(p) ==
  /\ At(p, "idle")
  /\ snapshot[p] = {}
  /\ \E r \in Runners : registered[p][r] # None
  /\ snapshot' = [snapshot EXCEPT ![p] =
                    {<<r, registered[p][r]>> : r \in {q \in Runners : registered[p][q] # None}}]
  /\ UNCHANGED <<jobVars, runStatus, connVars, cleanup, expired, pc, offer, sent,
                 settling, acked, usedAttempts, brokerVars, crashes>>

\* Mutant of Claimable: a job waits for what it needs to finish, not to succeed.
ClaimableAfterFailure(j) ==
  /\ status[j] = "pending"
  /\ runnerId[j] = None
  /\ \A d \in Needs[j] : status[d] \in Terminal
  /\ j \in Secrets => usedAttempts # Attempts

\* The predicate of the claim.  not_before only delays a claim, so it is left
\* to the interleaving; the last conjunct bounds the attempts drawn.
Claimable(j) ==
  /\ status[j] = "pending"
  /\ runnerId[j] = None
  /\ \A d \in Needs[j] : status[d] = "success"
  /\ j \in Secrets => usedAttempts # Attempts

\* The claim is made under the runner's row lock and only for the incarnation
\* the pump saw.
Claim(r, c, j) ==
  /\ connection[r] = c
  /\ Claimable(j)
  /\ runnerId' = [runnerId EXCEPT ![j] = r]
  /\ jobConn' = [jobConn EXCEPT ![j] = c]

BeginOffer(p, r, c, j) ==
  /\ Goto(p, "claimed")
  /\ offer' = [offer EXCEPT ![p] = [runner |-> r, conn |-> c, job |-> j, attempt |-> None]]
  /\ UNCHANGED snapshot

\* No job, or an error: the runner waits for the next tick.
NextRunner(p, r, c) ==
  /\ snapshot' = [snapshot EXCEPT ![p] = @ \ {<<r, c>>}]
  /\ UNCHANGED <<pc, offer>>

\* ClaimForDispatch: on an error the claim may have committed all the same.
ClaimForDispatch(p) ==
  /\ At(p, "idle")
  /\ \E r \in Runners, c \in Conns :
       /\ <<r, c>> \in snapshot[p]
       /\ \/ \E j \in Jobs : Claim(r, c, j) /\ (BeginOffer(p, r, c, j) \/ NextRunner(p, r, c))
          \/ NextRunner(p, r, c) /\ UNCHANGED <<runnerId, jobConn>>
  /\ UNCHANGED <<status, receipt, runStatus, connVars, cleanup, expired, sent,
                 settling, acked, usedAttempts, brokerVars, crashes>>

\* cloneURL fails: the job is to be failed.
CloneURLFails(p) ==
  /\ At(p, "claimed")
  /\ Goto(p, "fail")
  /\ UNCHANGED <<jobVars, runStatus, connVars, cleanup, expired, snapshot, offer,
                 sent, settling, acked, usedAttempts, brokerVars, crashes>>

\* prepareCredentials: the attempt's outbox row is written before the broker
\* is asked for anything.  On an error the claim is released.
PrepareCredentials(p) ==
  /\ At(p, "claimed")
  /\ offer[p].job \in Secrets
  /\ \E a \in Attempts \ usedAttempts :
       /\ usedAttempts' = usedAttempts \cup {a}
       /\ offer' = [offer EXCEPT ![p] =
            [runner |-> offer[p].runner, conn |-> offer[p].conn,
             job |-> offer[p].job, attempt |-> a]]
       /\ \/ /\ status[offer[p].job] = "pending"
             /\ runnerId[offer[p].job] = offer[p].runner
             /\ cleanup' = [cleanup EXCEPT ![offer[p].job][a] = "preparing"]
             /\ \E step \in {"resolve", "block"} : Goto(p, step)
          \/ /\ Goto(p, "block")
             /\ UNCHANGED cleanup
  /\ UNCHANGED <<jobVars, runStatus, connVars, expired, snapshot, sent,
                 settling, acked, brokerVars, crashes>>

\* ResolveJobCredentials asks for the next secret's lease.
IssueJobLease(p) ==
  /\ At(p, "resolve")
  /\ inflight' = inflight \cup {<<offer[p].job, offer[p].attempt>>}
  /\ Goto(p, "issuing")
  /\ UNCHANGED <<jobVars, runStatus, connVars, cleanup, expired, snapshot, offer,
                 sent, settling, acked, usedAttempts, lease, fence, crashes>>

\* The broker's answer arrives, or the call times out (classifyBrokerError:
\* unavailable) while the request may still be on its way.
IssueReturns(p) ==
  /\ At(p, "issuing")
  /\ LET j == offer[p].job
         a == offer[p].attempt
     IN \/ /\ <<j, a>> \notin inflight
           /\ lease[j][a] = "issued"
           /\ Goto(p, "redeem")
        \/ /\ <<j, a>> \notin inflight
           /\ Goto(p, "revokeFail")
        \/ Goto(p, "revokeBlock")
  /\ UNCHANGED <<jobVars, runStatus, connVars, cleanup, expired, snapshot, offer,
                 sent, settling, acked, usedAttempts, brokerVars, crashes>>

\* RedeemJobLease: a live lease gives its value, after which the next secret
\* is asked for or all are there; a refusal or an outage ends the resolution.
RedeemJobLease(p) ==
  /\ At(p, "redeem")
  /\ \/ /\ lease[offer[p].job][offer[p].attempt] = "issued"
        /\ \E step \in {"resolve", "ready"} : Goto(p, step)
     \/ \E step \in {"revokeBlock", "revokeFail"} : Goto(p, step)
  /\ UNCHANGED <<jobVars, runStatus, connVars, cleanup, expired, snapshot, offer,
                 sent, settling, acked, usedAttempts, brokerVars, crashes>>

(***************************************************************************)
(* The broker's fence (internal/secrets/fence.go), as far as CI sees it.   *)
(***************************************************************************)

Closed(j, a) == Nil \in fence[j] \/ a \in fence[j]

Scope(a) == IF a = Nil THEN Attempts ELSE {a}

Outstanding(j, a) == lease[j][a] \in {"issued", "revoking"}

\* lockScope, the reservation of a lease and the provider's answer: nothing is
\* issued in a closed scope; an issuance whose outcome is unknown leaves a
\* lease to revoke.  A policy refusal, or a lost request, leaves no lease.
BrokerIssue(j, a) ==
  /\ <<j, a>> \in inflight
  /\ inflight' = inflight \ {<<j, a>>}
  /\ \/ /\ ~Closed(j, a)
        /\ \E l \in {"issued", "revoking"} : lease' = [lease EXCEPT ![j][a] = l]
     \/ UNCHANGED lease
  /\ UNCHANGED <<jobVars, runStatus, connVars, cleanup, expired, pumpVars, sent,
                 settling, acked, usedAttempts, fence, crashes>>

\* RevokeRunLeases: the scope is closed, its leases are marked, and those the
\* provider confirms are revoked; the others stay pending.
RevokeRunLeases(j, a) ==
  /\ fence' = [fence EXCEPT ![j] = @ \cup {a}]
  /\ \E done \in SUBSET Scope(a) :
       lease' = [lease EXCEPT ![j] = [b \in Attempts |->
                   IF b \in Scope(a) /\ Outstanding(j, b)
                   THEN IF b \in done THEN "revoked" ELSE "revoking"
                   ELSE lease[j][b]]]

\* RetryRevocations, driven by the broker's own worker.
RetryRevocations(j, a) ==
  /\ lease[j][a] = "revoking"
  /\ lease' = [lease EXCEPT ![j][a] = "revoked"]
  /\ UNCHANGED <<jobVars, runStatus, connVars, cleanup, expired, pumpVars, sent,
                 settling, acked, usedAttempts, inflight, fence, crashes>>

(***************************************************************************)
(* The rest of offer.                                                      *)
(***************************************************************************)

\* ResolveJobCredentials failed: its deferred call fences the attempt, if the
\* broker can be reached, before the pump abandons the attempt.
RevokeAttempt(p) ==
  /\ \/ At(p, "revokeBlock") /\ Goto(p, "abandonBlock")
     \/ At(p, "revokeFail") /\ Goto(p, "abandonFail")
  /\ \/ RevokeRunLeases(offer[p].job, offer[p].attempt)
     \/ UNCHANGED <<lease, fence>>
  /\ UNCHANGED <<jobVars, runStatus, connVars, cleanup, expired, snapshot, offer,
                 sent, settling, acked, usedAttempts, inflight, crashes>>

AfterAbandon == [abandonBlock |-> "block", abandonRelease |-> "release",
                 abandonFail |-> "fail"]

\* abandonCredentials: the attempt's row becomes due for cleanup.  When that
\* is not known to be persisted the reservation is retained.
AbandonCredentials(p) ==
  /\ pc[p] \in DOMAIN AfterAbandon
  /\ LET j == offer[p].job
         a == offer[p].attempt
     IN \/ /\ cleanup[j][a] # "none"
           /\ cleanup' = [cleanup EXCEPT ![j][a] = "cleanup"]
           /\ \/ Goto(p, AfterAbandon[pc[p]]) /\ UNCHANGED <<snapshot, offer>>
              \/ DoneWith(p)
        \/ DoneWith(p) /\ UNCHANGED cleanup
  /\ UNCHANGED <<jobVars, runStatus, connVars, expired, sent, settling, acked,
                 usedAttempts, brokerVars, crashes>>

\* releaseClaim and BlockJob: any claim on an active job is released, whoever
\* holds it; the statement does not name the claimant.
BlockJob(p) ==
  /\ \/ At(p, "block") /\ TryAnother(p)
     \/ At(p, "release") /\ DoneWith(p)
  /\ LET j == offer[p].job
     IN \/ /\ Active(j)
           /\ runnerId[j] # None
           /\ Write({j}, "pending")
           /\ runnerId' = [runnerId EXCEPT ![j] = None]
        \/ UNCHANGED <<status, cleanup, runnerId>>
  /\ UNCHANGED <<jobConn, receipt, runStatus, connVars, expired, sent, settling,
                 acked, usedAttempts, brokerVars, crashes>>

\* SetJobStatus(failure): the statement names only the job, so it would also
\* overwrite another terminal status.
SetJobStatus(p) ==
  /\ At(p, "fail")
  /\ \/ /\ Write({offer[p].job}, "failure")
        /\ \/ Goto(p, "rollup") /\ UNCHANGED <<snapshot, offer>>
           \/ TryAnother(p)
     \/ /\ TryAnother(p)
        /\ UNCHANGED <<status, cleanup>>
  /\ UNCHANGED <<runnerId, jobConn, receipt, runStatus, connVars, expired, sent,
                 settling, acked, usedAttempts, brokerVars, crashes>>

\* rollUpRunStatus in a transaction of its own; an error is dropped.
RollUpRunStatus(j) ==
  runStatus' = [runStatus EXCEPT ![RunOf[j]] = Settled(RunOf[j], status)]

PumpRollsUp(p) ==
  /\ At(p, "rollup")
  /\ TryAnother(p)
  /\ RollUpRunStatus(offer[p].job) \/ UNCHANGED runStatus
  /\ UNCHANGED <<jobVars, connVars, cleanup, expired, sent, settling, acked,
                 usedAttempts, brokerVars, crashes>>

\* Where offer goes when the job cannot be started or sent.
GiveUp(p) ==
  Goto(p, IF offer[p].attempt = None THEN "release" ELSE "abandonRelease")

\* StartClaimedJob: job, outbox row and run change together or not at all.
StartClaimedJob(p) ==
  /\ At(p, "ready") \/ (At(p, "claimed") /\ offer[p].job \notin Secrets)
  /\ LET j == offer[p].job
         a == offer[p].attempt
     IN \/ /\ status[j] = "pending"
           /\ runnerId[j] = offer[p].runner
           /\ a # None => cleanup[j][a] = "preparing" /\ a \notin expired
           /\ status' = [status EXCEPT ![j] = "running"]
           /\ cleanup' = IF a = None THEN cleanup
                         ELSE [cleanup EXCEPT ![j][a] = "dispatched"]
           /\ runStatus' = IF runStatus[RunOf[j]] = "queued"
                           THEN [runStatus EXCEPT ![RunOf[j]] = "running"]
                           ELSE runStatus
           /\ Goto(p, "send") \/ GiveUp(p)
        \/ /\ GiveUp(p)
           /\ UNCHANGED <<status, cleanup, runStatus>>
  /\ UNCHANGED <<runnerId, jobConn, receipt, connVars, expired, snapshot, offer,
                 sent, settling, acked, usedAttempts, brokerVars, crashes>>

\* Mutant of DispatchTo: a message the channel accepted is reported as not
\* delivered, so the caller gives the claim back.
DispatchToMisreports(p) ==
  /\ At(p, "send")
  /\ \/ /\ registered[p][offer[p].runner] = offer[p].conn
        /\ sent' = sent \cup {offer[p]}
     \/ UNCHANGED sent
  /\ GiveUp(p)
  /\ UNCHANGED <<jobVars, runStatus, connVars, cleanup, expired, snapshot, offer,
                 settling, acked, usedAttempts, brokerVars, crashes>>

\* Mutant of DispatchTo: the message is built after offer's variables were cleared.
DispatchToAfterReturn(p) ==
  /\ At(p, "send")
  /\ \/ /\ registered[p][offer[p].runner] = offer[p].conn
        /\ DoneWith(p)
        /\ sent' = sent \cup {offer'[p]}
     \/ /\ GiveUp(p)
        /\ UNCHANGED <<sent, snapshot, offer>>
  /\ UNCHANGED <<jobVars, runStatus, connVars, cleanup, expired, settling, acked,
                 usedAttempts, brokerVars, crashes>>

\* DispatchTo: only the stream the claim was made for may carry the job.  A
\* full channel, or a cancelled pump, gives up as a missing stream does.
DispatchTo(p) ==
  /\ At(p, "send")
  /\ \/ /\ registered[p][offer[p].runner] = offer[p].conn
        /\ sent' = sent \cup {offer[p]}
        /\ DoneWith(p)
     \/ /\ GiveUp(p)
        /\ UNCHANGED <<sent, snapshot, offer>>
  /\ UNCHANGED <<jobVars, runStatus, connVars, cleanup, expired, settling, acked,
                 usedAttempts, brokerVars, crashes>>

(***************************************************************************)
(* Runner receipts, and the workers of credential_outbox.go.               *)
(***************************************************************************)

\* ReportStatus and recordRunnerReceipt at replica p: the first receipt of
\* the current incarnation is recorded; its exact repetition only repeats the
\* roll-up; anything else is refused.
ReportStatus(p, m, s) ==
  /\ connection[m.runner] = m.conn
  /\ runnerId[m.job] = m.runner
  /\ jobConn[m.job] = m.conn
  /\ \/ /\ Active(m.job)
        /\ Write({m.job}, s)
        /\ receipt' = [receipt EXCEPT ![m.job] = s]
     \/ /\ ~Active(m.job)
        /\ receipt[m.job] = s
        /\ UNCHANGED <<status, cleanup, receipt>>
  /\ settling' = settling \cup {<<p, m.job>>}
  /\ UNCHANGED <<runnerId, jobConn, runStatus, connVars, expired, pumpVars, sent,
                 acked, usedAttempts, brokerVars, crashes>>

\* The roll-up a receipt or a recovery is followed by.
RollUp(p, j) ==
  /\ <<p, j>> \in settling
  /\ settling' = settling \ {<<p, j>>}
  /\ RollUpRunStatus(j) \/ UNCHANGED runStatus
  /\ UNCHANGED <<jobVars, connVars, cleanup, expired, pumpVars, sent, acked,
                 usedAttempts, brokerVars, crashes>>

\* credentialPreparationLimit passes.
PreparationExpires(a) ==
  /\ a \notin expired
  /\ \E j \in Jobs : cleanup[j][a] = "preparing"
  /\ expired' = expired \cup {a}
  /\ UNCHANGED <<jobVars, runStatus, connVars, cleanup, pumpVars, sent, settling,
                 acked, usedAttempts, brokerVars, crashes>>

\* recoverCredentialPreparation: a pending job with an expired preparation,
\* of whichever attempt, fails.
RecoverCredentialPreparation(p, j) ==
  /\ status[j] = "pending"
  /\ \E a \in expired : cleanup[j][a] = "preparing"
  /\ Write({j}, "failure")
  /\ settling' = settling \cup {<<p, j>>}
  /\ UNCHANGED <<runnerId, jobConn, receipt, runStatus, connVars, expired, pumpVars,
                 sent, acked, usedAttempts, brokerVars, crashes>>

\* Mutant of CleanupRPC: the broker is asked to close the whole job, whichever
\* attempt the row is of.
CleanupRPCClosesJob(p, j, a) ==
  /\ cleanup[j][a] = "cleanup"
  /\ RevokeRunLeases(j, Nil)
  /\ \/ /\ \A b \in Attempts : lease'[j][b] \in {"none", "revoked"}
        /\ acked' = acked \cup {<<p, j, a>>}
     \/ UNCHANGED acked
  /\ UNCHANGED <<jobVars, runStatus, connVars, cleanup, expired, pumpVars, sent,
                 settling, usedAttempts, inflight, crashes>>

\* Mutant of CleanupRPC: any answer counts as an acknowledgement, revocations
\* still pending or not.
CleanupRPCIgnoresPending(p, j, a) ==
  /\ cleanup[j][a] = "cleanup"
  /\ RevokeRunLeases(j, a)
  /\ acked' = acked \cup {<<p, j, a>>} \/ UNCHANGED acked
  /\ UNCHANGED <<jobVars, runStatus, connVars, cleanup, expired, pumpVars, sent,
                 settling, usedAttempts, inflight, crashes>>

\* retryCredentialCleanup, up to the broker's answer: only "fenced, nothing
\* pending" is an acknowledgement, and the answer may be lost.
CleanupRPC(p, j, a) ==
  /\ cleanup[j][a] = "cleanup"
  /\ RevokeRunLeases(j, a)
  /\ \/ /\ \A b \in Scope(a) : lease'[j][b] \in {"none", "revoked"}
        /\ acked' = acked \cup {<<p, j, a>>}
     \/ UNCHANGED acked
  /\ UNCHANGED <<jobVars, runStatus, connVars, cleanup, expired, pumpVars, sent,
                 settling, usedAttempts, inflight, crashes>>

\* Mutant of CleanupDelete: an acknowledged row is kept, so the obligation is
\* retried for ever.
CleanupDeleteKeeps(p, j, a) ==
  /\ <<p, j, a>> \in acked
  /\ acked' = acked \ {<<p, j, a>>}
  /\ UNCHANGED <<jobVars, runStatus, connVars, cleanup, expired, pumpVars, sent,
                 settling, usedAttempts, brokerVars, crashes>>

\* retryCredentialCleanup, the deletion of the discharged row.
CleanupDelete(p, j, a) ==
  /\ <<p, j, a>> \in acked
  /\ acked' = acked \ {<<p, j, a>>}
  /\ cleanup' = IF cleanup[j][a] = "cleanup"
                THEN [cleanup EXCEPT ![j][a] = "none"] ELSE cleanup
  /\ UNCHANGED <<jobVars, runStatus, connVars, expired, pumpVars, sent, settling,
                 usedAttempts, brokerVars, crashes>>

\* A replica's process dies: its streams close without EndRunnerConnection,
\* and everything it held in memory is gone.
Crash(p) ==
  /\ crashes < MaxCrashes
  /\ crashes' = crashes + 1
  /\ stream' = [c \in Conns |-> IF hostOf[c] = p THEN "closed" ELSE stream[c]]
  /\ registered' = [registered EXCEPT ![p] = [r \in Runners |-> None]]
  /\ snapshot' = [snapshot EXCEPT ![p] = {}]
  /\ Goto(p, "idle")
  /\ offer' = [offer EXCEPT ![p] = NoOffer]
  /\ settling' = {x \in settling : x[1] # p}
  /\ acked' = {x \in acked : x[1] # p}
  /\ UNCHANGED <<jobVars, runStatus, connection, runnerOf, hostOf, cleanup, expired,
                 sent, usedAttempts, brokerVars>>

ConnectionStep ==
  \/ \E p \in Replicas, r \in Runners, c \in Conns : BeginRunnerConnection(p, r, c)
  \/ \E c \in Conns : ActivateConnection(c)
  \/ \E c \in Conns : UnregisterConnection(c)
  \/ \E c \in Conns : EndRunnerConnection(c)

PumpStep(p) ==
  \/ Tick(p) \/ ClaimForDispatch(p) \/ CloneURLFails(p) \/ PrepareCredentials(p)
  \/ IssueJobLease(p) \/ IssueReturns(p) \/ RedeemJobLease(p) \/ RevokeAttempt(p)
  \/ AbandonCredentials(p) \/ BlockJob(p) \/ SetJobStatus(p) \/ PumpRollsUp(p)
  \/ StartClaimedJob(p) \/ DispatchTo(p)

WorkerStep(p) ==
  \/ \E m \in sent, s \in {"success", "failure"} : ReportStatus(p, m, s)
  \/ \E j \in Jobs : RollUp(p, j)
  \/ \E j \in Jobs : RecoverCredentialPreparation(p, j)
  \/ \E j \in Jobs, a \in Rows : CleanupRPC(p, j, a)
  \/ \E j \in Jobs, a \in Rows : CleanupDelete(p, j, a)

BrokerStep ==
  \/ \E j \in Jobs, a \in Attempts : BrokerIssue(j, a)
  \/ \E j \in Jobs, a \in Attempts : RetryRevocations(j, a)

Next ==
  \/ ConnectionStep
  \/ \E p \in Replicas : PumpStep(p) \/ WorkerStep(p) \/ Crash(p)
  \/ BrokerStep
  \/ \E a \in Attempts : PreparationExpires(a)

Spec == Init /\ [][Next]_vars

\* The cleanup worker of every replica runs every five seconds and its claim
\* on a row expires (runCredentialCleanup), so an obligation is retried until
\* the broker acknowledges it; the broker's own worker retries revocations,
\* and the provider is assumed to confirm one eventually.
CleanupFairness ==
  /\ \A j \in Jobs, a \in Rows :
       /\ WF_vars(\E p \in Replicas : CleanupRPC(p, j, a) /\ <<p, j, a>> \in acked')
       /\ WF_vars(\E p \in Replicas : CleanupDelete(p, j, a))
  /\ \A j \in Jobs, a \in Attempts : WF_vars(RetryRevocations(j, a))

\* A replica that is up finishes the calls it has begun.
ProcessFairness ==
  \A p \in Replicas : /\ WF_vars(PumpStep(p))
                      /\ \A j \in Jobs : WF_vars(RollUp(p, j))

FairSpec == Spec /\ CleanupFairness /\ ProcessFairness

(***************************************************************************)
(* Properties.                                                             *)
(***************************************************************************)

JobTypes ==
  /\ status \in [Jobs -> JobStatus]
  /\ runnerId \in [Jobs -> Runners \cup {None}]
  /\ jobConn \in [Jobs -> Conns \cup {None}]
  /\ receipt \in [Jobs -> Terminal \cup {None}]
  /\ runStatus \in [Runs -> RunStatus]

ConnTypes ==
  /\ connection \in [Runners -> Conns \cup {None}]
  /\ stream \in [Conns -> {"unused", "activating", "open", "closing", "closed"}]
  /\ runnerOf \in [Conns -> Runners \cup {None}]
  /\ hostOf \in [Conns -> Replicas \cup {None}]
  /\ \A c \in Conns : stream[c] # "unused" \/ hostOf[c] # None
                       => runnerOf[c] \in Runners /\ hostOf[c] \in Replicas
  /\ registered \in [Replicas -> [Runners -> Conns \cup {None}]]

PumpTypes ==
  /\ snapshot \in [Replicas -> SUBSET (Runners \X Conns)]
  /\ pc \in [Replicas -> PumpSteps]
  /\ offer \in [Replicas -> Offers]
  /\ sent \subseteq Messages

OutboxTypes ==
  /\ cleanup \in [Jobs -> [Rows -> Phases]]
  /\ expired \subseteq Attempts
  /\ usedAttempts \subseteq Attempts
  /\ settling \subseteq Replicas \X Jobs
  /\ acked \subseteq Replicas \X Jobs \X Rows
  /\ crashes \in 0 .. MaxCrashes

BrokerTypes ==
  /\ inflight \subseteq Jobs \X Attempts
  /\ lease \in [Jobs -> [Attempts -> Leases]]
  /\ fence \in [Jobs -> SUBSET Rows]

\* Every variable has the type of the table, map or process state it models.
TypeOK == JobTypes /\ ConnTypes /\ PumpTypes /\ OutboxTypes /\ BrokerTypes

\* A job that was written to a runner's stream and has not finished is still
\* running under exactly that runner and connection, and no pump is working
\* on it: nobody can start it a second time while it may be executing.
\* BlockJob and SetJobStatus name no claimant, so this rests on a claim
\* never outliving the offer that made it.
SentJobIsOwned ==
  \A m \in sent :
    Active(m.job) =>
      /\ status[m.job] = "running"
      /\ runnerId[m.job] = m.runner
      /\ jobConn[m.job] = m.conn
      /\ \A p \in Replicas : pc[p] # "idle" => offer[p].job # m.job

\* At most one execution of an unfinished job is out on the streams: two
\* pumps, or two replicas, cannot hand the same job to two runners.
SingleExecution ==
  \A m, n \in sent : m.job = n.job /\ Active(m.job) => m = n

\* A job on a runner keeps the credentials it was sent with: while it runs,
\* its attempt is dispatched, and its lease neither revoked nor being revoked,
\* whatever the preparation timer and the cleanup worker do meanwhile.
RunningJobKeepsCredentials ==
  \A m \in sent :
    status[m.job] = "running" /\ m.attempt # None =>
      /\ cleanup[m.job][m.attempt] = "dispatched"
      /\ lease[m.job][m.attempt] = "issued"

\* No credential is forgotten: a lease that is not yet revoked has an outbox
\* row, and so does an issuance still in flight unless the broker will refuse it.
LeaseHasObligation ==
  \A j \in Jobs, a \in Attempts :
    Outstanding(j, a) \/ (<<j, a>> \in inflight /\ ~Closed(j, a))
      => cleanup[j][a] # "none"

\* A settled run tells the truth about its jobs: all of them are terminal, and
\* it succeeded exactly when all of them did.
SettledRunAgrees ==
  \A u \in Runs :
    runStatus[u] \in Terminal =>
      /\ \A j \in JobsOf(u) : ~Active(j)
      /\ runStatus[u] = "success" <=> \A j \in JobsOf(u) : status[j] = "success"

\* A job is out on a stream only after everything it needs has succeeded, and
\* what it needs is still recorded as a success.
NeedsSucceeded ==
  \A m \in sent : \A d \in Needs[m.job] : status[d] = "success"

\* A terminal job and a settled run keep their outcome.  The trigger only
\* forbids leaving the terminal statuses; that SetJobStatus never turns one
\* outcome into another rests on the claims.
OutcomeIsFinal ==
  [][ /\ \A j \in Jobs : ~Active(j) => status'[j] = status[j]
      /\ \A u \in Runs : runStatus[u] \in Terminal => runStatus'[u] = runStatus[u] ]_vars

\* A terminal job ends clean: in the end no lease of it is outstanding and no
\* cleanup row is left, through lost answers, crashes and late issuances.
TerminalJobEndsClean ==
  \A j \in Jobs :
    ~Active(j) ~> /\ \A a \in Rows : cleanup[j][a] = "none"
                  /\ \A a \in Attempts : ~Outstanding(j, a)

=============================================================================
