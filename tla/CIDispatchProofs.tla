-------------------------- MODULE CIDispatchProofs --------------------------
(***************************************************************************)
(* Proofs about CIDispatch, for every set of jobs, runs, runners, replicas,*)
(* connections and attempts.  The invariants below are inductive one after *)
(* the other: the local variables of offer fit the pump's step (OfferInv), *)
(* an active job is held by the one offer that claimed it (ClaimInv), what *)
(* it needs has succeeded (NeedsInv), every credential has an obligation   *)
(* (ObligationInv), and a running job keeps its own (CredentialInv).       *)
(***************************************************************************)
EXTENDS CIDispatch, TLAPS

Resolving == {"resolve", "issuing", "redeem"}

\* The steps at which offer has drawn a credential attempt.
HasAttempt == Resolving \cup {"ready", "revokeBlock", "revokeFail", "abandonBlock",
                              "abandonRelease", "abandonFail"}

\* The local variables of offer agree with where the pump stands.
OfferInv ==
  \A p \in Replicas :
    /\ pc[p] = "idle" => offer[p] = NoOffer
    /\ pc[p] # "idle" => /\ offer[p].runner \in Runners
                         /\ offer[p].conn \in Conns
                         /\ offer[p].job \in Jobs
    /\ pc[p] = "claimed" => offer[p].attempt = None
    /\ pc[p] \in HasAttempt => offer[p].attempt \in Attempts
    /\ offer[p].attempt # None => offer[p].job \in Secrets

\* A pump working on an active job holds its claim, alone; the job runs once
\* it has been started; and if it is terminal it has failed.
Holds(p) ==
  LET j == offer[p].job
  IN /\ Active(j) => runnerId[j] = offer[p].runner /\ jobConn[j] = offer[p].conn
     /\ ~Active(j) => status[j] = "failure"
     /\ pc[p] = "send" /\ Active(j) => status[j] = "running"
     /\ \A q \in Replicas : q # p /\ offer[q].job = j => ~Active(j)

HoldInv == \A p \in Replicas : pc[p] # "idle" => Holds(p)

ClaimInv == HoldInv /\ SentJobIsOwned /\ SingleExecution

\* What a claimed or sent job needs has succeeded.
NeedsInv ==
  /\ \A p \in Replicas : pc[p] # "idle" =>
       \A d \in Needs[offer[p].job] : status[d] = "success"
  /\ NeedsSucceeded

\* The steps at which an attempt may still get its credentials, or lose them.
Preparing == Resolving \cup {"ready", "revokeBlock", "revokeFail"}

\* The steps at which no issuance of the attempt is in flight.
Answered == {"resolve", "redeem", "ready"}

\* "Fenced, nothing pending" stays true until the row it answers is deleted.
AckedInv ==
  \A p \in Replicas, j \in Jobs, a \in Rows : <<p, j, a>> \in acked =>
    /\ a \in fence[j]
    /\ \A b \in Scope(a) : ~Outstanding(j, b)

\* An attempt that is being resolved has its row, or its scope is closed.
ResolvingInv ==
  \A p \in Replicas : pc[p] \in Resolving =>
    \/ cleanup[offer[p].job][offer[p].attempt] # "none"
    \/ Closed(offer[p].job, offer[p].attempt)

ObligationInv == LeaseHasObligation /\ AckedInv /\ ResolvingInv

\* An attempt is drawn once: it belongs to one offer, then to one message.
AttemptInv ==
  /\ \A p \in Replicas : offer[p].attempt # None =>
       /\ offer[p].attempt \in usedAttempts
       /\ \A q \in Replicas : q # p => offer[q].attempt # offer[p].attempt
  /\ \A m \in sent : m.attempt # None =>
       /\ m.attempt \in usedAttempts
       /\ \A p \in Replicas : offer[p].attempt # m.attempt
  /\ \A j \in Jobs, a \in Attempts : <<j, a>> \in inflight => a \in usedAttempts

\* The rows of a terminal job are due for cleanup, the nil row is there only
\* then, and the credentials of a dispatched row are alive and complete.
RowOK(j, a) ==
  /\ j \notin Secrets => cleanup[j][a] = "none"
  /\ ~Active(j) => cleanup[j][a] \in {"none", "cleanup"}
  /\ cleanup[j][a] = "dispatched" => lease[j][a] = "issued" /\ <<j, a>> \notin inflight

RowInv ==
  /\ \A j \in Jobs, a \in Attempts : RowOK(j, a)
  /\ \A j \in Jobs : cleanup[j][Nil] # "none" => ~Active(j)

\* The attempt of an offer, at the outbox and at the broker.
Prepared(p) ==
  LET j == offer[p].job
      a == offer[p].attempt
  IN /\ pc[p] \in Preparing => cleanup[j][a] # "dispatched"
     /\ pc[p] \in Answered => <<j, a>> \notin inflight
     /\ pc[p] = "ready" /\ cleanup[j][a] = "preparing" => lease[j][a] = "issued"
     /\ pc[p] = "send" /\ a # None /\ status[j] = "running" => cleanup[j][a] = "dispatched"

PreparedInv == \A p \in Replicas : Prepared(p)

\* A running job that was sent has a dispatched row.
SentInv ==
  \A m \in sent : status[m.job] = "running" /\ m.attempt # None
                    => cleanup[m.job][m.attempt] = "dispatched"

CredentialInv == AttemptInv /\ RowInv /\ PreparedInv /\ SentInv

-----------------------------------------------------------------------------
(***************************************************************************)
(* Type correctness.  It is not inductive alone: that the broker is asked  *)
(* for an attempt, and that a stream is given a job, rests on OfferInv.    *)
(***************************************************************************)

USE DEF jobVars, connVars, pumpVars, brokerVars

\* A group of variables that a step leaves alone keeps its types.
LEMMA JobFrame == JobTypes /\ UNCHANGED <<jobVars, runStatus>> => JobTypes'
BY DEF JobTypes

\* A step that leaves the connections alone keeps their types.
LEMMA ConnFrame == ConnTypes /\ UNCHANGED connVars => ConnTypes'
BY DEF ConnTypes

\* A step that leaves the dispatch loops and sent jobs alone keeps their types.
LEMMA PumpFrame == PumpTypes /\ UNCHANGED <<pumpVars, sent>> => PumpTypes'
BY DEF PumpTypes

\* A step that leaves the delivery outbox alone keeps its types.
LEMMA OutboxFrame ==
  OutboxTypes /\ UNCHANGED <<cleanup, expired, usedAttempts, settling, acked, crashes>>
    => OutboxTypes'
BY DEF OutboxTypes

\* A step that leaves the credential broker alone keeps its types.
LEMMA BrokerFrame == BrokerTypes /\ UNCHANGED brokerVars => BrokerTypes'
BY DEF BrokerTypes

\* An offer is described by pc and offer alone.
LEMMA OfferFrame == OfferInv /\ UNCHANGED <<pc, offer>> => OfferInv'
BY DEF OfferInv

\* Settled is a status of a run.
LEMMA SettledType ==
  ASSUME JobTypes, NEW u \in Runs, NEW st
  PROVE  Settled(u, st) \in RunStatus
BY DEF Settled, JobTypes, RunStatus, Terminal

\* The trigger only writes phases.
LEMMA FenceRowsType ==
  ASSUME OutboxTypes, NEW J
  PROVE  FenceRows(J) \in [Jobs -> [Rows -> Phases]]
BY DEF FenceRows, OutboxTypes, Phases

\* Write keeps the types of what it writes.
LEMMA WriteType ==
  ASSUME JobTypes, OutboxTypes, NEW J, NEW s \in JobStatus, Write(J, s)
  PROVE  /\ status' \in [Jobs -> JobStatus]
         /\ cleanup' \in [Jobs -> [Rows -> Phases]]
<1>1. status' \in [Jobs -> JobStatus]
  BY DEF Write, JobTypes
<1>2. cleanup' \in [Jobs -> [Rows -> Phases]]
  BY FenceRowsType DEF Write, OutboxTypes
<1> QED
  BY <1>1, <1>2

\* So does Interrupt.
LEMMA InterruptType ==
  ASSUME JobTypes, OutboxTypes, NEW J, Interrupt(J)
  PROVE  /\ status' \in [Jobs -> JobStatus]
         /\ cleanup' \in [Jobs -> [Rows -> Phases]]
         /\ runStatus' \in [Runs -> RunStatus]
<1>1. "failure" \in JobStatus
  BY DEF JobStatus, Terminal
<1>2. Write(J, "failure")
  BY DEF Interrupt
<1>3. runStatus' \in [Runs -> RunStatus]
  BY SettledType DEF Interrupt, JobTypes
<1> QED
  BY <1>1, <1>2, <1>3, WriteType

\* So does the roll-up of a job's run.
LEMMA RollUpType ==
  ASSUME JobTypes, NEW j \in Jobs, RollUpRunStatus(j)
  PROVE  runStatus' \in [Runs -> RunStatus]
BY SettledType, DispatchAssumption DEF RollUpRunStatus, JobTypes

\* A pump that moves to another step of offer.
LEMMA GotoType ==
  ASSUME PumpTypes, NEW p \in Replicas, NEW step \in PumpSteps, Goto(p, step)
  PROVE  pc' \in [Replicas -> PumpSteps]
BY DEF PumpTypes, Goto

\* Moving keeps OfferInv if the step's demands on the attempt are met.
LEMMA GotoOffer ==
  ASSUME PumpTypes, OfferInv, NEW p \in Replicas, NEW step \in PumpSteps,
         Goto(p, step), UNCHANGED offer,
         pc[p] # "idle", step \notin {"idle", "claimed"},
         step \in HasAttempt => offer[p].attempt \in Attempts
  PROVE  OfferInv'
<1>1. \A q \in Replicas : pc'[q] = IF q = p THEN step ELSE pc[q]
  BY DEF PumpTypes, Goto
<1> QED
  BY <1>1 DEF OfferInv

\* A pump whose offer is over.
LEMMA ReturnType ==
  ASSUME PumpTypes, OfferInv, NEW p \in Replicas, Return(p)
  PROVE  /\ pc' \in [Replicas -> PumpSteps]
         /\ offer' \in [Replicas -> Offers]
         /\ OfferInv'
<1>1. NoOffer \in Offers /\ "idle" \in PumpSteps
  BY DEF NoOffer, Offers, PumpSteps
<1>2. pc' \in [Replicas -> PumpSteps] /\ offer' \in [Replicas -> Offers]
  BY <1>1 DEF Return, Goto, PumpTypes
<1>3. /\ \A q \in Replicas : pc'[q] = IF q = p THEN "idle" ELSE pc[q]
      /\ \A q \in Replicas : offer'[q] = IF q = p THEN NoOffer ELSE offer[q]
  BY DEF Return, Goto, PumpTypes
<1>4. NoOffer.attempt = None
  BY DEF NoOffer
<1>5. OfferInv'
  BY <1>3, <1>4 DEF OfferInv, HasAttempt, Resolving
<1> QED
  BY <1>2, <1>5

\* A pump that moves on to its next runner keeps the type of its snapshot.
LEMMA DropRunnerType ==
  ASSUME PumpTypes, NEW p \in Replicas, DropRunner(p)
  PROVE  snapshot' \in [Replicas -> SUBSET (Runners \X Conns)]
BY DEF DropRunner, PumpTypes

\* offer returned, sending nothing.
LEMMA TryAnotherType ==
  ASSUME PumpTypes, OfferInv, NEW p \in Replicas, TryAnother(p), UNCHANGED sent
  PROVE  PumpTypes' /\ OfferInv'
<1>1. snapshot' \in [Replicas -> SUBSET (Runners \X Conns)]
  BY DropRunnerType DEF TryAnother, PumpTypes
<1> QED
  BY <1>1, ReturnType DEF TryAnother, PumpTypes

\* An offer that ends leaves the pump with its types.
LEMMA DoneWithType ==
  ASSUME PumpTypes, OfferInv, NEW p \in Replicas, DoneWith(p), UNCHANGED sent
  PROVE  PumpTypes' /\ OfferInv'
BY TryAnotherType DEF DoneWith, TryAnother

\* The broker's tables when a scope is closed.
LEMMA RevokeType ==
  ASSUME BrokerTypes, NEW j \in Jobs, NEW a \in Rows, RevokeRunLeases(j, a),
         UNCHANGED inflight
  PROVE  BrokerTypes'
<1>1. fence' \in [Jobs -> SUBSET Rows]
  BY DEF RevokeRunLeases, BrokerTypes
<1>2. lease' \in [Jobs -> [Attempts -> Leases]]
  BY DEF RevokeRunLeases, BrokerTypes, Leases
<1> QED
  BY <1>1, <1>2 DEF BrokerTypes

\* The steps of the Connect streams keep the types.
LEMMA ConnectionTypes ==
  ASSUME TypeOK, OfferInv, ConnectionStep
  PROVE  TypeOK' /\ OfferInv'
<1> USE DEF TypeOK
<1>1. ASSUME NEW p \in Replicas, NEW r \in Runners, NEW c \in Conns,
             BeginRunnerConnection(p, r, c)
      PROVE  TypeOK' /\ OfferInv'
  <2>1. PICK J : Interrupt(J)
    BY <1>1 DEF BeginRunnerConnection
  <2>2. JobTypes'
    BY <1>1, <2>1, InterruptType DEF BeginRunnerConnection, JobTypes
  <2>3. OutboxTypes'
    BY <1>1, <2>1, InterruptType DEF BeginRunnerConnection, OutboxTypes
  <2>4. ConnTypes'
    BY <1>1 DEF BeginRunnerConnection, ConnTypes
  <2> QED
    BY <1>1, <2>2, <2>3, <2>4, PumpFrame, BrokerFrame, OfferFrame DEF BeginRunnerConnection
<1>2. ASSUME NEW c \in Conns, ActivateConnection(c)
      PROVE  TypeOK' /\ OfferInv'
  <2>1. ConnTypes'
    BY <1>2 DEF ActivateConnection, ConnTypes
  <2> QED
    BY <1>2, <2>1, JobFrame, PumpFrame, OutboxFrame, BrokerFrame, OfferFrame DEF ActivateConnection
<1>3. ASSUME NEW c \in Conns, UnregisterConnection(c)
      PROVE  TypeOK' /\ OfferInv'
  <2>1. ConnTypes'
    BY <1>3 DEF UnregisterConnection, ConnTypes
  <2> QED
    BY <1>3, <2>1, JobFrame, PumpFrame, OutboxFrame, BrokerFrame, OfferFrame DEF UnregisterConnection
<1>4. ASSUME NEW c \in Conns, EndRunnerConnection(c)
      PROVE  TypeOK' /\ OfferInv'
  <2>1. \/ \E J : Interrupt(J)
        \/ UNCHANGED <<status, cleanup, runStatus>>
    BY <1>4 DEF EndRunnerConnection
  <2>2. /\ status' \in [Jobs -> JobStatus]
        /\ cleanup' \in [Jobs -> [Rows -> Phases]]
        /\ runStatus' \in [Runs -> RunStatus]
    BY <2>1, InterruptType DEF JobTypes, OutboxTypes
  <2>3. ConnTypes'
    BY <1>4 DEF EndRunnerConnection, ConnTypes
  <2>4. JobTypes' /\ OutboxTypes'
    BY <1>4, <2>2 DEF EndRunnerConnection, JobTypes, OutboxTypes
  <2> QED
    BY <1>4, <2>3, <2>4, PumpFrame, BrokerFrame, OfferFrame DEF EndRunnerConnection
<1> QED
  BY <1>1, <1>2, <1>3, <1>4 DEF ConnectionStep

\* Claiming a job keeps the types.
LEMMA ClaimTypes ==
  ASSUME TypeOK, OfferInv, NEW p \in Replicas, ClaimForDispatch(p)
  PROVE  TypeOK' /\ OfferInv'
<1> USE DEF TypeOK
<1>1. PICK r \in Runners, c \in Conns :
        \/ \E j \in Jobs : Claim(r, c, j) /\ (BeginOffer(p, r, c, j) \/ NextRunner(p, r, c))
        \/ NextRunner(p, r, c) /\ UNCHANGED <<runnerId, jobConn>>
  BY DEF ClaimForDispatch
<1>2. runnerId' \in [Jobs -> Runners \cup {None}] /\ jobConn' \in [Jobs -> Conns \cup {None}]
  BY <1>1 DEF Claim, JobTypes
<1>3. JobTypes'
  BY <1>2 DEF ClaimForDispatch, JobTypes
<1>4. ASSUME NextRunner(p, r, c)
      PROVE  PumpTypes' /\ OfferInv'
  <2>1. snapshot' \in [Replicas -> SUBSET (Runners \X Conns)]
    BY <1>4 DEF NextRunner, PumpTypes
  <2> QED
    BY <1>4, <2>1, OfferFrame DEF NextRunner, ClaimForDispatch, PumpTypes
<1>5. ASSUME NEW j \in Jobs, BeginOffer(p, r, c, j)
      PROVE  PumpTypes' /\ OfferInv'
  <2> DEFINE o == [runner |-> r, conn |-> c, job |-> j, attempt |-> None]
  <2>1. o \in Offers /\ "claimed" \in PumpSteps
    BY DEF Offers, PumpSteps
  <2>2. PumpTypes'
    BY <1>5, <2>1 DEF BeginOffer, Goto, ClaimForDispatch, PumpTypes
  <2>3. /\ \A q \in Replicas : pc'[q] = IF q = p THEN "claimed" ELSE pc[q]
        /\ \A q \in Replicas : offer'[q] = IF q = p THEN o ELSE offer[q]
    BY <1>5 DEF BeginOffer, Goto, PumpTypes
  <2>4. o.runner = r /\ o.conn = c /\ o.job = j /\ o.attempt = None
    OBVIOUS
  <2> HIDE DEF o
  <2>5. OfferInv'
    BY <2>3, <2>4 DEF OfferInv, HasAttempt, Resolving
  <2> QED
    BY <2>2, <2>5
<1>6. PumpTypes' /\ OfferInv'
  BY <1>1, <1>4, <1>5
<1> QED
  BY <1>3, <1>6, ConnFrame, OutboxFrame, BrokerFrame DEF ClaimForDispatch

\* Writing one row of the outbox.
LEMMA SetRowType ==
  ASSUME OutboxTypes, NEW j \in Jobs, NEW a \in Rows, NEW ph \in Phases,
         cleanup' = [cleanup EXCEPT ![j][a] = ph]
  PROVE  cleanup' \in [Jobs -> [Rows -> Phases]]
BY DEF OutboxTypes

\* Drawing an attempt and writing its row keeps the types.
LEMMA PrepareTypes ==
  ASSUME TypeOK, OfferInv, NEW p \in Replicas, PrepareCredentials(p)
  PROVE  TypeOK' /\ OfferInv'
<1> USE DEF TypeOK
<1>0. /\ offer[p] \in Offers /\ offer[p].job \in Jobs /\ offer[p].job \in Secrets
      /\ offer[p].runner \in Runners /\ offer[p].conn \in Conns /\ pc[p] = "claimed"
  BY DEF PrepareCredentials, At, OfferInv, PumpTypes
<1>1. PICK a \in Attempts \ usedAttempts :
        /\ usedAttempts' = usedAttempts \cup {a}
        /\ offer' = [offer EXCEPT ![p] =
             [runner |-> offer[p].runner, conn |-> offer[p].conn,
              job |-> offer[p].job, attempt |-> a]]
        /\ \/ cleanup' = [cleanup EXCEPT ![offer[p].job][a] = "preparing"]
           \/ UNCHANGED cleanup
  BY DEF PrepareCredentials
<1>2. cleanup' \in [Jobs -> [Rows -> Phases]]
  <2>1. a \in Rows /\ "preparing" \in Phases
    BY DEF Rows, Phases
  <2> QED
    BY <1>0, <1>1, <2>1, SetRowType DEF OutboxTypes
<1>3. OutboxTypes'
  BY <1>1, <1>2 DEF PrepareCredentials, OutboxTypes
<1>4. PICK step \in {"resolve", "block"} : Goto(p, step)
  BY DEF PrepareCredentials
<1> DEFINE o == [runner |-> offer[p].runner, conn |-> offer[p].conn,
                 job |-> offer[p].job, attempt |-> a]
<1>5. /\ o.runner = offer[p].runner /\ o.conn = offer[p].conn
      /\ o.job = offer[p].job /\ o.attempt = a /\ o \in Offers
  BY <1>0 DEF Offers
<1> HIDE DEF o
<1>6. /\ \A q \in Replicas : pc'[q] = IF q = p THEN step ELSE pc[q]
      /\ \A q \in Replicas : offer'[q] = IF q = p THEN o ELSE offer[q]
      /\ offer' \in [Replicas -> Offers]
      /\ pc' \in [Replicas -> PumpSteps]
  BY <1>1, <1>4, <1>5 DEF Goto, PumpTypes, o, PumpSteps
<1>7. OfferInv'
  BY <1>0, <1>5, <1>6 DEF OfferInv, HasAttempt, Resolving
<1>8. PumpTypes'
  BY <1>6 DEF PumpTypes, PrepareCredentials
<1> QED
  BY <1>3, <1>7, <1>8, JobFrame, ConnFrame, BrokerFrame DEF PrepareCredentials

\* A pump that only moves to another step of offer keeps the types.
LEMMA MoveTypes ==
  ASSUME PumpTypes, OfferInv, NEW p \in Replicas,
         \E step \in PumpSteps \ {"idle", "claimed"} :
           /\ Goto(p, step)
           /\ step \in HasAttempt => offer[p].attempt \in Attempts,
         UNCHANGED <<snapshot, offer, sent>>, pc[p] # "idle"
  PROVE  PumpTypes' /\ OfferInv'
<1>1. PICK step \in PumpSteps \ {"idle", "claimed"} :
        /\ Goto(p, step)
        /\ step \in HasAttempt => offer[p].attempt \in Attempts
  OBVIOUS
<1>2. PumpTypes'
  BY <1>1, GotoType DEF PumpTypes
<1>3. OfferInv'
  BY <1>1, GotoOffer
<1> QED
  BY <1>2, <1>3

\* GiveUp only asks for an attempt to be abandoned if there is one.
LEMMA GiveUpTypes ==
  ASSUME PumpTypes, OfferInv, NEW p \in Replicas, GiveUp(p), pc[p] # "idle",
         UNCHANGED <<snapshot, offer, sent>>
  PROVE  PumpTypes' /\ OfferInv'
<1>1. offer[p].attempt \in Attempts \cup {None}
  BY DEF PumpTypes, Offers
<1>2. {"release", "abandonRelease"} \subseteq PumpSteps \ {"idle", "claimed"}
  BY DEF PumpSteps
<1>3. "release" \notin HasAttempt
  BY DEF HasAttempt, Resolving
<1>4. \E step \in PumpSteps \ {"idle", "claimed"} :
        /\ Goto(p, step)
        /\ step \in HasAttempt => offer[p].attempt \in Attempts
  BY <1>1, <1>2, <1>3 DEF GiveUp
<1> QED
  BY <1>4, MoveTypes

\* The pump's own steps keep the types.
LEMMA PumpStepTypes ==
  ASSUME TypeOK, OfferInv, NEW p \in Replicas, PumpStep(p)
  PROVE  TypeOK' /\ OfferInv'
<1> USE DEF TypeOK
<1> DEFINE o == offer[p]
           Moves(S) == \E step \in S : Goto(p, step)
<1>a. ASSUME pc[p] \in HasAttempt
      PROVE  o.attempt \in Attempts /\ o.attempt \in Rows /\ o.job \in Jobs /\ pc[p] # "idle"
  BY <1>a DEF OfferInv, HasAttempt, Resolving, Rows
<1>b. ASSUME pc[p] # "idle"
      PROVE  o.job \in Jobs /\ o.runner \in Runners /\ o.conn \in Conns
  BY <1>b DEF OfferInv
<1>c. ASSUME NEW S, S \subseteq PumpSteps \ {"idle", "claimed"}, Moves(S),
             pc[p] \in HasAttempt \/ S \cap HasAttempt = {}, pc[p] # "idle",
             UNCHANGED <<snapshot, offer, sent>>
      PROVE  PumpTypes' /\ OfferInv'
  BY <1>a, <1>c, MoveTypes
<1> HIDE DEF o
<1>1. CASE Tick(p)
  <2>1. snapshot' \in [Replicas -> SUBSET (Runners \X Conns)]
    BY <1>1 DEF Tick, PumpTypes, ConnTypes
  <2>2. PumpTypes'
    BY <1>1, <2>1 DEF Tick, PumpTypes
  <2> QED
    BY <1>1, <2>2, JobFrame, ConnFrame, OutboxFrame, BrokerFrame, OfferFrame DEF Tick
<1>2. CASE ClaimForDispatch(p)
  BY <1>2, ClaimTypes
<1>3. CASE CloneURLFails(p)
  <2>1. Moves({"fail"}) /\ pc[p] = "claimed"
    BY <1>3 DEF CloneURLFails, At
  <2>2. PumpTypes' /\ OfferInv'
    BY <1>3, <1>c, <2>1 DEF CloneURLFails, PumpSteps, HasAttempt, Resolving
  <2> QED
    BY <1>3, <2>2, JobFrame, ConnFrame, OutboxFrame, BrokerFrame DEF CloneURLFails
<1>4. CASE PrepareCredentials(p)
  BY <1>4, PrepareTypes
<1>5. CASE IssueJobLease(p)
  <2>1. Moves({"issuing"}) /\ pc[p] = "resolve"
    BY <1>5 DEF IssueJobLease, At
  <2>2. PumpTypes' /\ OfferInv'
    BY <1>5, <1>c, <2>1 DEF IssueJobLease, PumpSteps, HasAttempt, Resolving
  <2>3. o.attempt \in Attempts /\ o.job \in Jobs
    BY <2>1, <1>a DEF HasAttempt, Resolving
  <2>4. BrokerTypes'
    BY <1>5, <2>3 DEF IssueJobLease, BrokerTypes, o
  <2> QED
    BY <1>5, <2>2, <2>4, JobFrame, ConnFrame, OutboxFrame DEF IssueJobLease
<1>6. CASE IssueReturns(p)
  <2>1. Moves({"redeem", "revokeFail", "revokeBlock"}) /\ pc[p] = "issuing"
    BY <1>6 DEF IssueReturns, At
  <2>2. PumpTypes' /\ OfferInv'
    BY <1>6, <1>c, <2>1 DEF IssueReturns, PumpSteps, HasAttempt, Resolving
  <2> QED
    BY <1>6, <2>2, JobFrame, ConnFrame, OutboxFrame, BrokerFrame DEF IssueReturns
<1>7. CASE RedeemJobLease(p)
  <2>1. Moves({"resolve", "ready", "revokeFail", "revokeBlock"}) /\ pc[p] = "redeem"
    BY <1>7 DEF RedeemJobLease, At
  <2>2. PumpTypes' /\ OfferInv'
    BY <1>7, <1>c, <2>1 DEF RedeemJobLease, PumpSteps, HasAttempt, Resolving
  <2> QED
    BY <1>7, <2>2, JobFrame, ConnFrame, OutboxFrame, BrokerFrame DEF RedeemJobLease
<1>8. CASE RevokeAttempt(p)
  <2>1. Moves({"abandonBlock", "abandonFail"}) /\ pc[p] \in {"revokeBlock", "revokeFail"}
    BY <1>8 DEF RevokeAttempt, At
  <2>2. PumpTypes' /\ OfferInv'
    BY <1>8, <1>c, <2>1 DEF RevokeAttempt, PumpSteps, HasAttempt, Resolving
  <2>3. o.attempt \in Rows /\ o.job \in Jobs
    BY <2>1, <1>a DEF HasAttempt, Resolving
  <2>4. RevokeRunLeases(o.job, o.attempt) \/ UNCHANGED <<lease, fence>>
    BY <1>8 DEF RevokeAttempt, o
  <2>5. BrokerTypes'
    BY <1>8, <2>3, <2>4, RevokeType, BrokerFrame DEF RevokeAttempt
  <2> QED
    BY <1>8, <2>2, <2>5, JobFrame, ConnFrame, OutboxFrame DEF RevokeAttempt
<1>9. CASE AbandonCredentials(p)
  <2>1. pc[p] \in {"abandonBlock", "abandonRelease", "abandonFail"}
    BY <1>9 DEF AbandonCredentials, AfterAbandon
  <2>2. o.attempt \in Rows /\ o.job \in Jobs /\ pc[p] # "idle"
    BY <2>1, <1>a DEF HasAttempt, Resolving
  <2>3. AfterAbandon[pc[p]] \in {"block", "release", "fail"}
    BY <2>1 DEF AfterAbandon
  <2>4. \/ DoneWith(p)
        \/ Moves({"block", "release", "fail"}) /\ UNCHANGED <<snapshot, offer>>
    BY <1>9, <2>3 DEF AbandonCredentials
  <2>5. PumpTypes' /\ OfferInv'
    BY <1>9, <1>c, <2>2, <2>4, DoneWithType
       DEF AbandonCredentials, PumpSteps, HasAttempt, Resolving
  <2>6. \/ cleanup' = [cleanup EXCEPT ![o.job][o.attempt] = "cleanup"]
        \/ UNCHANGED cleanup
    BY <1>9 DEF AbandonCredentials, o
  <2>7. OutboxTypes'
    BY <1>9, <2>2, <2>6, SetRowType DEF AbandonCredentials, OutboxTypes, Phases
  <2> QED
    BY <1>9, <2>5, <2>7, JobFrame, ConnFrame, BrokerFrame DEF AbandonCredentials
<1>10. CASE BlockJob(p)
  <2>1. TryAnother(p) /\ pc[p] # "idle"
    BY <1>10 DEF BlockJob, At, TryAnother, DoneWith
  <2>2. PumpTypes' /\ OfferInv'
    BY <1>10, <2>1, TryAnotherType DEF BlockJob
  <2>3. \/ Write({o.job}, "pending") /\ runnerId' = [runnerId EXCEPT ![o.job] = None]
        \/ UNCHANGED <<status, cleanup, runnerId>>
    BY <1>10 DEF BlockJob, o
  <2>4. /\ status' \in [Jobs -> JobStatus]
        /\ cleanup' \in [Jobs -> [Rows -> Phases]]
    BY <2>3, WriteType DEF JobTypes, OutboxTypes, JobStatus
  <2>5. runnerId' \in [Jobs -> Runners \cup {None}]
    BY <2>3, <1>b DEF JobTypes
  <2>6. JobTypes' /\ OutboxTypes'
    BY <1>10, <2>4, <2>5 DEF BlockJob, JobTypes, OutboxTypes
  <2> QED
    BY <1>10, <2>2, <2>6, ConnFrame, BrokerFrame DEF BlockJob
<1>11. CASE SetJobStatus(p)
  <2>1. \/ TryAnother(p)
        \/ Moves({"rollup"}) /\ UNCHANGED <<snapshot, offer>>
    BY <1>11 DEF SetJobStatus
  <2>2. PumpTypes' /\ OfferInv'
    BY <1>11, <1>c, <2>1, TryAnotherType
       DEF SetJobStatus, At, PumpSteps, HasAttempt, Resolving
  <2>3. Write({o.job}, "failure") \/ UNCHANGED <<status, cleanup>>
    BY <1>11 DEF SetJobStatus, o
  <2>4. /\ status' \in [Jobs -> JobStatus]
        /\ cleanup' \in [Jobs -> [Rows -> Phases]]
    BY <2>3, WriteType DEF JobTypes, OutboxTypes, JobStatus, Terminal
  <2>5. JobTypes' /\ OutboxTypes'
    BY <1>11, <2>4 DEF SetJobStatus, JobTypes, OutboxTypes
  <2> QED
    BY <1>11, <2>2, <2>5, ConnFrame, BrokerFrame DEF SetJobStatus
<1>12. CASE PumpRollsUp(p)
  <2>1. o.job \in Jobs
    BY <1>12, <1>b DEF PumpRollsUp, At
  <2>2. runStatus' \in [Runs -> RunStatus]
    BY <1>12, <2>1, RollUpType DEF PumpRollsUp, JobTypes, o
  <2>3. JobTypes'
    BY <1>12, <2>2 DEF PumpRollsUp, JobTypes
  <2>4. PumpTypes' /\ OfferInv'
    BY <1>12, TryAnotherType DEF PumpRollsUp
  <2> QED
    BY <1>12, <2>3, <2>4, ConnFrame, OutboxFrame, BrokerFrame DEF PumpRollsUp
<1>13. CASE StartClaimedJob(p)
  <2>1. pc[p] # "idle" /\ o.job \in Jobs /\ RunOf[o.job] \in Runs
    BY <1>13, <1>b, DispatchAssumption DEF StartClaimedJob, At
  <2>2. o.attempt \in Attempts \cup {None}
    BY DEF PumpTypes, Offers, o
  <2>3. PumpTypes' /\ OfferInv'
    <3>1. CASE Goto(p, "send")
      <4>1. Moves({"send"})
        BY <3>1
      <4> QED
        BY <1>13, <1>c, <2>1, <4>1 DEF StartClaimedJob, PumpSteps, HasAttempt, Resolving
    <3>2. CASE GiveUp(p)
      BY <1>13, <3>2, <2>1, GiveUpTypes DEF StartClaimedJob
    <3> QED
      BY <1>13, <3>1, <3>2 DEF StartClaimedJob
  <2>4. status' \in [Jobs -> JobStatus]
    BY <1>13, <2>1 DEF StartClaimedJob, JobTypes, JobStatus, o
  <2>5. runStatus' \in [Runs -> RunStatus]
    BY <1>13, <2>1 DEF StartClaimedJob, JobTypes, RunStatus, o
  <2>6. \/ UNCHANGED cleanup
        \/ o.attempt # None /\ cleanup' = [cleanup EXCEPT ![o.job][o.attempt] = "dispatched"]
    BY <1>13 DEF StartClaimedJob, o
  <2>7. cleanup' \in [Jobs -> [Rows -> Phases]]
    BY <2>1, <2>2, <2>6, SetRowType DEF OutboxTypes, Phases, Rows
  <2>8. JobTypes' /\ OutboxTypes'
    BY <1>13, <2>4, <2>5, <2>7 DEF StartClaimedJob, JobTypes, OutboxTypes
  <2> QED
    BY <1>13, <2>3, <2>8, ConnFrame, BrokerFrame DEF StartClaimedJob
<1>14. CASE DispatchTo(p)
  <2>1. CASE GiveUp(p) /\ UNCHANGED <<sent, snapshot, offer>>
    BY <1>14, <2>1, GiveUpTypes, JobFrame, ConnFrame, OutboxFrame, BrokerFrame
       DEF DispatchTo, At
  <2>2. CASE sent' = sent \cup {o} /\ DoneWith(p)
    <3>1. pc[p] # "idle" /\ o \in Offers
      BY <1>14 DEF DispatchTo, At, PumpTypes, o
    <3>2. o \in Messages
      BY <3>1, <1>b DEF Offers, Messages
    <3>3. snapshot' \in [Replicas -> SUBSET (Runners \X Conns)]
      BY <2>2, DropRunnerType DEF DoneWith
    <3>4. PumpTypes' /\ OfferInv'
      BY <2>2, <3>2, <3>3, ReturnType DEF DoneWith, PumpTypes
    <3> QED
      BY <1>14, <3>4, JobFrame, ConnFrame, OutboxFrame, BrokerFrame DEF DispatchTo
  <2> QED
    BY <1>14, <2>1, <2>2 DEF DispatchTo, o
<1> QED
  BY <1>1, <1>2, <1>3, <1>4, <1>5, <1>6, <1>7, <1>8, <1>9, <1>10, <1>11, <1>12, <1>13,
     <1>14 DEF PumpStep

\* So do the receipts and the workers of credential_outbox.go.
LEMMA WorkerStepTypes ==
  ASSUME TypeOK, OfferInv, NEW p \in Replicas, WorkerStep(p)
  PROVE  TypeOK' /\ OfferInv'
<1> USE DEF TypeOK
<1>1. ASSUME NEW m \in sent, NEW s \in {"success", "failure"}, ReportStatus(p, m, s)
      PROVE  TypeOK' /\ OfferInv'
  <2>1. m.job \in Jobs
    BY DEF PumpTypes, Messages
  <2>2. s \in JobStatus /\ s \in Terminal
    BY <1>1 DEF JobStatus, Terminal
  <2>3. Write({m.job}, s) \/ UNCHANGED <<status, cleanup>>
    BY <1>1 DEF ReportStatus
  <2>4. /\ status' \in [Jobs -> JobStatus]
        /\ cleanup' \in [Jobs -> [Rows -> Phases]]
    BY <2>2, <2>3, WriteType DEF JobTypes, OutboxTypes
  <2>5. receipt' \in [Jobs -> Terminal \cup {None}]
    BY <1>1, <2>1, <2>2 DEF ReportStatus, JobTypes
  <2>6. JobTypes' /\ OutboxTypes'
    BY <1>1, <2>1, <2>4, <2>5 DEF ReportStatus, JobTypes, OutboxTypes
  <2> QED
    BY <1>1, <2>6, ConnFrame, PumpFrame, BrokerFrame, OfferFrame DEF ReportStatus
<1>2. ASSUME NEW j \in Jobs, RollUp(p, j)
      PROVE  TypeOK' /\ OfferInv'
  <2>1. runStatus' \in [Runs -> RunStatus]
    BY <1>2, RollUpType DEF RollUp, JobTypes
  <2>2. JobTypes' /\ OutboxTypes'
    BY <1>2, <2>1 DEF RollUp, JobTypes, OutboxTypes
  <2> QED
    BY <1>2, <2>2, ConnFrame, PumpFrame, BrokerFrame, OfferFrame DEF RollUp
<1>3. ASSUME NEW j \in Jobs, RecoverCredentialPreparation(p, j)
      PROVE  TypeOK' /\ OfferInv'
  <2>1. Write({j}, "failure") /\ "failure" \in JobStatus
    BY <1>3 DEF RecoverCredentialPreparation, JobStatus, Terminal
  <2>2. JobTypes' /\ OutboxTypes'
    BY <1>3, <2>1, WriteType DEF RecoverCredentialPreparation, JobTypes, OutboxTypes
  <2> QED
    BY <1>3, <2>2, ConnFrame, PumpFrame, BrokerFrame, OfferFrame
       DEF RecoverCredentialPreparation
<1>4. ASSUME NEW j \in Jobs, NEW a \in Rows, CleanupRPC(p, j, a)
      PROVE  TypeOK' /\ OfferInv'
  <2>1. BrokerTypes'
    BY <1>4, RevokeType DEF CleanupRPC
  <2>2. OutboxTypes'
    BY <1>4 DEF CleanupRPC, OutboxTypes
  <2> QED
    BY <1>4, <2>1, <2>2, JobFrame, ConnFrame, PumpFrame, OfferFrame DEF CleanupRPC
<1>5. ASSUME NEW j \in Jobs, NEW a \in Rows, CleanupDelete(p, j, a)
      PROVE  TypeOK' /\ OfferInv'
  <2>1. cleanup' \in [Jobs -> [Rows -> Phases]]
    BY <1>5, SetRowType DEF CleanupDelete, OutboxTypes, Phases
  <2>2. OutboxTypes'
    BY <1>5, <2>1 DEF CleanupDelete, OutboxTypes
  <2> QED
    BY <1>5, <2>2, JobFrame, ConnFrame, PumpFrame, BrokerFrame, OfferFrame DEF CleanupDelete
<1> QED
  BY <1>1, <1>2, <1>3, <1>4, <1>5 DEF WorkerStep

\* A crash clears what the replica held in memory.
LEMMA CrashTypes ==
  ASSUME TypeOK, OfferInv, NEW p \in Replicas, Crash(p)
  PROVE  TypeOK' /\ OfferInv'
<1> USE DEF TypeOK
<1>1. Return(p)
  BY DEF Crash, Return
<1>2. snapshot' \in [Replicas -> SUBSET (Runners \X Conns)]
  BY DEF Crash, PumpTypes
<1>3. PumpTypes' /\ OfferInv'
  BY <1>1, <1>2, ReturnType DEF Crash, PumpTypes
<1>4. ConnTypes'
  <2>1. None \notin Replicas
    BY DispatchAssumption
  <2>2. stream' \in [Conns -> {"unused", "activating", "open", "closing", "closed"}]
    BY DEF Crash, ConnTypes
  <2>3. registered' \in [Replicas -> [Runners -> Conns \cup {None}]]
    BY DEF Crash, ConnTypes
  <2>4. \A c \in Conns : stream'[c] # "unused" \/ hostOf[c] # None
                           => runnerOf[c] \in Runners /\ hostOf[c] \in Replicas
    BY <2>1 DEF Crash, ConnTypes
  <2> QED
    BY <2>2, <2>3, <2>4 DEF Crash, ConnTypes
<1>5. crashes' \in 0 .. MaxCrashes
  BY DispatchAssumption DEF Crash, OutboxTypes
<1>6. settling' \subseteq Replicas \X Jobs /\ acked' \subseteq Replicas \X Jobs \X Rows
  BY DEF Crash, OutboxTypes
<1>7. OutboxTypes'
  BY <1>5, <1>6 DEF Crash, OutboxTypes
<1> QED
  BY <1>3, <1>4, <1>7, JobFrame, BrokerFrame DEF Crash

\* Writing one lease at the broker.
LEMMA SetLeaseType ==
  ASSUME BrokerTypes, NEW j \in Jobs, NEW a \in Attempts, NEW l \in Leases,
         lease' = [lease EXCEPT ![j][a] = l]
  PROVE  lease' \in [Jobs -> [Attempts -> Leases]]
BY DEF BrokerTypes

\* The broker's steps, and the timer, keep the types.
LEMMA BrokerStepTypes ==
  ASSUME TypeOK, OfferInv, BrokerStep \/ \E a \in Attempts : PreparationExpires(a)
  PROVE  TypeOK' /\ OfferInv'
<1> USE DEF TypeOK
<1>1. ASSUME NEW j \in Jobs, NEW a \in Attempts, BrokerIssue(j, a)
      PROVE  TypeOK' /\ OfferInv'
  <2>0. (\E l \in {"issued", "revoking"} : lease' = [lease EXCEPT ![j][a] = l]) \/ UNCHANGED lease
    BY <1>1 DEF BrokerIssue
  <2>1. BrokerTypes'
    BY <1>1, <2>0, SetLeaseType DEF BrokerIssue, BrokerTypes, Leases
  <2> QED
    BY <1>1, <2>1, JobFrame, ConnFrame, PumpFrame, OutboxFrame, OfferFrame DEF BrokerIssue
<1>2. ASSUME NEW j \in Jobs, NEW a \in Attempts, RetryRevocations(j, a)
      PROVE  TypeOK' /\ OfferInv'
  <2>1. BrokerTypes'
    BY <1>2 DEF RetryRevocations, BrokerTypes, Leases
  <2> QED
    BY <1>2, <2>1, JobFrame, ConnFrame, PumpFrame, OutboxFrame, OfferFrame DEF RetryRevocations
<1>3. ASSUME NEW a \in Attempts, PreparationExpires(a)
      PROVE  TypeOK' /\ OfferInv'
  <2>1. OutboxTypes'
    BY <1>3 DEF PreparationExpires, OutboxTypes
  <2> QED
    BY <1>3, <2>1, JobFrame, ConnFrame, PumpFrame, BrokerFrame, OfferFrame DEF PreparationExpires
<1> QED
  BY <1>1, <1>2, <1>3 DEF BrokerStep

\* Every step keeps the types.
LEMMA NextTypes ==
  ASSUME TypeOK, OfferInv, [Next]_vars
  PROVE  TypeOK' /\ OfferInv'
<1>1. CASE UNCHANGED vars
  BY <1>1, JobFrame, ConnFrame, PumpFrame, OutboxFrame, BrokerFrame, OfferFrame
     DEF vars, TypeOK
<1> QED
  BY <1>1, ConnectionTypes, PumpStepTypes, WorkerStepTypes, CrashTypes, BrokerStepTypes
     DEF Next

\* The initial state has the types.
LEMMA InitTypes == Init => TypeOK /\ OfferInv
<1> SUFFICES ASSUME Init PROVE TypeOK /\ OfferInv
  OBVIOUS
<1>1. JobTypes
  BY DEF Init, JobTypes, JobStatus, RunStatus
<1>2. ConnTypes
  BY DEF Init, ConnTypes
<1>3. PumpTypes
  BY DEF Init, PumpTypes, PumpSteps, NoOffer, Offers
<1>4. OutboxTypes
  BY DispatchAssumption DEF Init, OutboxTypes, Phases
<1>5. BrokerTypes
  BY DEF Init, BrokerTypes, Leases
<1>6. OfferInv
  BY DEF Init, OfferInv, NoOffer, HasAttempt, Resolving
<1> QED
  BY <1>1, <1>2, <1>3, <1>4, <1>5, <1>6 DEF TypeOK

\* Every variable of the dispatch model keeps the type of the table, map or
\* process state it models, whatever the number of replicas, runners and jobs.
THEOREM TypeCorrect == Spec => []TypeOK
<1>1. TypeOK /\ OfferInv /\ [Next]_vars => TypeOK' /\ OfferInv'
  BY NextTypes
<1> QED
  BY InitTypes, <1>1, PTL DEF Spec

-----------------------------------------------------------------------------
(***************************************************************************)
(* Ownership of a job.  BlockJob and SetJobStatus name no claimant, so     *)
(* that they hit the claim of their own caller is a fact about all pumps:  *)
(* HoldInv says that an active job is held by at most one offer, and that  *)
(* a held job that is terminal has failed.                                 *)
(***************************************************************************)

Typed == TypeOK /\ OfferInv

\* Facts about the types that the steps below use.
LEMMA HeldTypes ==
  ASSUME Typed
  PROVE  /\ \A p \in Replicas : pc[p] # "idle" => /\ offer[p].job \in Jobs
                                                  /\ offer[p].runner \in Runners
                                                  /\ offer[p].conn \in Conns
         /\ \A m \in sent : m.job \in Jobs /\ m.runner \in Runners /\ m.conn \in Conns
         /\ \A j \in Jobs : status[j] \in JobStatus
BY DEF Typed, TypeOK, OfferInv, PumpTypes, JobTypes, Messages

\* ClaimInv depends on these variables only.
LEMMA ClaimFrame ==
  ClaimInv /\ UNCHANGED <<status, runnerId, jobConn, pc, offer, sent>> => ClaimInv'
BY DEF ClaimInv, HoldInv, Holds, SentJobIsOwned, SingleExecution, Active

\* Jobs finishing: nobody holds them, or they fail.
LEMMA ClaimWrite ==
  ASSUME Typed, ClaimInv, NEW J, NEW s \in Terminal, Write(J, s),
         UNCHANGED <<runnerId, jobConn, pc, offer, sent>>,
         \/ s = "failure"
         \/ \A p \in Replicas : pc[p] # "idle" => offer[p].job \notin J
  PROVE  ClaimInv'
<1>1. \A j \in Jobs : status'[j] = IF j \in J THEN s ELSE status[j]
  BY DEF Write
<1>2. \A j \in Jobs : Active(j)' => Active(j) /\ status'[j] = status[j]
  BY <1>1 DEF Active
<1>3. HoldInv'
  BY <1>1, <1>2, HeldTypes DEF HoldInv, Holds, ClaimInv, Active
<1>4. SentJobIsOwned'
  BY <1>2, HeldTypes DEF SentJobIsOwned, ClaimInv
<1>5. SingleExecution'
  BY <1>2, HeldTypes DEF SingleExecution, ClaimInv
<1> QED
  BY <1>3, <1>4, <1>5 DEF ClaimInv

\* A pump that moves on with the same job, other than by starting it.
LEMMA ClaimMove ==
  ASSUME Typed, ClaimInv, NEW p \in Replicas, NEW step \in PumpSteps \ {"idle", "send"},
         Goto(p, step), pc[p] # "idle",
         \A q \in Replicas : /\ offer'[q].job = offer[q].job
                             /\ offer'[q].runner = offer[q].runner
                             /\ offer'[q].conn = offer[q].conn,
         UNCHANGED <<status, runnerId, jobConn, sent>>
  PROVE  ClaimInv'
<1>1. \A q \in Replicas : pc'[q] = IF q = p THEN step ELSE pc[q]
  BY DEF Goto, Typed, TypeOK, PumpTypes
<1>2. HoldInv'
  BY <1>1 DEF HoldInv, Holds, ClaimInv, Active
<1>3. SentJobIsOwned'
  BY <1>1 DEF SentJobIsOwned, ClaimInv, Active
<1>4. SingleExecution'
  BY DEF SingleExecution, ClaimInv, Active
<1> QED
  BY <1>2, <1>3, <1>4 DEF ClaimInv

\* What Return does, pump by pump.
LEMMA ReturnFacts ==
  ASSUME Typed, NEW p \in Replicas, Return(p)
  PROVE  /\ pc'[p] = "idle" /\ offer'[p] = NoOffer
         /\ \A q \in Replicas : q # p => pc'[q] = pc[q] /\ offer'[q] = offer[q]
BY DEF Return, Goto, Typed, TypeOK, PumpTypes

\* A pump that lets go of its job without touching it.
LEMMA ClaimReturn ==
  ASSUME Typed, ClaimInv, NEW p \in Replicas, Return(p),
         UNCHANGED <<status, runnerId, jobConn, sent>>
  PROVE  ClaimInv'
<1>1. HoldInv'
  <2> SUFFICES ASSUME NEW q \in Replicas, pc'[q] # "idle"
               PROVE  Holds(q)'
    BY DEF HoldInv
  <2>1. q # p /\ pc'[q] = pc[q] /\ offer'[q] = offer[q]
    BY ReturnFacts
  <2>2. offer[q].job \in Jobs
    BY <2>1, HeldTypes
  <2>3. NoOffer.job \notin Jobs
    BY DispatchAssumption DEF NoOffer
  <2>4. Holds(q)
    BY <2>1 DEF HoldInv, ClaimInv
  <2> QED
    BY <2>1, <2>2, <2>3, <2>4, ReturnFacts DEF Holds, Active
<1>2. SentJobIsOwned'
  BY ReturnFacts DEF SentJobIsOwned, ClaimInv, Active
<1>3. SingleExecution'
  BY DEF SingleExecution, ClaimInv, Active
<1> QED
  BY <1>1, <1>2, <1>3 DEF ClaimInv

\* Interrupting jobs keeps ClaimInv, and so do all steps of the streams.
LEMMA ConnectionClaims ==
  ASSUME Typed, ClaimInv, ConnectionStep
  PROVE  ClaimInv'
<1>0. "failure" \in Terminal
  BY DEF Terminal
<1>1. ASSUME NEW p \in Replicas, NEW r \in Runners, NEW c \in Conns,
             BeginRunnerConnection(p, r, c)
      PROVE  ClaimInv'
  <2>1. PICK J : Write(J, "failure")
    BY <1>1 DEF BeginRunnerConnection, Interrupt
  <2> QED
    BY <1>0, <1>1, <2>1, ClaimWrite DEF BeginRunnerConnection
<1>2. ASSUME NEW c \in Conns, ActivateConnection(c) \/ UnregisterConnection(c)
      PROVE  ClaimInv'
  BY <1>2, ClaimFrame DEF ActivateConnection, UnregisterConnection
<1>3. ASSUME NEW c \in Conns, EndRunnerConnection(c)
      PROVE  ClaimInv'
  <2>1. (\E J : Write(J, "failure")) \/ UNCHANGED status
    BY <1>3 DEF EndRunnerConnection, Interrupt
  <2>2. CASE \E J : Write(J, "failure")
    BY <1>0, <1>3, <2>2, ClaimWrite DEF EndRunnerConnection
  <2>3. CASE UNCHANGED status
    BY <1>3, <2>3, ClaimFrame DEF EndRunnerConnection
  <2> QED
    BY <2>1, <2>2, <2>3
<1> QED
  BY <1>1, <1>2, <1>3 DEF ConnectionStep

\* A claim takes a job nobody holds.
LEMMA ClaimClaims ==
  ASSUME Typed, ClaimInv, NEW p \in Replicas, ClaimForDispatch(p)
  PROVE  ClaimInv'
<1>1. PICK r \in Runners, c \in Conns :
        \/ \E j \in Jobs : Claim(r, c, j) /\ (BeginOffer(p, r, c, j) \/ NextRunner(p, r, c))
        \/ NextRunner(p, r, c) /\ UNCHANGED <<runnerId, jobConn>>
  BY DEF ClaimForDispatch
<1>2. UNCHANGED <<status, sent>> /\ pc[p] = "idle"
  BY DEF ClaimForDispatch, At
<1>3. CASE NextRunner(p, r, c) /\ UNCHANGED <<runnerId, jobConn>>
  BY <1>2, <1>3, ClaimFrame DEF NextRunner
<1>4. ASSUME NEW j \in Jobs, Claim(r, c, j), BeginOffer(p, r, c, j) \/ NextRunner(p, r, c)
      PROVE  ClaimInv'
  <2>1. status[j] = "pending" /\ runnerId[j] = None /\ Active(j)
    BY <1>4 DEF Claim, Claimable, Active, Terminal
  <2>2. /\ \A i \in Jobs : i # j => runnerId'[i] = runnerId[i] /\ jobConn'[i] = jobConn[i]
        /\ runnerId'[j] = r /\ jobConn'[j] = c
    BY <1>4 DEF Claim, Typed, TypeOK, JobTypes
  <2>3. \A q \in Replicas : pc[q] # "idle" => offer[q].job # j
    BY <2>1, HeldTypes, DispatchAssumption DEF ClaimInv, HoldInv, Holds
  <2>4. \A m \in sent : m.job # j
    BY <2>1 DEF ClaimInv, SentJobIsOwned
  <2>5. CASE NextRunner(p, r, c)
    <3>1. UNCHANGED <<pc, offer>>
      BY <2>5 DEF NextRunner
    <3>2. HoldInv'
      BY <1>2, <2>2, <2>3, <3>1, HeldTypes DEF HoldInv, Holds, ClaimInv, Active
    <3>3. SentJobIsOwned'
      BY <1>2, <2>2, <2>4, <3>1, HeldTypes DEF SentJobIsOwned, ClaimInv, Active
    <3>4. SingleExecution'
      BY <1>2 DEF SingleExecution, ClaimInv, Active
    <3> QED
      BY <3>2, <3>3, <3>4 DEF ClaimInv
  <2>6. CASE BeginOffer(p, r, c, j)
    <3>1. /\ \A q \in Replicas : q # p => pc'[q] = pc[q] /\ offer'[q] = offer[q]
          /\ pc'[p] = "claimed"
          /\ offer'[p].runner = r /\ offer'[p].conn = c /\ offer'[p].job = j
      BY <2>6 DEF BeginOffer, Goto, Typed, TypeOK, PumpTypes
    <3>2. \A q \in Replicas : offer[q].job # j
      BY <2>3, DispatchAssumption DEF Typed, OfferInv, NoOffer
    <3>3. Holds(p)'
      BY <1>2, <2>1, <2>2, <3>1, <3>2 DEF Holds, Active
    <3>4. ASSUME NEW q \in Replicas, q # p, pc'[q] # "idle"
          PROVE  Holds(q)'
      <4>1. Holds(q) /\ offer'[q] = offer[q] /\ offer[q].job \in Jobs /\ offer[q].job # j
        BY <3>1, <3>2, <3>4, HeldTypes DEF ClaimInv, HoldInv
      <4> QED
        BY <1>2, <2>2, <3>1, <3>4, <4>1 DEF Holds, Active
    <3>5. HoldInv'
      BY <3>3, <3>4 DEF HoldInv
    <3>6. SentJobIsOwned'
      BY <1>2, <2>2, <2>4, <3>1, HeldTypes DEF SentJobIsOwned, ClaimInv, Active
    <3>7. SingleExecution'
      BY <1>2 DEF SingleExecution, ClaimInv, Active
    <3> QED
      BY <3>5, <3>6, <3>7 DEF ClaimInv
  <2> QED
    BY <1>4, <2>5, <2>6
<1> QED
  BY <1>1, <1>3, <1>4

\* The job of a pump that writes it: no other pump holds it and no stream has
\* it, as long as it is active.
LEMMA HeldAlone ==
  ASSUME Typed, ClaimInv, NEW p \in Replicas, pc[p] # "idle", Active(offer[p].job)
  PROVE  /\ \A q \in Replicas : q # p => offer[q].job # offer[p].job
         /\ \A m \in sent : m.job # offer[p].job
<1>1. Holds(p)
  BY DEF ClaimInv, HoldInv
<1>2. \A q \in Replicas : q # p => offer[q].job # offer[p].job
  BY <1>1 DEF Holds
<1>3. \A m \in sent : m.job # offer[p].job
  BY DEF ClaimInv, SentJobIsOwned
<1> QED
  BY <1>2, <1>3

\* A pump releasing a claim releases its own.
LEMMA BlockClaims ==
  ASSUME Typed, ClaimInv, NEW p \in Replicas, BlockJob(p)
  PROVE  ClaimInv'
<1> DEFINE j == offer[p].job
<1>1. Return(p) /\ pc[p] # "idle" /\ UNCHANGED <<jobConn, sent>>
  BY DEF BlockJob, TryAnother, DoneWith, At
<1>2. CASE UNCHANGED <<status, runnerId>>
  BY <1>1, <1>2, ClaimReturn
<1>3. CASE /\ Active(j)
           /\ Write({j}, "pending")
           /\ runnerId' = [runnerId EXCEPT ![j] = None]
  <2>1. j \in Jobs
    BY <1>1, HeldTypes
  <2>2. \A i \in Jobs : i # j => status'[i] = status[i] /\ runnerId'[i] = runnerId[i]
    BY <1>3, <2>1 DEF Write, Typed, TypeOK, JobTypes
  <2>3. /\ \A q \in Replicas : q # p => offer[q].job # j
        /\ \A m \in sent : m.job # j
    BY <1>1, <1>3, HeldAlone
  <2> HIDE DEF j
  <2>4. HoldInv'
    <3> SUFFICES ASSUME NEW q \in Replicas, pc'[q] # "idle"
                 PROVE  Holds(q)'
      BY DEF HoldInv
    <3>1. q # p /\ pc'[q] = pc[q] /\ offer'[q] = offer[q]
      BY <1>1, ReturnFacts
    <3>2. Holds(q) /\ offer[q].job \in Jobs /\ offer[q].job # j
      BY <3>1, <2>3, HeldTypes DEF HoldInv, ClaimInv
    <3>3. NoOffer.job \notin Jobs
      BY DispatchAssumption DEF NoOffer
    <3> QED
      BY <1>1, <2>2, <3>1, <3>2, <3>3, ReturnFacts DEF Holds, Active
  <2>5. SentJobIsOwned'
    BY <1>1, <2>2, <2>3, ReturnFacts, HeldTypes DEF SentJobIsOwned, ClaimInv, Active
  <2>6. SingleExecution'
    BY <1>1, <2>2, <2>3, HeldTypes DEF SingleExecution, ClaimInv, Active
  <2> QED
    BY <2>4, <2>5, <2>6 DEF ClaimInv
<1> QED
  BY <1>2, <1>3 DEF BlockJob

\* A pump failing a job fails its own, or one that has failed already.
LEMMA FailClaims ==
  ASSUME Typed, ClaimInv, NEW p \in Replicas, SetJobStatus(p)
  PROVE  ClaimInv'
<1> DEFINE j == offer[p].job
<1>1. pc[p] # "idle" /\ UNCHANGED <<runnerId, jobConn, sent>>
  BY DEF SetJobStatus, At
<1>2. Return(p) \/ (Goto(p, "rollup") /\ UNCHANGED offer)
  BY DEF SetJobStatus, TryAnother
<1>3. Write({j}, "failure") \/ UNCHANGED status
  BY DEF SetJobStatus
<1>4. \A i \in Jobs : \/ status'[i] = status[i]
                      \/ i = j /\ status'[i] = "failure"
  BY <1>3 DEF Write
<1>5. \A i \in Jobs : Active(i)' => Active(i) /\ status'[i] = status[i]
  BY <1>4 DEF Active, Terminal
<1>6. \A q \in Replicas : pc'[q] # "idle" =>
        /\ offer'[q] = offer[q] /\ pc[q] # "idle"
        /\ pc'[q] = "send" => pc[q] = "send"
  BY <1>1, <1>2, ReturnFacts DEF Goto, Typed, TypeOK, PumpTypes
<1>7. \A q \in Replicas : offer'[q] \in {offer[q], NoOffer}
  BY <1>2, ReturnFacts
<1>8. NoOffer.job \notin Jobs
  BY DispatchAssumption DEF NoOffer
<1> HIDE DEF j
<1>9. HoldInv'
  <2> SUFFICES ASSUME NEW q \in Replicas, pc'[q] # "idle"
               PROVE  Holds(q)'
    BY DEF HoldInv
  <2>1. Holds(q) /\ offer'[q] = offer[q] /\ offer[q].job \in Jobs
    BY <1>6, HeldTypes DEF HoldInv, ClaimInv
  <2>2. Active(offer[q].job)' => Active(offer[q].job) /\ status'[offer[q].job] = status[offer[q].job]
    BY <1>5, <2>1
  <2>3. ~Active(offer[q].job)' => status'[offer[q].job] = "failure"
    BY <1>4, <2>1 DEF Holds, Active
  <2> QED
    BY <1>1, <1>6, <1>7, <1>8, <2>1, <2>2, <2>3 DEF Holds
<1>10. SentJobIsOwned'
  BY <1>1, <1>5, <1>6, HeldTypes DEF SentJobIsOwned, ClaimInv
<1>11. SingleExecution'
  BY <1>1, <1>5, HeldTypes DEF SingleExecution, ClaimInv
<1> QED
  BY <1>9, <1>10, <1>11 DEF ClaimInv

\* A pump starting a job starts its own.
LEMMA StartClaims ==
  ASSUME Typed, ClaimInv, NEW p \in Replicas, StartClaimedJob(p)
  PROVE  ClaimInv'
<1> DEFINE j == offer[p].job
<1>1. pc[p] # "idle" /\ UNCHANGED <<runnerId, jobConn, offer, sent>> /\ j \in Jobs
  BY HeldTypes DEF StartClaimedJob, At
<1>2. {"release", "abandonRelease"} \subseteq PumpSteps \ {"idle", "send"}
  BY DEF PumpSteps
<1>3. CASE GiveUp(p) /\ UNCHANGED status
  BY <1>1, <1>2, <1>3, ClaimMove DEF GiveUp
<1>4. CASE /\ status[j] = "pending"
           /\ status' = [status EXCEPT ![j] = "running"]
           /\ Goto(p, "send") \/ GiveUp(p)
  <2>1. Active(j)
    BY <1>4 DEF Active, Terminal
  <2>2. /\ \A i \in Jobs : i # j => status'[i] = status[i]
        /\ status'[j] = "running" /\ Active(j)'
    BY <1>1, <1>4 DEF Typed, TypeOK, JobTypes, Active, Terminal
  <2>3. /\ \A q \in Replicas : q # p => offer[q].job # j
        /\ \A m \in sent : m.job # j
    BY <1>1, <2>1, HeldAlone
  <2>4. \A q \in Replicas : q # p => pc'[q] = pc[q]
    BY <1>4 DEF Goto, GiveUp, Typed, TypeOK, PumpTypes
  <2>5. Holds(p)
    BY <1>1 DEF HoldInv, ClaimInv
  <2>6. Holds(p)'
    BY <1>1, <2>1, <2>2, <2>3, <2>5 DEF Holds
  <2>7. ASSUME NEW q \in Replicas, q # p, pc'[q] # "idle"
        PROVE  Holds(q)'
    <3>1. Holds(q) /\ offer[q].job \in Jobs /\ offer[q].job # j
      BY <2>3, <2>4, <2>7, HeldTypes DEF HoldInv, ClaimInv
    <3> QED
      BY <1>1, <2>2, <2>4, <2>7, <3>1 DEF Holds, Active
  <2>8. HoldInv'
    BY <2>6, <2>7 DEF HoldInv
  <2> HIDE DEF j
  <2>9. SentJobIsOwned'
    <3>1. \A m \in sent : \A q \in Replicas : pc'[q] # "idle" => pc[q] # "idle"
      BY <1>1, <2>4
    <3> QED
      BY <1>1, <2>2, <2>3, <3>1, HeldTypes DEF SentJobIsOwned, ClaimInv, Active
  <2>10. SingleExecution'
    BY <1>1, <2>2, <2>3, HeldTypes DEF SingleExecution, ClaimInv, Active
  <2> QED
    BY <2>8, <2>9, <2>10 DEF ClaimInv
<1> QED
  BY <1>3, <1>4 DEF StartClaimedJob

\* A pump that has sent a job lets go of it.
LEMMA DispatchClaims ==
  ASSUME Typed, ClaimInv, NEW p \in Replicas, DispatchTo(p)
  PROVE  ClaimInv'
<1>1. pc[p] = "send" /\ UNCHANGED <<status, runnerId, jobConn>>
  BY DEF DispatchTo, At
<1>2. CASE GiveUp(p) /\ UNCHANGED <<sent, offer>>
  BY <1>1, <1>2, ClaimMove DEF GiveUp, PumpSteps
<1>3. CASE sent' = sent \cup {offer[p]} /\ Return(p)
  <2>1. HoldInv'
    <3> SUFFICES ASSUME NEW q \in Replicas, pc'[q] # "idle"
                 PROVE  Holds(q)'
      BY DEF HoldInv
    <3>1. q # p /\ pc'[q] = pc[q] /\ offer'[q] = offer[q]
      BY <1>3, ReturnFacts
    <3>2. Holds(q) /\ offer[q].job \in Jobs
      BY <3>1, HeldTypes DEF HoldInv, ClaimInv
    <3>3. NoOffer.job \notin Jobs
      BY DispatchAssumption DEF NoOffer
    <3> QED
      BY <1>1, <1>3, <3>1, <3>2, <3>3, ReturnFacts DEF Holds, Active
  <2>2. Holds(p)
    BY <1>1 DEF HoldInv, ClaimInv
  <2>3. \A q \in Replicas : pc'[q] # "idle" => q # p /\ pc[q] # "idle" /\ offer'[q] = offer[q]
    BY <1>3, ReturnFacts
  <2>4. SentJobIsOwned'
    <3> SUFFICES ASSUME NEW m \in sent', Active(m.job)'
                 PROVE  /\ status'[m.job] = "running"
                        /\ runnerId'[m.job] = m.runner
                        /\ jobConn'[m.job] = m.conn
                        /\ \A q \in Replicas : pc'[q] # "idle" => offer'[q].job # m.job
      BY DEF SentJobIsOwned
    <3>1. CASE m \in sent
      BY <1>1, <2>3, <3>1 DEF SentJobIsOwned, ClaimInv, Active
    <3>2. CASE m = offer[p]
      BY <1>1, <2>2, <2>3, <3>2, HeldAlone DEF Holds, Active
    <3> QED
      BY <1>3, <3>1, <3>2
  <2>5. SingleExecution'
    <3>1. Active(offer[p].job) => \A m \in sent : m.job # offer[p].job
      BY <1>1, HeldAlone
    <3> QED
      BY <1>1, <1>3, <3>1 DEF SingleExecution, ClaimInv, Active
  <2> QED
    BY <2>1, <2>4, <2>5 DEF ClaimInv
<1> QED
  BY <1>2, <1>3 DEF DispatchTo, DoneWith

\* The steps of a pump keep ClaimInv.
LEMMA PumpStepClaims ==
  ASSUME Typed, ClaimInv, NEW p \in Replicas, PumpStep(p)
  PROVE  ClaimInv'
<1>1. CASE Tick(p)
  BY <1>1, ClaimFrame DEF Tick
<1>2. CASE ClaimForDispatch(p)
  BY <1>2, ClaimClaims
<1>3. CASE \/ CloneURLFails(p) \/ IssueJobLease(p) \/ IssueReturns(p)
           \/ RedeemJobLease(p) \/ RevokeAttempt(p)
  <2>1. /\ \E step \in PumpSteps \ {"idle", "send"} : Goto(p, step)
        /\ pc[p] # "idle"
        /\ UNCHANGED <<status, runnerId, jobConn, offer, sent>>
    BY <1>3 DEF CloneURLFails, IssueJobLease, IssueReturns, RedeemJobLease, RevokeAttempt,
                At, PumpSteps
  <2> QED
    BY <2>1, ClaimMove
<1>4. CASE PrepareCredentials(p)
  <2>1. /\ \E step \in PumpSteps \ {"idle", "send"} : Goto(p, step)
        /\ pc[p] # "idle"
        /\ UNCHANGED <<status, runnerId, jobConn, sent>>
    BY <1>4 DEF PrepareCredentials, At, PumpSteps
  <2>2. PICK a : offer' = [offer EXCEPT ![p] =
                   [runner |-> offer[p].runner, conn |-> offer[p].conn,
                    job |-> offer[p].job, attempt |-> a]]
    BY <1>4 DEF PrepareCredentials
  <2>3. \A q \in Replicas : /\ offer'[q].job = offer[q].job
                            /\ offer'[q].runner = offer[q].runner
                            /\ offer'[q].conn = offer[q].conn
    BY <2>2 DEF Typed, TypeOK, PumpTypes
  <2> QED
    BY <2>1, <2>3, ClaimMove
<1>5. CASE AbandonCredentials(p)
  <2>1. /\ pc[p] \in {"abandonBlock", "abandonRelease", "abandonFail"}
        /\ UNCHANGED <<status, runnerId, jobConn, sent>>
    BY <1>5 DEF AbandonCredentials, AfterAbandon
  <2>2. AfterAbandon[pc[p]] \in PumpSteps \ {"idle", "send"}
    BY <2>1 DEF AfterAbandon, PumpSteps
  <2>3. Return(p) \/ (Goto(p, AfterAbandon[pc[p]]) /\ UNCHANGED offer)
    BY <1>5 DEF AbandonCredentials, DoneWith
  <2> QED
    BY <2>1, <2>2, <2>3, ClaimMove, ClaimReturn
<1>6. CASE PumpRollsUp(p)
  BY <1>6, ClaimReturn DEF PumpRollsUp, TryAnother
<1> QED
  BY <1>1, <1>2, <1>3, <1>4, <1>5, <1>6, BlockClaims, FailClaims, StartClaims, DispatchClaims
     DEF PumpStep

\* A receipt is for a job no pump holds; recovery and the timers fail jobs.
LEMMA WorkerStepClaims ==
  ASSUME Typed, ClaimInv, NEW p \in Replicas, WorkerStep(p)
  PROVE  ClaimInv'
<1>1. ASSUME NEW m \in sent, NEW s \in {"success", "failure"}, ReportStatus(p, m, s)
      PROVE  ClaimInv'
  <2>1. CASE Active(m.job) /\ Write({m.job}, s)
    <3>1. \A q \in Replicas : pc[q] # "idle" => offer[q].job \notin {m.job}
      BY <2>1 DEF ClaimInv, SentJobIsOwned
    <3>2. s \in Terminal
      BY DEF Terminal
    <3> QED
      BY <1>1, <2>1, <3>1, <3>2, ClaimWrite DEF ReportStatus
  <2>2. CASE UNCHANGED status
    BY <1>1, <2>2, ClaimFrame DEF ReportStatus
  <2> QED
    BY <1>1, <2>1, <2>2 DEF ReportStatus
<1>2. ASSUME NEW j \in Jobs, RecoverCredentialPreparation(p, j)
      PROVE  ClaimInv'
  <2>1. "failure" \in Terminal
    BY DEF Terminal
  <2> QED
    BY <1>2, <2>1, ClaimWrite DEF RecoverCredentialPreparation
<1>3. ASSUME NEW j \in Jobs, RollUp(p, j)
      PROVE  ClaimInv'
  BY <1>3, ClaimFrame DEF RollUp
<1>4. ASSUME NEW j \in Jobs, NEW a \in Rows, CleanupRPC(p, j, a) \/ CleanupDelete(p, j, a)
      PROVE  ClaimInv'
  BY <1>4, ClaimFrame DEF CleanupRPC, CleanupDelete
<1> QED
  BY <1>1, <1>2, <1>3, <1>4 DEF WorkerStep

\* Every step keeps ClaimInv.
LEMMA NextClaims ==
  ASSUME Typed, ClaimInv, [Next]_vars
  PROVE  ClaimInv'
<1>1. CASE UNCHANGED vars
  BY <1>1, ClaimFrame DEF vars
<1>2. ASSUME NEW p \in Replicas, Crash(p)
      PROVE  ClaimInv'
  BY <1>2, ClaimReturn DEF Crash, Return
<1>3. CASE BrokerStep
  BY <1>3, ClaimFrame DEF BrokerStep, BrokerIssue, RetryRevocations
<1>4. CASE \E a \in Attempts : PreparationExpires(a)
  BY <1>4, ClaimFrame DEF PreparationExpires
<1> QED
  BY <1>1, <1>2, <1>3, <1>4, ConnectionClaims, PumpStepClaims, WorkerStepClaims DEF Next

\* No job is claimed in the empty database.
LEMMA InitClaims == Init => ClaimInv
BY DEF Init, ClaimInv, HoldInv, SentJobIsOwned, SingleExecution

\* The type invariant and the shape of offers hold in every behaviour.
LEMMA TypedInvariant == Spec => []Typed
<1>1. Init => Typed
  BY InitTypes DEF Typed
<1>2. Typed /\ [Next]_vars => Typed'
  BY NextTypes DEF Typed
<1> QED
  BY <1>1, <1>2, PTL DEF Spec

\* Claims, offers and sent jobs agree in every behaviour.
LEMMA ClaimInvariant == Spec => []ClaimInv
<1>1. Typed /\ ClaimInv /\ [Next]_vars => ClaimInv'
  BY NextClaims
<1> QED
  BY InitClaims, <1>1, TypedInvariant, PTL DEF Spec

\* A job out on a stream and not finished runs under that very claim and no
\* pump works on it, although BlockJob and SetJobStatus check no claimant.
THEOREM OwnershipHolds == Spec => []SentJobIsOwned
<1>1. ClaimInv => SentJobIsOwned
  BY DEF ClaimInv
<1> QED
  BY <1>1, ClaimInvariant, PTL

\* No unfinished job is out on two streams, nor twice on one: any number of
\* replicas and runners, with crashes and commits whose answer was lost.
THEOREM NoDoubleExecution == Spec => []SingleExecution
<1>1. ClaimInv => SingleExecution
  BY DEF ClaimInv
<1> QED
  BY <1>1, ClaimInvariant, PTL

-----------------------------------------------------------------------------
(***************************************************************************)
(* Outcomes.  What a step may do to statuses, and what follows from it.    *)
(***************************************************************************)

\* A step leaves a terminal job alone, and settles a run only by what its
\* jobs are after the step.
JobsKeepOutcome == \A j \in Jobs : ~Active(j) => status'[j] = status[j]

RunsSettleByJobs ==
  \A u \in Runs : \/ runStatus'[u] = runStatus[u]
                  \/ runStatus[u] = "queued" /\ runStatus'[u] = "running"
                  \/ runStatus'[u] = Settled(u, status')

\* A write of active jobs is no write of a terminal one.
LEMMA WriteActive ==
  ASSUME NEW J, NEW s, Write(J, s), \A j \in J : Active(j)
  PROVE  JobsKeepOutcome
BY DEF Write, JobsKeepOutcome

\* Interrupting a runner's jobs touches no terminal job.
LEMMA InterruptOutcomes ==
  ASSUME NEW J, Interrupt(J), \A j \in J : Active(j)
  PROVE  JobsKeepOutcome /\ RunsSettleByJobs
<1>1. JobsKeepOutcome
  BY WriteActive DEF Interrupt
<1>2. RunsSettleByJobs
  BY DEF Interrupt, RunsSettleByJobs
<1> QED
  BY <1>1, <1>2

\* A roll-up settles a run by the outcomes of its jobs.
LEMMA RollUpOutcomes ==
  ASSUME Typed, NEW j \in Jobs, RollUpRunStatus(j) \/ UNCHANGED runStatus, UNCHANGED status
  PROVE  RunsSettleByJobs
BY DEF RollUpRunStatus, RunsSettleByJobs, Typed, TypeOK, JobTypes

\* No step of the system changes a terminal job.
LEMMA Outcomes ==
  ASSUME Typed, ClaimInv, [Next]_vars
  PROVE  JobsKeepOutcome /\ RunsSettleByJobs
<1>0. ASSUME UNCHANGED <<status, runStatus>>
      PROVE  JobsKeepOutcome /\ RunsSettleByJobs
  BY <1>0 DEF JobsKeepOutcome, RunsSettleByJobs
<1>1. ASSUME UNCHANGED status PROVE JobsKeepOutcome
  BY <1>1 DEF JobsKeepOutcome
<1>2. ASSUME UNCHANGED runStatus PROVE RunsSettleByJobs
  BY <1>2 DEF RunsSettleByJobs
<1>3. CASE UNCHANGED vars
  BY <1>0, <1>3 DEF vars
<1>4. CASE ConnectionStep
  <2>1. ASSUME NEW p \in Replicas, NEW r \in Runners, NEW c \in Conns,
               BeginRunnerConnection(p, r, c)
        PROVE  JobsKeepOutcome /\ RunsSettleByJobs
    BY <2>1, InterruptOutcomes DEF BeginRunnerConnection
  <2>2. ASSUME NEW c \in Conns, EndRunnerConnection(c)
        PROVE  JobsKeepOutcome /\ RunsSettleByJobs
    <3> DEFINE J == {j \in Jobs : runnerId[j] = runnerOf[c] /\ jobConn[j] = c /\ Active(j)}
    <3>1. Interrupt(J) \/ UNCHANGED <<status, runStatus>>
      BY <2>2 DEF EndRunnerConnection
    <3> QED
      BY <1>0, <3>1, InterruptOutcomes
  <2> QED
    BY <1>0, <1>4, <2>1, <2>2 DEF ConnectionStep, ActivateConnection, UnregisterConnection
<1>5. ASSUME NEW p \in Replicas, PumpStep(p)
      PROVE  JobsKeepOutcome /\ RunsSettleByJobs
  <2>1. CASE BlockJob(p)
    BY <1>0, <1>2, <2>1, WriteActive DEF BlockJob
  <2>2. CASE SetJobStatus(p)
    <3>1. pc[p] # "idle"
      BY <2>2 DEF SetJobStatus, At
    <3>2. ~Active(offer[p].job) => status[offer[p].job] = "failure"
      BY <3>1 DEF ClaimInv, HoldInv, Holds
    <3>3. JobsKeepOutcome
      BY <2>2, <3>2 DEF SetJobStatus, Write, JobsKeepOutcome
    <3> QED
      BY <1>2, <2>2, <3>3 DEF SetJobStatus
  <2>3. CASE PumpRollsUp(p)
    <3>1. offer[p].job \in Jobs
      BY <2>3, HeldTypes DEF PumpRollsUp, At
    <3> QED
      BY <1>1, <2>3, <3>1, RollUpOutcomes DEF PumpRollsUp
  <2>4. CASE StartClaimedJob(p)
    <3>1. JobsKeepOutcome
      BY <2>4 DEF StartClaimedJob, JobsKeepOutcome, Active, Terminal, Typed, TypeOK, JobTypes
    <3>2. RunsSettleByJobs
      BY <2>4 DEF StartClaimedJob, RunsSettleByJobs, Typed, TypeOK, JobTypes
    <3> QED
      BY <3>1, <3>2
  <2>5. CASE \/ Tick(p) \/ ClaimForDispatch(p) \/ CloneURLFails(p) \/ PrepareCredentials(p)
             \/ IssueJobLease(p) \/ IssueReturns(p) \/ RedeemJobLease(p) \/ RevokeAttempt(p)
             \/ AbandonCredentials(p) \/ DispatchTo(p)
    BY <1>0, <2>5 DEF Tick, ClaimForDispatch, CloneURLFails, PrepareCredentials, IssueJobLease,
                      IssueReturns, RedeemJobLease, RevokeAttempt, AbandonCredentials, DispatchTo
  <2> QED
    BY <1>5, <2>1, <2>2, <2>3, <2>4, <2>5 DEF PumpStep
<1>6. ASSUME NEW p \in Replicas, WorkerStep(p)
      PROVE  JobsKeepOutcome /\ RunsSettleByJobs
  <2>1. ASSUME NEW m \in sent, NEW s, ReportStatus(p, m, s)
        PROVE  JobsKeepOutcome /\ RunsSettleByJobs
    BY <1>0, <1>2, <2>1, WriteActive DEF ReportStatus
  <2>2. ASSUME NEW j \in Jobs, RollUp(p, j)
        PROVE  JobsKeepOutcome /\ RunsSettleByJobs
    BY <1>1, <2>2, RollUpOutcomes DEF RollUp
  <2>3. ASSUME NEW j \in Jobs, RecoverCredentialPreparation(p, j)
        PROVE  JobsKeepOutcome /\ RunsSettleByJobs
    <3>1. Active(j)
      BY <2>3 DEF RecoverCredentialPreparation, Active, Terminal
    <3> QED
      BY <1>2, <2>3, <3>1, WriteActive DEF RecoverCredentialPreparation
  <2> QED
    BY <1>0, <1>6, <2>1, <2>2, <2>3 DEF WorkerStep, CleanupRPC, CleanupDelete
<1> QED
  BY <1>0, <1>3, <1>4, <1>5, <1>6 DEF Next, Crash, BrokerStep, BrokerIssue, RetryRevocations,
     PreparationExpires

\* A terminal job and a settled run keep their outcome: a late release, a
\* late failure or a repeated receipt never rewrites history.
THEOREM OutcomesAreFinal == Spec => OutcomeIsFinal
<1> DEFINE Final == /\ \A j \in Jobs : ~Active(j) => status'[j] = status[j]
                    /\ \A u \in Runs : runStatus[u] \in Terminal => runStatus'[u] = runStatus[u]
<1>1. ASSUME Typed, ClaimInv, [Next]_vars
      PROVE  Final
  <2>1. JobsKeepOutcome /\ RunsSettleByJobs
    BY <1>1, Outcomes
  <2>2. \A u \in Runs : runStatus[u] \in Terminal => runStatus'[u] = runStatus[u]
    BY <2>1 DEF RunsSettleByJobs, Settled, Terminal
  <2> QED
    BY <2>1, <2>2 DEF JobsKeepOutcome
<1>2. Typed /\ ClaimInv /\ [Next]_vars => [Final]_vars
  BY <1>1
<1> QED
  BY <1>2, TypedInvariant, ClaimInvariant, PTL DEF Spec, OutcomeIsFinal

\* A settled run agrees with its jobs after the step that settles it, and no
\* later step changes either.
LEMMA NextSettled ==
  ASSUME Typed, ClaimInv, SettledRunAgrees, [Next]_vars
  PROVE  SettledRunAgrees'
<1> SUFFICES ASSUME NEW u \in Runs, runStatus'[u] \in Terminal
             PROVE  /\ \A j \in JobsOf(u) : ~Active(j)'
                    /\ runStatus'[u] = "success" <=> \A j \in JobsOf(u) : status'[j] = "success"
  BY DEF SettledRunAgrees, JobsOf
<1>1. JobsKeepOutcome /\ RunsSettleByJobs
  BY Outcomes
<1>2. JobsOf(u) \subseteq Jobs
  BY DEF JobsOf
<1>3. CASE runStatus[u] \in Terminal
  <2>1. runStatus'[u] = runStatus[u]
    BY <1>1, <1>3 DEF RunsSettleByJobs, Settled, Terminal
  <2>2. \A j \in JobsOf(u) : ~Active(j) /\ status'[j] = status[j]
    BY <1>1, <1>2, <1>3 DEF SettledRunAgrees, JobsKeepOutcome
  <2> QED
    BY <1>3, <2>1, <2>2 DEF SettledRunAgrees, Active
<1>4. CASE runStatus[u] \notin Terminal
  <2>1. runStatus'[u] = Settled(u, status')
    BY <1>1, <1>4 DEF RunsSettleByJobs, Terminal
  <2>2. /\ \A j \in JobsOf(u) : status'[j] \in Terminal
        /\ runStatus'[u] = IF \E j \in JobsOf(u) : status'[j] \in {"failure", "cancelled"}
                           THEN "failure" ELSE "success"
    BY <1>4, <2>1 DEF Settled
  <2> QED
    BY <2>2 DEF Active, Terminal
<1> QED
  BY <1>3, <1>4

\* A settled run tells the truth about its jobs.
THEOREM SettlementIsTrue == Spec => []SettledRunAgrees
<1>1. Init => SettledRunAgrees
  BY DEF Init, SettledRunAgrees, Terminal
<1>2. Typed /\ ClaimInv /\ SettledRunAgrees /\ [Next]_vars => SettledRunAgrees'
  BY NextSettled
<1> QED
  BY <1>1, <1>2, TypedInvariant, ClaimInvariant, PTL DEF Spec

\* The jobs pumps hold and streams carry change only by claims and sends.
LEMMA HeldOrigin ==
  ASSUME Typed, [Next]_vars
  PROVE  /\ \A q \in Replicas : pc'[q] # "idle" =>
              \/ pc[q] # "idle" /\ offer'[q].job = offer[q].job
              \/ /\ UNCHANGED status
                 /\ \A d \in Needs[offer'[q].job] : status[d] = "success"
         /\ \A m \in sent' : m \in sent \/ \E q \in Replicas : pc[q] # "idle" /\ m = offer[q]
<1> DEFINE Kept == \A q \in Replicas : pc'[q] # "idle" =>
                     pc[q] # "idle" /\ offer'[q].job = offer[q].job
           Sent == \A m \in sent' : m \in sent \/ \E q \in Replicas : pc[q] # "idle" /\ m = offer[q]
<1>1. ASSUME UNCHANGED <<pc, offer>> PROVE Kept
  BY <1>1
<1>2. ASSUME NEW p \in Replicas, Return(p) PROVE Kept
  BY <1>2, ReturnFacts
<1>3. ASSUME NEW p \in Replicas, NEW step, Goto(p, step), pc[p] # "idle", UNCHANGED offer
      PROVE  Kept
  BY <1>3 DEF Goto, Typed, TypeOK, PumpTypes
<1>4. ASSUME UNCHANGED sent PROVE Sent
  BY <1>4
<1>5. CASE UNCHANGED vars
  BY <1>1, <1>4, <1>5 DEF vars
<1>6. CASE ConnectionStep
  BY <1>1, <1>4, <1>6 DEF ConnectionStep, BeginRunnerConnection, ActivateConnection,
     UnregisterConnection, EndRunnerConnection
<1>7. ASSUME NEW p \in Replicas, WorkerStep(p)
      PROVE  Kept /\ Sent
  BY <1>1, <1>4, <1>7 DEF WorkerStep, ReportStatus, RollUp, RecoverCredentialPreparation,
     CleanupRPC, CleanupDelete
<1>8. ASSUME NEW p \in Replicas, Crash(p)
      PROVE  Kept /\ Sent
  BY <1>2, <1>4, <1>8 DEF Crash, Return
<1>9. CASE BrokerStep \/ \E a \in Attempts : PreparationExpires(a)
  BY <1>1, <1>4, <1>9 DEF BrokerStep, BrokerIssue, RetryRevocations, PreparationExpires
<1>10. ASSUME NEW p \in Replicas, ClaimForDispatch(p), NEW q \in Replicas, pc'[q] # "idle"
       PROVE  \/ pc[q] # "idle" /\ offer'[q].job = offer[q].job
              \/ /\ UNCHANGED status
                 /\ \A d \in Needs[offer'[q].job] : status[d] = "success"
  <2>1. PICK r \in Runners, c \in Conns :
          \/ \E j \in Jobs : Claim(r, c, j) /\ (BeginOffer(p, r, c, j) \/ NextRunner(p, r, c))
          \/ NextRunner(p, r, c) /\ UNCHANGED <<runnerId, jobConn>>
    BY <1>10 DEF ClaimForDispatch
  <2>2. CASE NextRunner(p, r, c)
    BY <1>10, <2>2 DEF NextRunner
  <2>3. ASSUME NEW j \in Jobs, Claim(r, c, j), BeginOffer(p, r, c, j)
        PROVE  \/ pc[q] # "idle" /\ offer'[q].job = offer[q].job
               \/ /\ UNCHANGED status
                  /\ \A d \in Needs[offer'[q].job] : status[d] = "success"
    <3>1. /\ q # p => pc'[q] = pc[q] /\ offer'[q] = offer[q]
          /\ offer'[p].job = j
      BY <2>3 DEF BeginOffer, Goto, Typed, TypeOK, PumpTypes
    <3>2. UNCHANGED status /\ \A d \in Needs[j] : status[d] = "success"
      BY <1>10, <2>3 DEF ClaimForDispatch, Claim, Claimable
    <3> QED
      BY <1>10, <3>1, <3>2
  <2> QED
    BY <2>1, <2>2, <2>3
<1>11. ASSUME NEW p \in Replicas, PumpStep(p), ~ClaimForDispatch(p)
       PROVE  Kept /\ Sent
  <2>1. CASE Tick(p)
    BY <1>1, <1>4, <2>1 DEF Tick
  <2>2. CASE \/ CloneURLFails(p) \/ IssueJobLease(p) \/ IssueReturns(p) \/ RedeemJobLease(p)
             \/ RevokeAttempt(p) \/ StartClaimedJob(p)
    <3>1. /\ \E step : Goto(p, step)
          /\ pc[p] # "idle" /\ UNCHANGED <<offer, sent>>
      BY <2>2 DEF CloneURLFails, IssueJobLease, IssueReturns, RedeemJobLease, RevokeAttempt,
                  StartClaimedJob, GiveUp, At
    <3> QED
      BY <1>3, <1>4, <3>1
  <2>3. CASE PrepareCredentials(p)
    <3>1. PICK a : offer' = [offer EXCEPT ![p] =
                   [runner |-> offer[p].runner, conn |-> offer[p].conn,
                    job |-> offer[p].job, attempt |-> a]]
      BY <2>3 DEF PrepareCredentials
    <3>2. \E step : Goto(p, step)
      BY <2>3 DEF PrepareCredentials
    <3>3. Kept
      BY <2>3, <3>1, <3>2 DEF PrepareCredentials, At, Goto, Typed, TypeOK, PumpTypes
    <3> QED
      BY <1>4, <2>3, <3>3 DEF PrepareCredentials
  <2>4. CASE AbandonCredentials(p) \/ BlockJob(p) \/ SetJobStatus(p) \/ PumpRollsUp(p)
    <3>1. /\ Return(p) \/ (pc[p] # "idle" /\ UNCHANGED offer /\ \E step : Goto(p, step))
          /\ UNCHANGED sent
      BY <2>4 DEF AbandonCredentials, AfterAbandon, BlockJob, SetJobStatus, PumpRollsUp,
                  DoneWith, TryAnother, At
    <3> QED
      BY <1>2, <1>3, <1>4, <3>1
  <2>5. CASE DispatchTo(p)
    <3>1. /\ Return(p) \/ (UNCHANGED offer /\ \E step : Goto(p, step))
          /\ pc[p] # "idle"
      BY <2>5 DEF DispatchTo, DoneWith, GiveUp, At
    <3>2. Kept
      BY <1>2, <1>3, <3>1
    <3>3. Sent
      BY <2>5, <3>1 DEF DispatchTo
    <3> QED
      BY <3>2, <3>3
  <2> QED
    BY <1>11, <2>1, <2>2, <2>3, <2>4, <2>5 DEF PumpStep
<1>12. ASSUME NEW p \in Replicas, ClaimForDispatch(p) PROVE Sent
  BY <1>4, <1>12 DEF ClaimForDispatch
<1> QED
  BY <1>5, <1>6, <1>7, <1>8, <1>9, <1>10, <1>11, <1>12 DEF Next

\* Every step keeps the success of what held and sent jobs need.
LEMMA NextNeeds ==
  ASSUME Typed, ClaimInv, NeedsInv, [Next]_vars
  PROVE  NeedsInv'
<1>1. \A d \in Jobs : status[d] = "success" => status'[d] = "success"
  BY Outcomes DEF JobsKeepOutcome, Active, Terminal
<1>2. ASSUME NEW q \in Replicas, pc'[q] # "idle", NEW d \in Needs[offer'[q].job]
      PROVE  status'[d] = "success"
  <2>1. CASE pc[q] # "idle" /\ offer'[q].job = offer[q].job
    <3>1. d \in Jobs
      BY <1>2, <2>1, HeldTypes, DispatchAssumption
    <3> QED
      BY <1>1, <1>2, <2>1, <3>1 DEF NeedsInv
  <2> QED
    BY <1>2, <2>1, HeldOrigin
<1>3. ASSUME NEW m \in sent', NEW d \in Needs[m.job]
      PROVE  status'[d] = "success"
  <2>1. /\ m \in sent \/ \E q \in Replicas : pc[q] # "idle" /\ m = offer[q]
        /\ m.job \in Jobs
    BY <1>3, HeldOrigin, HeldTypes
  <2>2. d \in Jobs
    BY <1>3, <2>1, DispatchAssumption
  <2> QED
    BY <1>1, <1>3, <2>1, <2>2 DEF NeedsInv, NeedsSucceeded
<1> QED
  BY <1>2, <1>3 DEF NeedsInv, NeedsSucceeded

\* No job is on a stream before everything it needs has succeeded.
THEOREM NeedsAreMet == Spec => []NeedsSucceeded
<1>1. Init => NeedsInv
  BY DEF Init, NeedsInv, NeedsSucceeded
<1>2. Typed /\ ClaimInv /\ NeedsInv /\ [Next]_vars => NeedsInv'
  BY NextNeeds
<1>3. NeedsInv => NeedsSucceeded
  BY DEF NeedsInv
<1> QED
  BY <1>1, <1>2, <1>3, TypedInvariant, ClaimInvariant, PTL DEF Spec

-----------------------------------------------------------------------------
(***************************************************************************)
(* The credential outbox.  The definitions below say what one step of the  *)
(* system can do to a row of the outbox, to a lease and to an offer; the   *)
(* two invariants follow from these moves.                                 *)
(***************************************************************************)

\* The steps at which an offer gives its attempt up.
Abandoning == {"abandonBlock", "abandonRelease", "abandonFail"}

Owns(p, j, a) == offer[p].job = j /\ offer[p].attempt = a

\* The ways a row of the outbox can change: with its job's end, ...
Fenced(j, a) ==
  /\ ~Active(j)'
  /\ j \in Secrets
  /\ cleanup'[j][a] = "cleanup"
  /\ cleanup[j][a] # "none" \/ a = Nil

\* ... by the preparation of a new attempt, ...
Fresh(j, a) ==
  /\ a \in Attempts \ usedAttempts
  /\ status[j] = "pending" /\ j \in Secrets
  /\ UNCHANGED status
  /\ cleanup'[j][a] = "preparing"

\* ... by the start of the job, ...
Started(j, a) ==
  \E p \in Replicas :
    /\ pc[p] = "ready" /\ Owns(p, j, a)
    /\ cleanup[j][a] = "preparing" /\ cleanup'[j][a] = "dispatched"
    /\ status'[j] = "running"
    /\ pc'[p] \in {"send", "abandonRelease"}
    /\ UNCHANGED <<lease, inflight>>

\* ... by its offer giving up, ...
Abandoned(j, a) ==
  \E p \in Replicas :
    /\ pc[p] \in Abandoning /\ Owns(p, j, a)
    /\ cleanup[j][a] # "none" /\ cleanup'[j][a] = "cleanup"
    /\ UNCHANGED status

\* ... or by an acknowledged cleanup.
Deleted(j, a) ==
  /\ \E p \in Replicas : <<p, j, a>> \in acked
  /\ cleanup[j][a] = "cleanup" /\ cleanup'[j][a] = "none"

RowMoves ==
  \A j \in Jobs, a \in Rows :
    \/ cleanup'[j][a] = cleanup[j][a]
    \/ Fenced(j, a) \/ Fresh(j, a) \/ Started(j, a) \/ Abandoned(j, a) \/ Deleted(j, a)

\* A job ends with its rows due for cleanup, and is started by its offer.
JobMoves ==
  \A j \in Jobs :
    /\ ~Active(j)' => \/ ~Active(j)
                      \/ j \notin Secrets
                      \/ \A a \in Rows : cleanup'[j][a] \in {"none", "cleanup"}
    /\ status'[j] = "running" =>
         \/ status[j] = "running"
         \/ \E p \in Replicas :
              /\ pc[p] \in {"claimed", "ready"} /\ offer[p].job = j /\ status[j] = "pending"
              /\ offer[p].attempt # None => cleanup'[j][offer[p].attempt] = "dispatched"
              /\ UNCHANGED <<offer, sent>>
              /\ \A q \in Replicas : q # p => pc'[q] = pc[q]

RowFrame == RowMoves /\ JobMoves

\* Nothing moves where the tables are left alone.
LEMMA RowsStay ==
  ASSUME UNCHANGED <<status, cleanup>>
  PROVE  RowFrame
BY DEF RowFrame, RowMoves, JobMoves, Active

\* Jobs end by Write, whose trigger is the only other writer of their rows.
LEMMA WriteRows ==
  ASSUME Typed, NEW J, NEW s \in Terminal, Write(J, s)
  PROVE  RowFrame
<1>1. \A j \in Jobs : status'[j] = IF j \in J THEN s ELSE status[j]
  BY DEF Write
<1>2. \A j \in Jobs, a \in Rows :
        cleanup'[j][a] = IF j \in J \cap Secrets
                         THEN IF a = Nil \/ cleanup[j][a] # "none" THEN "cleanup" ELSE "none"
                         ELSE cleanup[j][a]
  BY DEF Write, FenceRows
<1>3. RowMoves
  BY <1>1, <1>2 DEF RowMoves, Fenced, Active
<1>4. JobMoves
  BY <1>1, <1>2 DEF JobMoves, Active, Terminal
<1> QED
  BY <1>3, <1>4 DEF RowFrame

\* A row written alone, its job's status left alone.
LEMMA RowSet ==
  ASSUME Typed, NEW j \in Jobs, NEW a \in Rows, NEW ph, UNCHANGED status,
         cleanup' = [cleanup EXCEPT ![j][a] = ph],
         Fresh(j, a) \/ Abandoned(j, a) \/ Deleted(j, a)
  PROVE  RowFrame
<1>1. \A i \in Jobs, b \in Rows : (i # j \/ b # a) => cleanup'[i][b] = cleanup[i][b]
  BY DEF Typed, TypeOK, OutboxTypes
<1>2. RowMoves
  BY <1>1 DEF RowMoves
<1>3. JobMoves
  BY DEF JobMoves, Active
<1> QED
  BY <1>2, <1>3 DEF RowFrame

\* Drawing an attempt writes the row of that attempt.
LEMMA PrepareRows ==
  ASSUME Typed, NEW p \in Replicas, PrepareCredentials(p)
  PROVE  RowFrame
<1>1. CASE UNCHANGED cleanup
  BY <1>1, RowsStay DEF PrepareCredentials
<1>2. CASE ~UNCHANGED cleanup
  <2>1. PICK a \in Attempts \ usedAttempts :
          /\ status[offer[p].job] = "pending"
          /\ cleanup' = [cleanup EXCEPT ![offer[p].job][a] = "preparing"]
    BY <1>2 DEF PrepareCredentials
  <2>2. PICK j \in Jobs : j = offer[p].job
    BY HeldTypes DEF PrepareCredentials, At
  <2>3. a \in Rows /\ UNCHANGED status /\ j \in Secrets
    BY <2>2 DEF PrepareCredentials, Rows
  <2>4. cleanup'[j][a] = "preparing"
    BY <2>1, <2>2, <2>3 DEF Typed, TypeOK, OutboxTypes
  <2>5. Fresh(j, a)
    BY <2>1, <2>2, <2>3, <2>4 DEF Fresh
  <2> QED
    BY <2>1, <2>2, <2>3, <2>5, RowSet
<1> QED
  BY <1>1, <1>2

\* Giving an attempt up makes its row due for cleanup.
LEMMA AbandonRows ==
  ASSUME Typed, NEW p \in Replicas, AbandonCredentials(p)
  PROVE  RowFrame
<1>1. CASE UNCHANGED cleanup
  BY <1>1, RowsStay DEF AbandonCredentials
<1>2. CASE ~UNCHANGED cleanup
  <2>0. pc[p] \in Abandoning
    BY DEF AbandonCredentials, AfterAbandon, Abandoning
  <2>1. PICK j \in Jobs, a \in Attempts : Owns(p, j, a)
    BY <2>0, HeldTypes DEF Owns, Typed, OfferInv, Abandoning, HasAttempt
  <2>2. cleanup[j][a] # "none" /\ cleanup' = [cleanup EXCEPT ![j][a] = "cleanup"]
    BY <1>2, <2>1 DEF AbandonCredentials, Owns
  <2>3. a \in Rows /\ UNCHANGED status
    BY DEF AbandonCredentials, Rows
  <2>4. cleanup'[j][a] = "cleanup"
    BY <2>2, <2>3 DEF Typed, TypeOK, OutboxTypes
  <2>5. Abandoned(j, a)
    BY <2>0, <2>1, <2>2, <2>3, <2>4 DEF Abandoned
  <2> QED
    BY <2>2, <2>3, <2>5, RowSet
<1> QED
  BY <1>1, <1>2

\* Starting a job moves its row with it.
LEMMA StartRows ==
  ASSUME Typed, NEW p \in Replicas, StartClaimedJob(p)
  PROVE  RowFrame
<1>1. CASE UNCHANGED <<status, cleanup>>
  BY <1>1, RowsStay
<1>2. CASE ~UNCHANGED <<status, cleanup>>
  <2>1. PICK j \in Jobs, a \in Attempts \cup {None} : Owns(p, j, a)
    BY HeldTypes DEF StartClaimedJob, At, Owns, Typed, TypeOK, PumpTypes, Offers
  <2>2. /\ status[j] = "pending"
        /\ a # None => cleanup[j][a] = "preparing"
        /\ status' = [status EXCEPT ![j] = "running"]
        /\ cleanup' = IF a = None THEN cleanup ELSE [cleanup EXCEPT ![j][a] = "dispatched"]
        /\ Goto(p, "send") \/ GiveUp(p)
    BY <1>2, <2>1 DEF StartClaimedJob, Owns
  <2>3. /\ pc[p] \in {"claimed", "ready"}
        /\ a # None => pc[p] = "ready"
        /\ UNCHANGED <<offer, sent, lease, inflight>>
    BY <2>1 DEF StartClaimedJob, At, Owns, Typed, OfferInv
  <2>4. /\ \A q \in Replicas : q # p => pc'[q] = pc[q]
        /\ a # None => pc'[p] \in {"send", "abandonRelease"}
    BY <2>1, <2>2 DEF Goto, GiveUp, Owns, Typed, TypeOK, PumpTypes
  <2>5. \A i \in Jobs : status'[i] = IF i = j THEN "running" ELSE status[i]
    BY <2>2 DEF Typed, TypeOK, JobTypes
  <2>6. a # None => a \in Rows /\ cleanup'[j][a] = "dispatched"
    BY <2>2 DEF Rows, Typed, TypeOK, OutboxTypes
  <2>7. \A i \in Jobs, b \in Rows : (i # j \/ b # a) => cleanup'[i][b] = cleanup[i][b]
    BY <2>2 DEF Typed, TypeOK, OutboxTypes
  <2>8. a # None => Started(j, a)
    BY <2>1, <2>2, <2>3, <2>4, <2>5, <2>6 DEF Started
  <2>9. None \notin Attempts
    BY DispatchAssumption
  <2>10. RowMoves
    <3> SUFFICES ASSUME NEW i \in Jobs, NEW b \in Rows, cleanup'[i][b] # cleanup[i][b]
                 PROVE  Started(i, b)
      BY DEF RowMoves
    <3>1. i = j /\ b = a
      BY <2>7
    <3>2. a # None
      BY <2>2, <3>1
    <3> QED
      BY <2>8, <3>1, <3>2
  <2>11. JobMoves
    <3>1. ASSUME NEW i \in Jobs PROVE ~Active(i)' => ~Active(i)
      BY <2>5 DEF Active, Terminal
    <3>2. ASSUME NEW i \in Jobs, status'[i] = "running", status[i] # "running"
          PROVE  /\ pc[p] \in {"claimed", "ready"} /\ offer[p].job = i /\ status[i] = "pending"
                 /\ offer[p].attempt # None => cleanup'[i][offer[p].attempt] = "dispatched"
                 /\ UNCHANGED <<offer, sent>>
                 /\ \A q \in Replicas : q # p => pc'[q] = pc[q]
      <4>1. i = j
        BY <2>5, <3>2
      <4> QED
        BY <2>1, <2>2, <2>3, <2>4, <2>6, <4>1 DEF Owns
    <3> QED
      BY <3>1, <3>2 DEF JobMoves
  <2> QED
    BY <2>10, <2>11 DEF RowFrame
<1> QED
  BY <1>1, <1>2

\* Every step moves the rows and the jobs as described.
LEMMA NextRows ==
  ASSUME Typed, [Next]_vars
  PROVE  RowFrame
<1>0. "failure" \in Terminal /\ "success" \in Terminal /\ "pending" \notin Terminal
  BY DEF Terminal
<1>1. CASE UNCHANGED vars
  BY <1>1, RowsStay DEF vars
<1>2. CASE ConnectionStep
  <2>1. ASSUME NEW p \in Replicas, NEW r \in Runners, NEW c \in Conns,
               BeginRunnerConnection(p, r, c)
        PROVE  RowFrame
    BY <1>0, <2>1, WriteRows DEF BeginRunnerConnection, Interrupt
  <2>2. ASSUME NEW c \in Conns, EndRunnerConnection(c)
        PROVE  RowFrame
    <3>1. (\E J : Write(J, "failure")) \/ UNCHANGED <<status, cleanup>>
      BY <2>2 DEF EndRunnerConnection, Interrupt
    <3> QED
      BY <1>0, <3>1, RowsStay, WriteRows
  <2> QED
    BY <1>2, <2>1, <2>2, RowsStay DEF ConnectionStep, ActivateConnection, UnregisterConnection
<1>3. ASSUME NEW p \in Replicas, PumpStep(p)
      PROVE  RowFrame
  <2>1. CASE BlockJob(p)
    <3>1. CASE UNCHANGED <<status, cleanup>>
      BY <3>1, RowsStay
    <3>2. CASE Write({offer[p].job}, "pending")
      <4>1. /\ \A j \in Jobs : status'[j] = status[j] \/ status'[j] = "pending"
            /\ UNCHANGED cleanup
        BY <1>0, <3>2 DEF Write
      <4>2. RowMoves
        BY <4>1 DEF RowMoves
      <4>3. JobMoves
        BY <1>0, <4>1 DEF JobMoves, Active
      <4> QED
        BY <4>2, <4>3 DEF RowFrame
    <3> QED
      BY <2>1, <3>1, <3>2 DEF BlockJob
  <2>2. CASE SetJobStatus(p)
    BY <1>0, <2>2, RowsStay, WriteRows DEF SetJobStatus
  <2>3. CASE \/ Tick(p) \/ ClaimForDispatch(p) \/ CloneURLFails(p) \/ IssueJobLease(p)
             \/ IssueReturns(p) \/ RedeemJobLease(p) \/ RevokeAttempt(p) \/ PumpRollsUp(p)
             \/ DispatchTo(p)
    BY <2>3, RowsStay DEF Tick, ClaimForDispatch, CloneURLFails, IssueJobLease, IssueReturns,
       RedeemJobLease, RevokeAttempt, PumpRollsUp, DispatchTo
  <2> QED
    BY <1>3, <2>1, <2>2, <2>3, PrepareRows, AbandonRows, StartRows DEF PumpStep
<1>4. ASSUME NEW p \in Replicas, WorkerStep(p)
      PROVE  RowFrame
  <2>1. ASSUME NEW m \in sent, NEW s \in {"success", "failure"}, ReportStatus(p, m, s)
        PROVE  RowFrame
    <3>1. Write({m.job}, s) \/ UNCHANGED <<status, cleanup>>
      BY <2>1 DEF ReportStatus
    <3> QED
      BY <1>0, <3>1, RowsStay, WriteRows
  <2>2. ASSUME NEW j \in Jobs, RecoverCredentialPreparation(p, j)
        PROVE  RowFrame
    BY <1>0, <2>2, WriteRows DEF RecoverCredentialPreparation
  <2>3. ASSUME NEW j \in Jobs, NEW a \in Rows, CleanupDelete(p, j, a)
        PROVE  RowFrame
    <3>1. CASE cleanup[j][a] # "cleanup"
      BY <2>3, <3>1, RowsStay DEF CleanupDelete
    <3>2. CASE cleanup[j][a] = "cleanup"
      <4>1. UNCHANGED status /\ cleanup' = [cleanup EXCEPT ![j][a] = "none"]
        BY <2>3, <3>2 DEF CleanupDelete
      <4>2. cleanup'[j][a] = "none"
        BY <4>1 DEF Typed, TypeOK, OutboxTypes
      <4>3. Deleted(j, a)
        BY <2>3, <3>2, <4>2 DEF CleanupDelete, Deleted
      <4> QED
        BY <4>1, <4>3, RowSet
    <3> QED
      BY <3>1, <3>2
  <2> QED
    BY <1>4, <2>1, <2>2, <2>3, RowsStay DEF WorkerStep, RollUp, CleanupRPC
<1> QED
  BY <1>1, <1>2, <1>3, <1>4, RowsStay DEF Next, Crash, BrokerStep, BrokerIssue,
     RetryRevocations, PreparationExpires

\* The ways a lease can change: a request admitted while its scope is open, ...
Issued(j, a) ==
  /\ <<j, a>> \in inflight /\ ~Closed(j, a)
  /\ UNCHANGED <<cleanup, pc, offer>>

\* ... a revocation by the cleanup of a row that covers it, or by its offer, ...
Revoked(j, a) ==
  /\ Outstanding(j, a)
  /\ \/ \E b \in Rows : a \in Scope(b) /\ cleanup[j][b] = "cleanup" /\ UNCHANGED cleanup
     \/ \E p \in Replicas : /\ pc[p] \in {"revokeBlock", "revokeFail"} /\ Owns(p, j, a)
                            /\ pc'[p] \in Abandoning
                            /\ UNCHANGED cleanup

\* ... or a retried revocation.
Retried(j, a) == lease[j][a] = "revoking" /\ lease'[j][a] = "revoked"

LeaseMoves ==
  \A j \in Jobs, a \in Attempts :
    /\ lease'[j][a] = lease[j][a] \/ Issued(j, a) \/ Revoked(j, a) \/ Retried(j, a)
    /\ <<j, a>> \in inflight' =>
         \/ <<j, a>> \in inflight
         \/ \E p \in Replicas : pc[p] = "resolve" /\ Owns(p, j, a) /\ pc'[p] = "issuing"
                                /\ UNCHANGED <<cleanup, lease>>

FenceMoves == \A j \in Jobs : fence[j] \subseteq fence'[j]

AckMoves ==
  \A p \in Replicas, j \in Jobs, a \in Rows : <<p, j, a>> \in acked' =>
    \/ <<p, j, a>> \in acked
    \/ a \in fence'[j] /\ \A b \in Scope(a) : ~Outstanding(j, b)'

BrokerFrames == LeaseMoves /\ FenceMoves /\ AckMoves

\* Nothing moves at the broker where nobody calls it.
LEMMA BrokerStays ==
  ASSUME UNCHANGED <<inflight, lease, fence>>, acked' \subseteq acked
  PROVE  BrokerFrames
BY DEF BrokerFrames, LeaseMoves, FenceMoves, AckMoves

\* Closing a scope, lease by lease.
LEMMA RevokeFacts ==
  ASSUME Typed, NEW j \in Jobs, NEW a \in Rows, RevokeRunLeases(j, a)
  PROVE  /\ FenceMoves
         /\ a \in fence'[j]
         /\ \A i \in Jobs, b \in Attempts :
              lease'[i][b] # lease[i][b] => i = j /\ b \in Scope(a) /\ Outstanding(j, b)
<1>1. fence' = [fence EXCEPT ![j] = @ \cup {a}]
  BY DEF RevokeRunLeases
<1>2. FenceMoves /\ a \in fence'[j]
  BY <1>1 DEF FenceMoves, Typed, TypeOK, BrokerTypes
<1>3. PICK done : lease' = [lease EXCEPT ![j] = [b \in Attempts |->
                   IF b \in Scope(a) /\ Outstanding(j, b)
                   THEN IF b \in done THEN "revoked" ELSE "revoking"
                   ELSE lease[j][b]]]
  BY DEF RevokeRunLeases
<1>4. \A i \in Jobs : i # j => lease'[i] = lease[i]
  BY <1>3 DEF Typed, TypeOK, BrokerTypes
<1>5. \A b \in Attempts : ~(b \in Scope(a) /\ Outstanding(j, b)) => lease'[j][b] = lease[j][b]
  BY <1>3 DEF Typed, TypeOK, BrokerTypes
<1> QED
  BY <1>2, <1>4, <1>5

\* Every step moves leases, fences and acknowledgements as described.
LEMMA NextBroker ==
  ASSUME Typed, [Next]_vars
  PROVE  BrokerFrames
<1>1. CASE UNCHANGED vars
  BY <1>1, BrokerStays DEF vars
<1>2. CASE ConnectionStep
  BY <1>2, BrokerStays DEF ConnectionStep, BeginRunnerConnection, ActivateConnection,
     UnregisterConnection, EndRunnerConnection
<1>3. ASSUME NEW p \in Replicas, PumpStep(p)
      PROVE  BrokerFrames
  <2>1. CASE IssueJobLease(p)
    <3>1. /\ pc[p] = "resolve" /\ pc'[p] = "issuing"
          /\ inflight' = inflight \cup {<<offer[p].job, offer[p].attempt>>}
          /\ UNCHANGED <<cleanup, lease, fence, acked>>
      BY <2>1 DEF IssueJobLease, At, Goto, Typed, TypeOK, PumpTypes
    <3>2. LeaseMoves
      BY <3>1 DEF LeaseMoves, Owns
    <3> QED
      BY <3>1, <3>2 DEF BrokerFrames, FenceMoves, AckMoves
  <2>2. CASE RevokeAttempt(p)
    <3>1. /\ pc[p] \in {"revokeBlock", "revokeFail"} /\ pc'[p] \in Abandoning
          /\ UNCHANGED <<cleanup, inflight, acked>>
      BY <2>2 DEF RevokeAttempt, At, Goto, Abandoning, Typed, TypeOK, PumpTypes
    <3>2. CASE UNCHANGED <<lease, fence>>
      BY <3>1, <3>2, BrokerStays
    <3>3. CASE RevokeRunLeases(offer[p].job, offer[p].attempt)
      <4>1. PICK j \in Jobs, a \in Attempts : Owns(p, j, a)
        BY <3>1, HeldTypes DEF Owns, Typed, OfferInv, HasAttempt
      <4>2. a \in Rows /\ Scope(a) = {a} /\ RevokeRunLeases(j, a)
        BY <3>3, <4>1, DispatchAssumption DEF Owns, Rows, Scope
      <4>3. /\ FenceMoves
            /\ \A i \in Jobs, b \in Attempts :
                 lease'[i][b] # lease[i][b] => i = j /\ b = a /\ Outstanding(j, b)
        BY <4>2, RevokeFacts
      <4>4. LeaseMoves
        BY <3>1, <4>1, <4>3 DEF LeaseMoves, Revoked
      <4>5. AckMoves
        BY <3>1 DEF AckMoves
      <4> QED
        BY <4>3, <4>4, <4>5 DEF BrokerFrames
    <3> QED
      BY <2>2, <3>2, <3>3 DEF RevokeAttempt
  <2>3. CASE \/ Tick(p) \/ ClaimForDispatch(p) \/ CloneURLFails(p) \/ PrepareCredentials(p)
             \/ IssueReturns(p) \/ RedeemJobLease(p) \/ AbandonCredentials(p) \/ BlockJob(p)
             \/ SetJobStatus(p) \/ PumpRollsUp(p) \/ StartClaimedJob(p) \/ DispatchTo(p)
    <3>1. UNCHANGED <<inflight, lease, fence, acked>>
      BY <2>3 DEF Tick, ClaimForDispatch, CloneURLFails, PrepareCredentials, IssueReturns,
         RedeemJobLease, AbandonCredentials, BlockJob, SetJobStatus, PumpRollsUp,
         StartClaimedJob, DispatchTo
    <3> QED
      BY <3>1, BrokerStays
  <2> QED
    BY <1>3, <2>1, <2>2, <2>3 DEF PumpStep
<1>4. ASSUME NEW p \in Replicas, WorkerStep(p)
      PROVE  BrokerFrames
  <2>1. ASSUME NEW j \in Jobs, NEW a \in Rows, CleanupRPC(p, j, a)
        PROVE  BrokerFrames
    <3>1. /\ cleanup[j][a] = "cleanup" /\ UNCHANGED <<cleanup, inflight>>
          /\ RevokeRunLeases(j, a)
      BY <2>1 DEF CleanupRPC
    <3>2. LeaseMoves
      <4> SUFFICES ASSUME NEW i \in Jobs, NEW b \in Attempts, lease'[i][b] # lease[i][b]
                   PROVE  Revoked(i, b)
        BY <3>1 DEF LeaseMoves
      <4>1. i = j /\ b \in Scope(a) /\ Outstanding(j, b)
        BY <3>1, RevokeFacts
      <4> QED
        BY <3>1, <4>1 DEF Revoked
    <3>3. AckMoves
      <4>1. a \in fence'[j]
        BY <3>1, RevokeFacts
      <4>2. \/ UNCHANGED acked
            \/ /\ \A b \in Scope(a) : lease'[j][b] \in {"none", "revoked"}
               /\ acked' = acked \cup {<<p, j, a>>}
        BY <2>1 DEF CleanupRPC
      <4> QED
        BY <4>1, <4>2 DEF AckMoves, Outstanding
    <3> QED
      BY <3>1, <3>2, <3>3, RevokeFacts DEF BrokerFrames
  <2> QED
    BY <1>4, <2>1, BrokerStays DEF WorkerStep, ReportStatus, RollUp,
       RecoverCredentialPreparation, CleanupDelete
<1>5. ASSUME NEW p \in Replicas, Crash(p)
      PROVE  BrokerFrames
  BY <1>5, BrokerStays DEF Crash
<1>6. ASSUME NEW j \in Jobs, NEW a \in Attempts, BrokerIssue(j, a)
      PROVE  BrokerFrames
  <2>1. /\ <<j, a>> \in inflight /\ inflight' \subseteq inflight
        /\ UNCHANGED <<cleanup, pc, offer, fence, acked>>
        /\ UNCHANGED lease \/ (~Closed(j, a) /\ \E l : lease' = [lease EXCEPT ![j][a] = l])
    BY <1>6 DEF BrokerIssue
  <2>2. \A i \in Jobs, b \in Attempts : lease'[i][b] # lease[i][b] => Issued(i, b)
    BY <2>1 DEF Issued, Typed, TypeOK, BrokerTypes
  <2>3. LeaseMoves
    BY <2>1, <2>2 DEF LeaseMoves
  <2> QED
    BY <2>1, <2>3 DEF BrokerFrames, FenceMoves, AckMoves, Outstanding
<1>7. ASSUME NEW j \in Jobs, NEW a \in Attempts, RetryRevocations(j, a)
      PROVE  BrokerFrames
  <2>1. /\ UNCHANGED <<inflight, fence, acked>>
        /\ lease[j][a] = "revoking" /\ lease' = [lease EXCEPT ![j][a] = "revoked"]
    BY <1>7 DEF RetryRevocations
  <2>2. \A i \in Jobs, b \in Attempts : lease'[i][b] # lease[i][b] => Retried(i, b)
    BY <2>1 DEF Retried, Typed, TypeOK, BrokerTypes
  <2>3. LeaseMoves
    BY <2>1, <2>2 DEF LeaseMoves
  <2> QED
    BY <2>1, <2>3 DEF BrokerFrames, FenceMoves, AckMoves
<1>8. ASSUME NEW a \in Attempts, PreparationExpires(a)
      PROVE  BrokerFrames
  BY <1>8, BrokerStays DEF PreparationExpires
<1> QED
  BY <1>1, <1>2, <1>3, <1>4, <1>5, <1>6, <1>7, <1>8 DEF Next, BrokerStep

\* An offer draws an attempt nobody has had.
Drawn(q) ==
  /\ pc[q] = "claimed" /\ pc'[q] \in {"resolve", "block"}
  /\ offer[q].attempt = None
  /\ offer'[q].job = offer[q].job
  /\ offer'[q].attempt \in Attempts \ usedAttempts
  /\ offer'[q].attempt \in usedAttempts'
  /\ pc'[q] = "resolve" => cleanup'[offer[q].job][offer'[q].attempt] = "preparing"
  /\ \A r \in Replicas : r # q => offer'[r] = offer[r]
  /\ UNCHANGED <<sent, inflight>>

\* The broker answered, or a lease was redeemed.
Answers(q) ==
  LET j == offer[q].job
      a == offer[q].attempt
  IN /\ UNCHANGED <<cleanup, lease, inflight>>
     /\ pc[q] = "redeem" \/ (pc[q] = "issuing" /\ <<j, a>> \notin inflight)
     /\ pc'[q] = "ready" => lease[j][a] = "issued"

\* The job is started, and its row with it.
Starts(q) ==
  /\ pc[q] \in {"claimed", "ready"}
  /\ offer[q].attempt # None => cleanup'[offer[q].job][offer[q].attempt] = "dispatched"

\* What a step can do to an offer, as far as its attempt is concerned.
Moved(q) ==
  /\ offer'[q] = offer[q] \/ offer'[q].attempt = None \/ Drawn(q)
  /\ pc'[q] \in Preparing => (pc[q] \in Preparing /\ offer'[q] = offer[q]) \/ Drawn(q)
  /\ pc'[q] \in Resolving => pc[q] \in Resolving \/ Drawn(q)
  /\ pc'[q] \in Answered => pc'[q] = pc[q] \/ Drawn(q) \/ Answers(q)
  /\ pc'[q] = "send" => offer'[q] = offer[q] /\ (pc[q] = "send" \/ Starts(q))

PumpMoves == \A q \in Replicas : Moved(q)

\* A message is the offer that was about to be sent, which is then over.
SentMoves ==
  \A m \in sent' :
    \/ m \in sent
    \/ \E q \in Replicas :
         /\ pc[q] = "send" /\ m = offer[q] /\ offer'[q] = NoOffer
         /\ \A r \in Replicas : r # q => offer'[r] = offer[r]
         /\ UNCHANGED <<status, cleanup>>

OfferFrames == PumpMoves /\ SentMoves /\ usedAttempts \subseteq usedAttempts'

\* A pump that does nothing moves as described.
LEMMA OffersStay ==
  ASSUME UNCHANGED <<pc, offer, sent, usedAttempts>>
  PROVE  OfferFrames
BY DEF OfferFrames, PumpMoves, Moved, SentMoves, Answered, Preparing, Resolving

\* So does one whose offer is over, ...
LEMMA ReturnMoves ==
  ASSUME Typed, NEW p \in Replicas, Return(p)
  PROVE  PumpMoves
<1>1. /\ pc'[p] = "idle" /\ offer'[p] = NoOffer
      /\ \A q \in Replicas : q # p => pc'[q] = pc[q] /\ offer'[q] = offer[q]
  BY ReturnFacts
<1>2. Moved(p)
  BY <1>1 DEF Moved, NoOffer, Preparing, Resolving, Answered
<1>3. ASSUME NEW q \in Replicas, q # p PROVE Moved(q)
  <2>1. pc'[q] = pc[q] /\ offer'[q] = offer[q]
    BY <1>1, <1>3
  <2> QED
    BY <2>1 DEF Moved
<1> QED
  BY <1>2, <1>3 DEF PumpMoves

\* ... and one that goes on with the same offer.
LEMMA StepMoves ==
  ASSUME Typed, NEW p \in Replicas, NEW step, Goto(p, step), UNCHANGED offer,
         step \in Preparing => pc[p] \in Preparing,
         step \in Resolving => pc[p] \in Resolving,
         step \in Answered => Answers(p),
         step = "send" => Starts(p)
  PROVE  PumpMoves
<1>1. pc'[p] = step /\ \A q \in Replicas : q # p => pc'[q] = pc[q]
  BY DEF Goto, Typed, TypeOK, PumpTypes
<1>2. ASSUME NEW q \in Replicas PROVE Moved(q)
  <2>1. CASE q = p
    BY <1>1, <2>1 DEF Moved
  <2>2. CASE q # p
    <3>1. pc'[q] = pc[q] /\ offer'[q] = offer[q]
      BY <1>1, <2>2
    <3> QED
      BY <3>1 DEF Moved
  <2> QED
    BY <2>1, <2>2
<1> QED
  BY <1>2 DEF PumpMoves

\* Claiming a job starts an offer without an attempt.
LEMMA ClaimMoves ==
  ASSUME Typed, NEW p \in Replicas, ClaimForDispatch(p)
  PROVE  PumpMoves
<1>1. \/ UNCHANGED <<pc, offer>>
      \/ \E r \in Runners, c \in Conns, j \in Jobs : BeginOffer(p, r, c, j)
  BY DEF ClaimForDispatch, NextRunner
<1>2. CASE UNCHANGED <<pc, offer>>
  BY <1>2 DEF PumpMoves, Moved
<1>3. ASSUME NEW r \in Runners, NEW c \in Conns, NEW j \in Jobs, BeginOffer(p, r, c, j)
      PROVE  PumpMoves
  <2>1. /\ pc'[p] = "claimed" /\ offer'[p].attempt = None
        /\ \A q \in Replicas : q # p => pc'[q] = pc[q] /\ offer'[q] = offer[q]
    BY <1>3 DEF BeginOffer, Goto, Typed, TypeOK, PumpTypes
  <2>2. Moved(p)
    BY <2>1 DEF Moved, Preparing, Resolving, Answered
  <2>3. ASSUME NEW q \in Replicas, q # p PROVE Moved(q)
    <3>1. pc'[q] = pc[q] /\ offer'[q] = offer[q]
      BY <2>1, <2>3
    <3> QED
      BY <3>1 DEF Moved
  <2> QED
    BY <2>2, <2>3 DEF PumpMoves
<1> QED
  BY <1>1, <1>2, <1>3

\* Preparing draws an attempt.
LEMMA PrepareMoves ==
  ASSUME Typed, NEW p \in Replicas, PrepareCredentials(p)
  PROVE  PumpMoves
<1>1. PICK a \in Attempts \ usedAttempts :
        /\ usedAttempts' = usedAttempts \cup {a}
        /\ offer' = [offer EXCEPT ![p] =
             [runner |-> offer[p].runner, conn |-> offer[p].conn,
              job |-> offer[p].job, attempt |-> a]]
        /\ \/ /\ cleanup' = [cleanup EXCEPT ![offer[p].job][a] = "preparing"]
              /\ \E step \in {"resolve", "block"} : Goto(p, step)
           \/ Goto(p, "block")
  BY DEF PrepareCredentials
<1>2. /\ pc[p] = "claimed" /\ offer[p].attempt = None /\ offer[p].job \in Jobs
      /\ UNCHANGED <<sent, inflight>>
  BY DEF PrepareCredentials, At, Typed, OfferInv
<1>3. /\ offer'[p].job = offer[p].job /\ offer'[p].attempt = a
      /\ \A q \in Replicas : q # p => offer'[q] = offer[q]
  BY <1>1 DEF Typed, TypeOK, PumpTypes
<1>4. /\ pc'[p] \in {"resolve", "block"}
      /\ \A q \in Replicas : q # p => pc'[q] = pc[q]
  BY <1>1 DEF Goto, Typed, TypeOK, PumpTypes
<1>5. pc'[p] = "resolve" => cleanup'[offer[p].job][a] = "preparing"
  <2>1. ASSUME pc'[p] = "resolve"
        PROVE  cleanup' = [cleanup EXCEPT ![offer[p].job][a] = "preparing"]
    BY <1>1, <2>1 DEF Goto, Typed, TypeOK, PumpTypes
  <2>2. a \in Rows
    BY DEF Rows
  <2> QED
    BY <1>2, <2>1, <2>2 DEF Typed, TypeOK, OutboxTypes
<1>6. Drawn(p)
  BY <1>1, <1>2, <1>3, <1>4, <1>5 DEF Drawn
<1>7. Moved(p)
  BY <1>4, <1>6 DEF Moved
<1>8. ASSUME NEW q \in Replicas, q # p PROVE Moved(q)
  <2>1. pc'[q] = pc[q] /\ offer'[q] = offer[q]
    BY <1>3, <1>4, <1>8
  <2> QED
    BY <2>1 DEF Moved
<1> QED
  BY <1>7, <1>8 DEF PumpMoves

\* Resolving an attempt goes from answer to answer.
LEMMA ResolveMoves ==
  ASSUME Typed, NEW p \in Replicas,
         \/ CloneURLFails(p) \/ IssueJobLease(p) \/ IssueReturns(p) \/ RedeemJobLease(p)
         \/ RevokeAttempt(p)
  PROVE  PumpMoves
<1> USE DEF Preparing, Resolving, Answered
<1>1. CASE CloneURLFails(p)
  BY <1>1, StepMoves DEF CloneURLFails
<1>2. CASE IssueJobLease(p)
  BY <1>2, StepMoves DEF IssueJobLease, At
<1>3. CASE IssueReturns(p)
  <2>1. pc[p] = "issuing" /\ UNCHANGED <<offer, cleanup, lease, inflight>>
    BY <1>3 DEF IssueReturns, At
  <2>2. PICK step \in {"redeem", "revokeFail", "revokeBlock"} :
          /\ Goto(p, step)
          /\ step = "redeem" => <<offer[p].job, offer[p].attempt>> \notin inflight
    BY <1>3 DEF IssueReturns
  <2>3. pc'[p] = step
    BY <2>2 DEF Goto, Typed, TypeOK, PumpTypes
  <2>4. step = "redeem" => Answers(p)
    BY <2>1, <2>2, <2>3 DEF Answers
  <2> QED
    BY <2>1, <2>2, <2>4, StepMoves
<1>4. CASE RedeemJobLease(p)
  <2>1. pc[p] = "redeem" /\ UNCHANGED <<offer, cleanup, lease, inflight>>
    BY <1>4 DEF RedeemJobLease, At
  <2>2. PICK step \in {"resolve", "ready", "revokeFail", "revokeBlock"} :
          /\ Goto(p, step)
          /\ step = "ready" => lease[offer[p].job][offer[p].attempt] = "issued"
    BY <1>4 DEF RedeemJobLease
  <2>3. pc'[p] = step
    BY <2>2 DEF Goto, Typed, TypeOK, PumpTypes
  <2>4. Answers(p)
    BY <2>1, <2>2, <2>3 DEF Answers
  <2> QED
    BY <2>1, <2>2, <2>4, StepMoves
<1>5. CASE RevokeAttempt(p)
  BY <1>5, StepMoves DEF RevokeAttempt
<1> QED
  BY <1>1, <1>2, <1>3, <1>4, <1>5

\* Starting the job is the way to a send.
LEMMA StartMoves ==
  ASSUME Typed, NEW p \in Replicas, StartClaimedJob(p)
  PROVE  PumpMoves
<1>1. pc[p] \in {"claimed", "ready"} /\ UNCHANGED offer
  BY DEF StartClaimedJob, At
<1>2. CASE GiveUp(p)
  BY <1>1, <1>2, StepMoves DEF GiveUp, Preparing, Resolving, Answered
<1>3. CASE Goto(p, "send") /\ ~GiveUp(p)
  <2>1. PICK j \in Jobs, a \in Attempts \cup {None} : Owns(p, j, a)
    BY <1>1, HeldTypes DEF Owns, Typed, TypeOK, PumpTypes, Offers
  <2>2. cleanup' = IF a = None THEN cleanup ELSE [cleanup EXCEPT ![j][a] = "dispatched"]
    BY <1>3, <2>1 DEF StartClaimedJob, Owns
  <2>3. a # None => cleanup'[j][a] = "dispatched"
    BY <2>2 DEF Rows, Typed, TypeOK, OutboxTypes
  <2>4. Starts(p)
    BY <1>1, <2>1, <2>3 DEF Starts, Owns
  <2> QED
    BY <1>1, <1>3, <2>4, StepMoves DEF Preparing, Resolving, Answered
<1> QED
  BY <1>2, <1>3 DEF StartClaimedJob

\* Every step moves the offers and the messages as described.
LEMMA NextOffers ==
  ASSUME Typed, [Next]_vars
  PROVE  OfferFrames
<1>0. ASSUME PumpMoves, UNCHANGED <<sent, usedAttempts>>
      PROVE  OfferFrames
  BY <1>0 DEF OfferFrames, SentMoves
<1>1. CASE UNCHANGED vars
  BY <1>1, OffersStay DEF vars
<1>2. CASE ConnectionStep
  BY <1>2, OffersStay DEF ConnectionStep, BeginRunnerConnection, ActivateConnection,
     UnregisterConnection, EndRunnerConnection
<1>3. ASSUME NEW p \in Replicas, WorkerStep(p)
      PROVE  OfferFrames
  BY <1>3, OffersStay DEF WorkerStep, ReportStatus, RollUp, RecoverCredentialPreparation,
     CleanupRPC, CleanupDelete
<1>4. ASSUME NEW p \in Replicas, Crash(p)
      PROVE  OfferFrames
  BY <1>0, <1>4, ReturnMoves DEF Crash, Return
<1>5. CASE BrokerStep \/ \E a \in Attempts : PreparationExpires(a)
  BY <1>5, OffersStay DEF BrokerStep, BrokerIssue, RetryRevocations, PreparationExpires
<1>6. ASSUME NEW p \in Replicas, PumpStep(p)
      PROVE  OfferFrames
  <2>1. CASE Tick(p)
    BY <2>1, OffersStay DEF Tick
  <2>2. CASE ClaimForDispatch(p)
    BY <1>0, <2>2, ClaimMoves DEF ClaimForDispatch
  <2>3. CASE PrepareCredentials(p)
    <3>1. UNCHANGED sent /\ usedAttempts \subseteq usedAttempts'
      BY <2>3 DEF PrepareCredentials
    <3> QED
      BY <2>3, <3>1, PrepareMoves DEF OfferFrames, SentMoves
  <2>4. CASE \/ CloneURLFails(p) \/ IssueJobLease(p) \/ IssueReturns(p) \/ RedeemJobLease(p)
             \/ RevokeAttempt(p)
    <3>1. UNCHANGED <<sent, usedAttempts>>
      BY <2>4 DEF CloneURLFails, IssueJobLease, IssueReturns, RedeemJobLease, RevokeAttempt
    <3> QED
      BY <1>0, <2>4, <3>1, ResolveMoves
  <2>5. CASE StartClaimedJob(p)
    BY <1>0, <2>5, StartMoves DEF StartClaimedJob
  <2>6. CASE AbandonCredentials(p) \/ BlockJob(p) \/ SetJobStatus(p) \/ PumpRollsUp(p)
    <3>1. /\ UNCHANGED <<sent, usedAttempts>>
          /\ \/ Return(p)
             \/ UNCHANGED offer /\ \E step \in {"block", "release", "fail", "rollup"} : Goto(p, step)
      BY <2>6 DEF AbandonCredentials, AfterAbandon, BlockJob, SetJobStatus, PumpRollsUp,
                  DoneWith, TryAnother
    <3>2. PumpMoves
      BY <3>1, ReturnMoves, StepMoves DEF Preparing, Resolving, Answered
    <3> QED
      BY <1>0, <3>1, <3>2
  <2>7. CASE DispatchTo(p)
    <3>1. pc[p] = "send" /\ UNCHANGED <<status, cleanup, usedAttempts>>
      BY <2>7 DEF DispatchTo, At
    <3>2. CASE GiveUp(p) /\ UNCHANGED <<sent, offer>>
      BY <1>0, <3>1, <3>2, StepMoves DEF GiveUp, Preparing, Resolving, Answered
    <3>3. CASE Return(p) /\ sent' = sent \cup {offer[p]}
      <4>1. SentMoves
        BY <3>1, <3>3, ReturnFacts DEF SentMoves
      <4> QED
        BY <3>1, <3>3, <4>1, ReturnMoves DEF OfferFrames
    <3> QED
      BY <2>7, <3>2, <3>3 DEF DispatchTo, DoneWith
  <2> QED
    BY <1>6, <2>1, <2>2, <2>3, <2>4, <2>5, <2>6, <2>7 DEF PumpStep
<1> QED
  BY <1>1, <1>2, <1>3, <1>4, <1>5, <1>6 DEF Next

\* The attempt of an offer at one of these steps.
LEMMA AttemptTypes ==
  ASSUME Typed, NEW p \in Replicas, pc[p] \in Preparing
  PROVE  offer[p].job \in Jobs /\ offer[p].attempt \in Attempts
BY DEF Typed, OfferInv, Preparing, Resolving, HasAttempt

\* A lease is outstanding after a step only if it was, or was being issued in
\* an open scope.
LEMMA OutstandingOrigin ==
  ASSUME BrokerFrames, NEW j \in Jobs, NEW a \in Attempts, Outstanding(j, a)'
  PROVE  Outstanding(j, a) \/ (<<j, a>> \in inflight /\ ~Closed(j, a))
BY DEF BrokerFrames, LeaseMoves, Issued, Revoked, Retried, Outstanding

\* Every step keeps the obligations: a row goes only on an acknowledgement,
\* and what was acknowledged stays fenced and without a lease.
LEMMA NextObligation ==
  ASSUME Typed, Typed', ObligationInv, [Next]_vars
  PROVE  ObligationInv'
<1>0. RowFrame /\ BrokerFrames /\ OfferFrames
  BY NextRows, NextBroker, NextOffers
<1>1. \A j \in Jobs, a \in Attempts : Closed(j, a) => Closed(j, a)'
  BY <1>0 DEF BrokerFrames, FenceMoves, Closed
<1>2. ASSUME NEW j \in Jobs, NEW a \in Attempts, cleanup[j][a] # "none", cleanup'[j][a] = "none"
      PROVE  Closed(j, a) /\ ~Outstanding(j, a)
  <2>1. a \in Rows /\ Scope(a) = {a}
    BY DispatchAssumption DEF Rows, Scope
  <2>2. Deleted(j, a)
    BY <1>0, <1>2, <2>1 DEF RowFrame, RowMoves, Fenced, Fresh, Started, Abandoned
  <2> QED
    BY <2>1, <2>2 DEF Deleted, ObligationInv, AckedInv, Closed
<1>3. LeaseHasObligation'
  <2> SUFFICES ASSUME NEW j \in Jobs, NEW a \in Attempts,
                      Outstanding(j, a)' \/ (<<j, a>> \in inflight' /\ ~Closed(j, a)')
               PROVE  cleanup'[j][a] # "none"
    BY DEF LeaseHasObligation
  <2>1. CASE Outstanding(j, a)'
    <3>1. Outstanding(j, a) \/ (<<j, a>> \in inflight /\ ~Closed(j, a))
      BY <1>0, <2>1, OutstandingOrigin
    <3> QED
      BY <1>2, <3>1 DEF ObligationInv, LeaseHasObligation
  <2>2. CASE <<j, a>> \in inflight' /\ ~Closed(j, a)'
    <3>1. ~Closed(j, a)
      BY <1>1, <2>2
    <3>2. CASE <<j, a>> \in inflight
      BY <1>2, <3>1, <3>2 DEF ObligationInv, LeaseHasObligation
    <3>3. CASE \E p \in Replicas : pc[p] = "resolve" /\ Owns(p, j, a)
      <4>1. cleanup[j][a] # "none"
        BY <3>1, <3>3 DEF ObligationInv, ResolvingInv, Owns, Resolving
      <4> QED
        BY <1>2, <3>1, <4>1
    <3> QED
      BY <1>0, <2>2, <3>2, <3>3 DEF BrokerFrames, LeaseMoves
  <2> QED
    BY <2>1, <2>2
<1>4. AckedInv'
  <2> SUFFICES ASSUME NEW p \in Replicas, NEW j \in Jobs, NEW a \in Rows, <<p, j, a>> \in acked'
               PROVE  a \in fence'[j] /\ \A b \in Scope(a) : ~Outstanding(j, b)'
    BY DEF AckedInv, Scope
  <2>1. CASE <<p, j, a>> \in acked
    <3>1. a \in fence[j] /\ \A b \in Scope(a) : ~Outstanding(j, b)
      BY <2>1 DEF ObligationInv, AckedInv
    <3>2. \A b \in Scope(a) : b \in Attempts /\ Closed(j, b)
      BY <3>1 DEF Scope, Rows, Closed
    <3>3. \A b \in Scope(a) : ~Outstanding(j, b)'
      BY <1>0, <3>1, <3>2, OutstandingOrigin
    <3>4. a \in fence'[j]
      BY <1>0, <3>1 DEF BrokerFrames, FenceMoves
    <3> QED
      BY <3>3, <3>4
  <2> QED
    BY <1>0, <2>1 DEF BrokerFrames, AckMoves
<1>5. ResolvingInv'
  <2> SUFFICES ASSUME NEW p \in Replicas, pc'[p] \in Resolving
               PROVE  \/ cleanup'[offer'[p].job][offer'[p].attempt] # "none"
                      \/ Closed(offer[p].job, offer[p].attempt)'
    BY DEF ResolvingInv, Closed
  <2>1. pc'[p] \in Preparing
    BY DEF Preparing
  <2>2. CASE Drawn(p)
    BY <2>2 DEF Drawn, Resolving
  <2>3. CASE pc[p] \in Resolving /\ offer'[p] = offer[p]
    <3>1. PICK j \in Jobs, a \in Attempts : Owns(p, j, a)
      BY <2>3, AttemptTypes DEF Preparing, Owns
    <3>2. cleanup[j][a] # "none" \/ Closed(j, a)
      BY <2>3, <3>1 DEF ObligationInv, ResolvingInv, Owns
    <3>3. cleanup'[j][a] # "none" \/ Closed(j, a)'
      BY <1>1, <1>2, <3>2
    <3> QED
      BY <2>3, <3>1, <3>3 DEF Owns, Closed
  <2>4. Moved(p)
    BY <1>0 DEF OfferFrames, PumpMoves
  <2>5. Drawn(p) \/ (pc[p] \in Resolving /\ offer'[p] = offer[p])
    BY <2>1, <2>4 DEF Moved
  <2> QED
    BY <2>2, <2>3, <2>5
<1> QED
  BY <1>3, <1>4, <1>5 DEF ObligationInv

\* An attempt stays with the offer that drew it, then with its message.
LEMMA NextAttempts ==
  ASSUME Typed, Typed', AttemptInv, [Next]_vars
  PROVE  AttemptInv'
<1>0. BrokerFrames /\ OfferFrames
  BY NextBroker, NextOffers
<1>1. ASSUME NEW p \in Replicas
      PROVE  \/ offer'[p] = offer[p] \/ offer'[p].attempt = None \/ Drawn(p)
  BY <1>0 DEF OfferFrames, PumpMoves, Moved
<1>2. usedAttempts \subseteq usedAttempts'
  BY <1>0 DEF OfferFrames
<1>3. ASSUME NEW p \in Replicas, offer'[p].attempt # None
      PROVE  offer'[p].attempt \in usedAttempts'
  BY <1>1, <1>2, <1>3 DEF AttemptInv, Drawn
<1>4. ASSUME NEW p \in Replicas, offer'[p].attempt # None, NEW q \in Replicas, q # p
      PROVE  offer'[q].attempt # offer'[p].attempt
  <2>1. CASE Drawn(p)
    <3>1. offer'[q] = offer[q] /\ offer'[p].attempt \notin usedAttempts
      BY <1>4, <2>1 DEF Drawn
    <3>2. offer[q].attempt = None \/ offer[q].attempt \in usedAttempts
      BY DEF AttemptInv
    <3> QED
      BY <1>4, <3>1, <3>2
  <2>2. CASE Drawn(q)
    <3>1. offer'[p] = offer[p] /\ offer'[q].attempt \notin usedAttempts
      BY <1>4, <2>2 DEF Drawn
    <3>2. offer[p].attempt \in usedAttempts
      BY <1>4, <3>1 DEF AttemptInv
    <3> QED
      BY <3>1, <3>2
  <2>3. CASE ~Drawn(p) /\ ~Drawn(q)
    BY <1>1, <1>4, <2>3 DEF AttemptInv
  <2> QED
    BY <2>1, <2>2, <2>3
<1>5. ASSUME NEW m \in sent', m.attempt # None
      PROVE  /\ m.attempt \in usedAttempts'
             /\ \A p \in Replicas : offer'[p].attempt # m.attempt
  <2>1. CASE m \in sent
    <3>1. /\ m.attempt \in usedAttempts
          /\ \A p \in Replicas : offer[p].attempt # m.attempt
      BY <1>5, <2>1 DEF AttemptInv
    <3> QED
      BY <1>1, <1>2, <1>5, <3>1 DEF Drawn
  <2>2. ASSUME NEW q \in Replicas, m = offer[q], offer'[q] = NoOffer,
               \A r \in Replicas : r # q => offer'[r] = offer[r]
        PROVE  /\ m.attempt \in usedAttempts'
               /\ \A p \in Replicas : offer'[p].attempt # m.attempt
    <3>1. /\ m.attempt \in usedAttempts
          /\ \A p \in Replicas : p # q => offer[p].attempt # m.attempt
      BY <1>5, <2>2 DEF AttemptInv
    <3>2. NoOffer.attempt = None
      BY DEF NoOffer
    <3> QED
      BY <1>2, <1>5, <2>2, <3>1, <3>2
  <2> QED
    BY <1>0, <1>5, <2>1, <2>2 DEF OfferFrames, SentMoves
<1>6. ASSUME NEW j \in Jobs, NEW a \in Attempts, <<j, a>> \in inflight'
      PROVE  a \in usedAttempts'
  <2>1. CASE <<j, a>> \in inflight
    BY <1>2, <2>1 DEF AttemptInv
  <2>2. CASE \E p \in Replicas : Owns(p, j, a)
    BY <1>2, <2>2, DispatchAssumption DEF AttemptInv, Owns
  <2> QED
    BY <1>0, <1>6, <2>1, <2>2 DEF BrokerFrames, LeaseMoves
<1> QED
  BY <1>3, <1>4, <1>5, <1>6 DEF AttemptInv

\* No step revokes the lease of a dispatched row, or of one that is ready to
\* be dispatched: the cleanup of the whole job comes after its end only.
LEMMA LeaseKept ==
  ASSUME Typed, AttemptInv, RowInv, PreparedInv, BrokerFrames,
         NEW j \in Jobs, NEW a \in Attempts,
         lease[j][a] = "issued", <<j, a>> \notin inflight,
         \/ cleanup[j][a] = "dispatched"
         \/ /\ cleanup[j][a] = "preparing"
            /\ \E p \in Replicas : pc[p] = "ready" /\ Owns(p, j, a)
  PROVE  lease'[j][a] = "issued"
<1>1. a \in Rows /\ cleanup[j][a] \in {"preparing", "dispatched"} /\ a # None
  BY DispatchAssumption DEF Rows
<1>2. ASSUME Revoked(j, a) PROVE FALSE
  <2>1. ASSUME NEW b \in Rows, a \in Scope(b), cleanup[j][b] = "cleanup" PROVE FALSE
    <3>1. CASE b = Nil
      <4>1. ~Active(j)
        BY <2>1, <3>1 DEF RowInv
      <4> QED
        BY <1>1, <4>1 DEF RowInv, RowOK
    <3>2. CASE b # Nil
      BY <1>1, <2>1, <3>2 DEF Scope
    <3> QED
      BY <3>1, <3>2
  <2>2. ASSUME NEW p \in Replicas, pc[p] \in {"revokeBlock", "revokeFail"}, Owns(p, j, a)
        PROVE  FALSE
    <3>1. cleanup[j][a] # "dispatched"
      BY <2>2 DEF PreparedInv, Prepared, Owns, Preparing
    <3>2. PICK q \in Replicas : pc[q] = "ready" /\ Owns(q, j, a)
      BY <3>1
    <3>3. q # p
      BY <2>2, <3>2
    <3> QED
      BY <1>1, <2>2, <3>2, <3>3 DEF AttemptInv, Owns
  <2> QED
    BY <1>2, <2>1, <2>2 DEF Revoked
<1> QED
  BY <1>2 DEF BrokerFrames, LeaseMoves, Issued, Retried

\* The rows keep their meaning.
LEMMA NextRowInv ==
  ASSUME Typed, Typed', ClaimInv, AttemptInv, RowInv, PreparedInv, [Next]_vars
  PROVE  RowInv'
<1>0. RowFrame /\ BrokerFrames /\ OfferFrames /\ JobsKeepOutcome
  BY NextRows, NextBroker, NextOffers, Outcomes
<1>1. \A j \in Jobs : ~Active(j) => ~Active(j)'
  BY <1>0 DEF JobsKeepOutcome, Active
<1>2. ASSUME NEW p \in Replicas, NEW j, NEW a \in Attempts, Owns(p, j, a) PROVE j \in Secrets
  BY <1>2, DispatchAssumption DEF Owns, Typed, OfferInv
<1>3. ASSUME NEW j \in Jobs, NEW a \in Attempts PROVE RowOK(j, a)'
  <2>0. a \in Rows /\ a # Nil /\ RowOK(j, a)
    BY DispatchAssumption DEF Rows, RowInv
  <2>1. j \notin Secrets => cleanup'[j][a] = "none"
    BY <1>0, <1>2, <2>0 DEF RowFrame, RowMoves, RowOK, Fenced, Fresh, Started, Abandoned, Deleted
  <2>2. ASSUME ~Active(j)' PROVE cleanup'[j][a] \in {"none", "cleanup"}
    <3>1. CASE j \notin Secrets
      BY <2>1, <3>1
    <3>2. CASE ~Active(j)
      <4>1. cleanup[j][a] \in {"none", "cleanup"} /\ status[j] # "pending"
        BY <2>0, <3>2 DEF RowOK, Active, Terminal
      <4> QED
        BY <1>0, <2>0, <4>1 DEF RowFrame, RowMoves, Fenced, Fresh, Started, Abandoned, Deleted
    <3> QED
      BY <1>0, <2>0, <2>2, <3>1, <3>2 DEF RowFrame, JobMoves
  <2>3. ASSUME cleanup'[j][a] = "dispatched"
        PROVE  lease'[j][a] = "issued" /\ <<j, a>> \notin inflight'
    <3>1. CASE Started(j, a)
      BY <2>3, <3>1 DEF Started, PreparedInv, Prepared, Owns, Answered
    <3>2. CASE cleanup[j][a] = "dispatched"
      <4>1. lease[j][a] = "issued" /\ <<j, a>> \notin inflight
        BY <2>0, <3>2 DEF RowOK
      <4>2. lease'[j][a] = "issued"
        BY <1>0, <3>2, <4>1, LeaseKept
      <4>3. \A p \in Replicas : pc[p] = "resolve" => ~Owns(p, j, a)
        BY <3>2 DEF PreparedInv, Prepared, Owns, Preparing, Resolving
      <4> QED
        BY <1>0, <4>1, <4>2, <4>3 DEF BrokerFrames, LeaseMoves
    <3> QED
      BY <1>0, <2>0, <2>3, <3>1, <3>2
         DEF RowFrame, RowMoves, Fenced, Fresh, Abandoned, Deleted
  <2> QED
    BY <2>1, <2>2, <2>3 DEF RowOK, Active
<1>4. ASSUME NEW j \in Jobs, cleanup'[j][Nil] # "none" PROVE ~Active(j)'
  <2>1. Nil \in Rows /\ Nil \notin Attempts
    BY DispatchAssumption DEF Rows
  <2>2. CASE cleanup[j][Nil] # "none"
    BY <1>1, <2>2 DEF RowInv
  <2>3. CASE cleanup[j][Nil] = "none"
    BY <1>0, <1>4, <2>1, <2>3 DEF RowFrame, RowMoves, Fenced, Fresh, Started, Abandoned, Deleted
  <2> QED
    BY <2>2, <2>3
<1> QED
  BY <1>3, <1>4 DEF RowInv, Active

\* A dispatched row stays while its job runs.
LEMMA DispatchedKept ==
  ASSUME RowFrame, NEW j \in Jobs, NEW a \in Attempts, a \in usedAttempts,
         cleanup[j][a] = "dispatched", status'[j] = "running",
         \A q \in Replicas : pc[q] \in Abandoning => ~Owns(q, j, a)
  PROVE  cleanup'[j][a] = "dispatched"
<1>1. a \in Rows /\ Active(j)'
  BY DEF Rows, Active, Terminal
<1> QED
  BY <1>1 DEF RowFrame, RowMoves, Fenced, Fresh, Started, Abandoned, Deleted

\* Every step keeps what is known of the attempt of each offer.
LEMMA NextPrepared ==
  ASSUME Typed, Typed', ClaimInv, AttemptInv, RowInv, PreparedInv, [Next]_vars
  PROVE  PreparedInv'
<1>0. RowFrame /\ BrokerFrames /\ OfferFrames
  BY NextRows, NextBroker, NextOffers
<1> SUFFICES ASSUME NEW p \in Replicas PROVE Prepared(p)'
  BY DEF PreparedInv
<1>1. Moved(p) /\ Prepared(p)
  BY <1>0 DEF OfferFrames, PumpMoves, PreparedInv
<1>2. Answered \subseteq Preparing /\ "block" \notin Preparing
  BY DEF Answered, Preparing, Resolving
<1>3. ASSUME pc'[p] \in Preparing, Drawn(p)
      PROVE  Prepared(p)'
  <2>1. PICK j \in Jobs, a \in Attempts : j = offer'[p].job /\ a = offer'[p].attempt
    BY <1>3, HeldTypes DEF Drawn
  <2>2. /\ pc'[p] = "resolve" /\ cleanup'[j][a] = "preparing"
        /\ a \notin usedAttempts /\ UNCHANGED inflight
    BY <1>2, <1>3, <2>1 DEF Drawn
  <2>3. <<j, a>> \notin inflight'
    BY <2>2 DEF AttemptInv
  <2> QED
    BY <2>1, <2>2, <2>3 DEF Prepared
<1>4. ASSUME pc'[p] \in Preparing, ~Drawn(p)
      PROVE  Prepared(p)'
  <2>1. pc[p] \in Preparing /\ offer'[p] = offer[p]
    BY <1>1, <1>4 DEF Moved
  <2>2. PICK j \in Jobs, a \in Attempts : Owns(p, j, a)
    BY <2>1, AttemptTypes DEF Owns
  <2>3. /\ a \in Rows /\ a \in usedAttempts
        /\ \A q \in Replicas : q # p => ~Owns(q, j, a)
    BY <2>2, DispatchAssumption DEF Owns, AttemptInv, Rows
  <2>4. cleanup'[j][a] # "dispatched"
    <3>1. cleanup[j][a] # "dispatched"
      BY <1>1, <2>1, <2>2 DEF Prepared, Owns
    <3>2. ~Started(j, a)
      BY <1>4, <2>3 DEF Started, Preparing, Resolving
    <3> QED
      BY <1>0, <2>3, <3>1, <3>2 DEF RowFrame, RowMoves, Fenced, Fresh, Abandoned, Deleted
  <2>5. ASSUME pc'[p] \in Answered PROVE <<j, a>> \notin inflight'
    <3>1. CASE Answers(p)
      BY <1>1, <2>2, <3>1 DEF Answers, Prepared, Answered, Owns
    <3>2. CASE pc'[p] = pc[p]
      <4>1. <<j, a>> \notin inflight
        BY <1>1, <2>2, <2>5, <3>2 DEF Prepared, Owns
      <4>2. \A q \in Replicas : ~(pc[q] = "resolve" /\ Owns(q, j, a) /\ pc'[q] = "issuing")
        BY <2>3, <3>2
      <4> QED
        BY <1>0, <4>1, <4>2 DEF BrokerFrames, LeaseMoves
    <3> QED
      BY <1>1, <1>4, <2>5, <3>1, <3>2 DEF Moved
  <2>6. ASSUME pc'[p] = "ready", cleanup'[j][a] = "preparing" PROVE lease'[j][a] = "issued"
    <3>1. CASE Answers(p)
      BY <2>2, <2>6, <3>1 DEF Answers, Owns
    <3>2. CASE pc[p] = "ready"
      <4>1. cleanup[j][a] = "preparing"
        BY <1>0, <2>3, <2>6 DEF RowFrame, RowMoves, Fenced, Fresh, Started, Abandoned, Deleted
      <4>2. lease[j][a] = "issued" /\ <<j, a>> \notin inflight
        BY <1>1, <2>2, <3>2, <4>1 DEF Prepared, Owns, Answered
      <4> QED
        BY <1>0, <2>2, <3>2, <4>1, <4>2, LeaseKept
    <3> QED
      BY <1>1, <1>4, <2>6, <3>1, <3>2 DEF Moved, Answered
  <2>7. offer'[p].job = j /\ offer'[p].attempt = a /\ pc'[p] # "send"
    BY <1>4, <2>1, <2>2 DEF Owns, Preparing, Resolving
  <2> QED
    BY <2>4, <2>5, <2>6, <2>7 DEF Prepared
<1>5. ASSUME pc'[p] = "send", offer'[p].attempt # None, status'[offer'[p].job] = "running"
      PROVE  cleanup'[offer'[p].job][offer'[p].attempt] = "dispatched"
  <2>1. offer'[p] = offer[p] /\ (pc[p] = "send" \/ Starts(p))
    BY <1>1, <1>5 DEF Moved
  <2>2. PICK j \in Jobs, a \in Attempts : Owns(p, j, a)
    BY <1>5, <2>1, HeldTypes DEF Owns, Typed, TypeOK, PumpTypes, Offers, Starts
  <2>3. CASE Starts(p)
    BY <1>5, <2>1, <2>3 DEF Starts
  <2>4. CASE pc[p] = "send"
    <3>1. Holds(p)
      BY <2>4 DEF ClaimInv, HoldInv
    <3>2. status[j] # "pending"
      BY <2>2, <2>4, <3>1 DEF Holds, Active, Terminal, Owns
    <3>3. status[j] = "running"
      BY <1>0, <1>5, <2>1, <2>2, <3>2 DEF RowFrame, JobMoves, Owns
    <3>4. cleanup[j][a] = "dispatched"
      BY <1>1, <2>2, <2>4, <3>3, DispatchAssumption DEF Prepared, Owns
    <3>5. /\ a \in usedAttempts
          /\ \A q \in Replicas : pc[q] \in Abandoning => ~Owns(q, j, a)
      BY <2>2, <2>4, DispatchAssumption DEF AttemptInv, Owns, Abandoning
    <3>6. cleanup'[j][a] = "dispatched"
      BY <1>0, <1>5, <2>1, <2>2, <3>4, <3>5, DispatchedKept DEF Owns
    <3> QED
      BY <2>1, <2>2, <3>6 DEF Owns
  <2> QED
    BY <2>1, <2>3, <2>4
<1>6. CASE pc'[p] \notin Preparing
  BY <1>2, <1>5, <1>6 DEF Prepared, Answered
<1> QED
  BY <1>3, <1>4, <1>6

\* Every step keeps the rows of the jobs that run on a runner.
LEMMA NextSent ==
  ASSUME Typed, Typed', ClaimInv, AttemptInv, PreparedInv, SentInv, [Next]_vars
  PROVE  SentInv'
<1>0. RowFrame /\ OfferFrames
  BY NextRows, NextOffers
<1> SUFFICES ASSUME NEW m \in sent', status'[m.job] = "running", m.attempt # None
             PROVE  cleanup'[m.job][m.attempt] = "dispatched"
  BY DEF SentInv
<1>1. PICK j \in Jobs, a \in Attempts : j = m.job /\ a = m.attempt
  BY DEF Typed, TypeOK, PumpTypes, Messages
<1>2. CASE m \in sent
  <2>1. status[j] # "pending"
    BY <1>1, <1>2 DEF ClaimInv, SentJobIsOwned, Active, Terminal
  <2>2. status[j] = "running"
    BY <1>0, <1>1, <2>1 DEF RowFrame, JobMoves
  <2>3. cleanup[j][a] = "dispatched"
    BY <1>1, <1>2, <2>2 DEF SentInv
  <2>4. a \in usedAttempts /\ \A q \in Replicas : ~Owns(q, j, a)
    BY <1>1, <1>2 DEF AttemptInv, Owns
  <2> QED
    BY <1>0, <1>1, <2>3, <2>4, DispatchedKept
<1>3. ASSUME NEW q \in Replicas, pc[q] = "send", m = offer[q], UNCHANGED <<status, cleanup>>
      PROVE  cleanup'[m.job][m.attempt] = "dispatched"
  <2>1. Prepared(q)
    BY DEF PreparedInv
  <2> QED
    BY <1>3, <2>1 DEF Prepared
<1> QED
  BY <1>0, <1>2, <1>3 DEF OfferFrames, SentMoves

\* No credential is forgotten: as long as a lease is not revoked, or can still
\* be issued, the outbox has a row for it.
THEOREM NoCredentialForgotten == Spec => []LeaseHasObligation
<1>1. Init => ObligationInv
  BY DEF Init, ObligationInv, LeaseHasObligation, AckedInv, ResolvingInv, Outstanding, Resolving
<1>2. Typed /\ Typed' /\ ObligationInv /\ [Next]_vars => ObligationInv'
  BY NextObligation
<1>3. ObligationInv => LeaseHasObligation
  BY DEF ObligationInv
<1> QED
  BY <1>1, <1>2, <1>3, TypedInvariant, PTL DEF Spec

\* A job on a runner keeps the credentials it was sent with until it ends,
\* whatever timers, cleanup workers and other pumps do.
THEOREM CredentialsAreKept == Spec => []RunningJobKeepsCredentials
<1>1. Init => CredentialInv
  <2> SUFFICES ASSUME Init PROVE CredentialInv
    OBVIOUS
  <2>1. AttemptInv /\ SentInv
    BY DEF Init, AttemptInv, SentInv, NoOffer
  <2>2. RowInv
    BY DEF Init, RowInv, RowOK, Rows, Active, Terminal
  <2>3. PreparedInv
    BY DEF Init, PreparedInv, Prepared, Preparing, Resolving, Answered
  <2> QED
    BY <2>1, <2>2, <2>3 DEF CredentialInv
<1>2. Typed /\ Typed' /\ ClaimInv /\ CredentialInv /\ [Next]_vars => CredentialInv'
  BY NextAttempts, NextRowInv, NextPrepared, NextSent DEF CredentialInv
<1>3. Typed /\ CredentialInv => RunningJobKeepsCredentials
  <2> SUFFICES ASSUME Typed, CredentialInv, NEW m \in sent,
                      status[m.job] = "running", m.attempt # None
               PROVE  /\ cleanup[m.job][m.attempt] = "dispatched"
                      /\ lease[m.job][m.attempt] = "issued"
    BY DEF RunningJobKeepsCredentials
  <2>1. m.job \in Jobs /\ m.attempt \in Attempts
    BY DEF Typed, TypeOK, PumpTypes, Messages
  <2>2. cleanup[m.job][m.attempt] = "dispatched"
    BY DEF CredentialInv, SentInv
  <2> QED
    BY <2>1, <2>2 DEF CredentialInv, RowInv, RowOK
<1> QED
  BY <1>1, <1>2, <1>3, TypedInvariant, ClaimInvariant, PTL DEF Spec
=============================================================================
