-------------------------- MODULE DeploymentProofs --------------------------
(***************************************************************************)
(* Proofs about Deployment, for every finite set of operations, every set  *)
(* of workers and every bound on attempts and faults.                      *)
(*                                                                         *)
(* A call can outlive its lock, so several calls may be at any step of the *)
(* same operation at once.  IInv says for each call what it relies on      *)
(* (CallInv, OwnerInv, CredentialInv, RevokeInv, SeenInv) and for each     *)
(* attempt what its row, Secret, Job and obligation say together (RowInv,  *)
(* JobInv, ResolvedInv, EndedInv, DeliveryInv).  Quiet is what revocation  *)
(* rests on: no executor of an attempt runs, or ever will, because every   *)
(* call that has not submitted its Job has lost the lock for good.         *)
(*                                                                         *)
(* The proof is by rely and guarantee: Guarantee(w) is what a step of the  *)
(* call w may do, every conjunct of IInv about another call is kept by it  *)
(* (StepKeeps), and each action is shown to be such a step that keeps what *)
(* is w's own.  ClusterKeeps and EnterKeeps do the same for the cluster    *)
(* and for a call that begins.                                             *)
(*                                                                         *)
(* HInv, in the second part, says what the release and its revisions have  *)
(* to do with the attempts: it is inductive relative to IInv, and holds    *)
(* the two properties about the history, NeverRollsBack and                *)
(* SuccessIsDeployed.                                                      *)
(***************************************************************************)
EXTENDS Deployment, SequenceTheorems, FiniteSetTheorems, TLAPS

Revoking == {"close", "issuer", "remove", "resolve"}

Busy(w) == worker[w].pc # "idle"

\* The call has an attempt of its own.
Owner(w) == Busy(w) /\ worker[w].num > 0

Exists(a) == a[2] <= Len(att[a[1]])

\* The call has not come to its own delivery yet, and is not revoking it.
Early(w) ==
    \/ worker[w].pc \in {"sweep", "judge", "prepare", "reserve", "issue", "creating",
                         "create", "record", "dispatch"}
    \/ worker[w].pc \in Revoking /\ worker[w].tgt # worker[w].num

\* The variables of a call fit its step.
CallOK(w) ==
    LET c == worker[w] IN
    /\ c.pc = "idle" <=> c = Idle
    /\ Busy(w) => /\ c.op \in Ops
                  /\ c.num <= Len(c.seen) /\ c.tgt <= Len(c.seen)
                  /\ Len(c.seen) <= Len(obl[c.op])
    /\ c.pc \in {"judge"} \cup Revoking => c.tgt > 0
    /\ c.pc = "judge" => c.tgt # c.num
    /\ c.pc \notin {"idle", "judge"} \cup Revoking => c.num > 0
    /\ c.pc = "finish" \/ (c.pc \in Revoking /\ c.tgt = c.num) => c.res # "none"

CallInv == \A w \in Workers : CallOK(w)

\* An attempt belongs to one call; a call that has read the attempts of an
\* operation has taken the lock from every earlier call on it for good.
OwnerInv ==
    \A v, w \in Workers : v # w /\ Owner(v) /\ Busy(w) /\ worker[v].op = worker[w].op =>
        /\ worker[v].num # worker[w].num
        /\ worker[v].num <= Len(worker[w].seen) => lock # v

\* The materialization row and the Secret it speaks of.
RowOK(a) ==
    /\ mat[a].phase = "none" => ~mat[a].closed
    /\ mat[a].phase \in {"none", "intent"} => secret[a] = "none" /\ ~mat[a].uid
    /\ mat[a].phase = "creating" => secret[a] \in {"none", "present", "inflight"} /\ ~mat[a].uid
    /\ mat[a].phase = "materialized" => secret[a] \in {"present", "deleted"} /\ mat[a].uid
    /\ mat[a].phase = "absent" => secret[a] \in {"deleted", "foreign"}

RowInv == \A a \in Attempts : RowOK(a)

\* How far a call is with the credential of its own attempt.
CredentialOK(w) ==
    LET pc == worker[w].pc
        a == Own(w)
    IN  /\ pc \in {"sweep", "judge", "prepare"} \/ (pc \in Revoking /\ ~RevokesOwn(w))
             => mat[a].phase \in {"none", "intent"}
        /\ pc \in {"reserve", "issue", "creating"} => mat[a].phase = "intent"
        /\ pc = "issue" => lease[a] = "reserved"
        /\ pc = "create" => mat[a].phase = "creating" /\ secret[a] = "none"
        /\ pc = "record" => secret[a] \in {"present", "deleted"}

CredentialInv == \A w \in Workers : Owner(w) => CredentialOK(w)

\* Later phases of a row.
Follows == [none |-> {}, intent |-> {"intent"},
            creating |-> {"creating", "materialized", "absent"},
            materialized |-> {"materialized", "absent"}, absent |-> {"absent"}]

\* What the issuer, and what the row and the Secret say when they are done with.
IssuerDone(a) == fence[a] /\ lease[a] \in {"none", "revoked"}
SecretDone(a) == mat[a].closed /\ mat[a].phase \in {"intent", "absent"}

\* No executor of the attempt runs, or will.
Quiet(a) ==
    /\ job[a].st \in {"none", "done"}
    /\ \A v \in Workers : Owner(v) /\ Own(v) = a =>
          worker[v].pc # "submit" /\ (Early(v) => lock # v)

\* What a revocation has achieved.
RevokeOK(w) ==
    LET c == worker[w]
        a == Target(w)
    IN  /\ c.pc \in Revoking => Quiet(a)
        /\ c.pc \in {"issuer", "remove"} =>
              /\ mat[a].closed
              /\ mat[a].phase \in Follows[c.row.phase]
              /\ c.row.uid => mat[a].uid
        /\ c.pc = "remove" /\ c.issuer => IssuerDone(a)
        /\ c.pc = "resolve" => IssuerDone(a) /\ SecretDone(a)

RevokeInv == \A w \in Workers : RevokeOK(w)

\* A Job is announced before it is made, and an attempt made before that.
JobOK(a) ==
    /\ ~Exists(a) => mat[a] = NoRow /\ job[a] = NoJob
    /\ job[a].st # "none" => Exists(a) /\ obl[a[1]][a[2]].phase = "dispatching"

JobInv ==
    /\ \A a \in Attempts : JobOK(a)
    /\ \A w \in Workers : Owner(w) =>
         /\ worker[w].pc = "submit" => obl[worker[w].op][worker[w].num].phase = "dispatching"
         /\ worker[w].pc = "submit" \/ Early(w) => job[Own(w)].st = "none"

\* What a call read as not yet announced was never submitted, and will not be.
SeenInv ==
    \A w \in Workers : Busy(w) =>
        \A m \in 1 .. Len(worker[w].seen) :
            m # worker[w].num /\ worker[w].seen[m].phase = "preparing" =>
                /\ job[<<worker[w].op, m>>].st = "none"
                /\ \A v \in Workers : Owner(v) /\ Own(v) = <<worker[w].op, m>> =>
                       worker[v].pc # "submit"

\* A resolved obligation is discharged for good.
ResolvedInv ==
    \A a \in Attempts :
        /\ Exists(a)
        /\ obl[a[1]][a[2]].resolved
        /\ obl[a[1]][a[2]].phase # "none"
        => IssuerDone(a) /\ SecretDone(a) /\ Quiet(a)

\* An operation that has not begun has no attempt, and one that has ended owes
\* nothing.
EndedInv ==
    \A o \in Ops : /\ op[o] \in {"none", "pending"} => Len(att[o]) = 0
                   /\ op[o] \in {"failed", "succeeded"} => ~PendingCredentials(o)

\* Passive recoveries have no obligation; of all deliveries at most one is not
\* resolved.
DeliveryInv ==
    /\ \A a \in Attempts : Exists(a) =>
          /\ att[a[1]][a[2]].kind = "recover" <=> obl[a[1]][a[2]].phase = "none"
          /\ obl[a[1]][a[2]].phase = "none" => obl[a[1]][a[2]].resolved
    /\ \A a, b \in Attempts :
          /\ Exists(a) /\ att[a[1]][a[2]].kind = "execute" /\ ~obl[a[1]][a[2]].resolved
          /\ Exists(b) /\ att[b[1]][b[2]].kind = "execute" /\ ~obl[b[1]][b[2]].resolved
          => a = b

IInv ==
    /\ TypeOK /\ CallInv /\ OwnerInv /\ RowInv /\ CredentialInv /\ RevokeInv
    /\ JobInv /\ SeenInv /\ ResolvedInv /\ EndedInv /\ DeliveryInv


-----------------------------------------------------------------------------
(* How a step changes the calls *)

USE DEF dbVars, credVars, clusterVars

\* The call w goes on as c, and the others stay where they are.
Becomes(w, c) ==
    /\ worker' \in [Workers -> Calls]
    /\ worker'[w] = c
    /\ \A v \in Workers : v # w => worker'[v] = worker[v]

\* A call can be replaced by any other.
LEMMA BecomesCall ==
    ASSUME CallTypes, NEW w \in Workers, NEW c \in Calls,
           worker' = [worker EXCEPT ![w] = c]
    PROVE  Becomes(w, c)
BY DEF CallTypes, Becomes

\* An idle call is a call.
LEMMA IdleIsCall == Idle \in Calls
BY DeploymentAssumption DEF Calls, Idle, NoRow, Materializations, RowPhases, Steps

\* Every field of a call has its type.
LEMMA CallFields ==
    ASSUME CallTypes, NEW w \in Workers
    PROVE  /\ worker[w] \in Calls
           /\ worker[w].pc \in Steps
           /\ worker[w].op \in Ops \cup {0}
           /\ worker[w].num \in 0 .. MaxAttempts
           /\ worker[w].tgt \in 0 .. MaxAttempts
           /\ worker[w].row \in Materializations
           /\ worker[w].seen \in Seq(Obligations)
           /\ worker[w].issuer \in BOOLEAN
           /\ worker[w].ext \in BOOLEAN
           /\ worker[w].res \in {"none", "succeeded", "failed", "uncertain"}
BY DEF CallTypes, Calls

\* A call goes to another step.
LEMMA GoToBecomes ==
    ASSUME CallTypes, NEW w \in Workers, NEW pc \in Steps, GoTo(w, pc)
    PROVE  Becomes(w, [worker[w] EXCEPT !.pc = pc])
<1>1. [worker[w] EXCEPT !.pc = pc] \in Calls
  BY CallFields DEF Calls
<1>2. worker' = [worker EXCEPT ![w] = [worker[w] EXCEPT !.pc = pc]]
  BY DEF GoTo
<1>3. QED BY <1>1, <1>2, BecomesCall

\* The call that gives up its credential, with the outcome res
Compensated(w, res) ==
    [worker[w] EXCEPT !.pc = "close", !.tgt = worker[w].num,
                      !.res = IF att[worker[w].op][worker[w].num].kind = "observe"
                              THEN "uncertain" ELSE res]

\* A call that stops before a Job exists goes on to revoke its own credential.
LEMMA CompensateBecomes ==
    ASSUME CallTypes, NEW w \in Workers, NEW res \in {"failed", "uncertain"},
           Compensate(w, res)
    PROVE  Becomes(w, Compensated(w, res))
<1>1. Compensated(w, res) \in Calls
  BY CallFields DEF Calls, Compensated, Steps
<1>2. worker' = [worker EXCEPT ![w] = Compensated(w, res)]
  BY DEF Compensate, Compensated
<1>3. QED BY <1>1, <1>2, BecomesCall

\* A call ends.
LEMMA LeaveBecomes ==
    ASSUME CallTypes, NEW w \in Workers, Leave(w)
    PROVE  Becomes(w, Idle) /\ lock' \in {lock, None}
BY IdleIsCall, BecomesCall DEF Leave

\* A call that only changes its step keeps everything else.
LEMMA StepFields ==
    ASSUME NEW c \in Calls, NEW pc \in Steps
    PROVE  LET d == [c EXCEPT !.pc = pc]
           IN  /\ d.pc = pc /\ d.op = c.op /\ d.num = c.num /\ d.tgt = c.tgt
               /\ d.res = c.res /\ d.ext = c.ext /\ d.row = c.row
               /\ d.issuer = c.issuer /\ d.seen = c.seen
BY DEF Calls

\* The call that gives up its credential keeps what it is about.
LEMMA CompensatedFields ==
    ASSUME CallTypes, NEW w \in Workers, NEW res \in {"failed", "uncertain"}
    PROVE  LET c == worker[w]
               d == Compensated(w, res)
           IN  /\ d.pc = "close" /\ d.op = c.op /\ d.num = c.num /\ d.tgt = c.num
               /\ d.res \in {"failed", "uncertain"} /\ d.ext = c.ext /\ d.row = c.row
               /\ d.issuer = c.issuer /\ d.seen = c.seen
BY CallFields DEF Calls, Compensated

\* An idle call is about nothing.
LEMMA IdleFields ==
    /\ Idle.pc = "idle" /\ Idle.op = 0 /\ Idle.num = 0 /\ Idle.tgt = 0
    /\ Idle.seen = <<>>
BY DEF Idle

\* What a busy call is about exists.
LEMMA TargetExists ==
    ASSUME TypeOK, CallInv, NEW w \in Workers, Busy(w)
    PROVE  /\ worker[w].op \in Ops
           /\ worker[w].num > 0 => /\ Own(w) \in Attempts
                                   /\ Exists(Own(w))
                                   /\ worker[w].num \in 1 .. Len(obl[worker[w].op])
           /\ worker[w].tgt > 0 => /\ Target(w) \in Attempts
                                   /\ Exists(Target(w))
                                   /\ worker[w].tgt \in 1 .. Len(obl[worker[w].op])
<1>1. CallOK(w) /\ CallTypes /\ DbTypes
  BY DEF CallInv, TypeOK
<1>2. worker[w].op \in Ops /\ Len(worker[w].seen) \in Nat
  BY <1>1, CallFields, LenProperties DEF CallOK
<1>3. /\ worker[w].num <= Len(worker[w].seen) /\ worker[w].tgt <= Len(worker[w].seen)
      /\ Len(worker[w].seen) <= Len(obl[worker[w].op])
  BY <1>1 DEF CallOK
<1>4. /\ Len(obl[worker[w].op]) \in Nat
      /\ Len(obl[worker[w].op]) = Len(att[worker[w].op])
  BY <1>1, <1>2, LenProperties DEF DbTypes
<1>5. worker[w].num \in 0 .. MaxAttempts /\ worker[w].tgt \in 0 .. MaxAttempts
  BY <1>1, CallFields
<1>6. \A n \in 0 .. MaxAttempts :
         n > 0 /\ n <= Len(worker[w].seen) =>
            /\ <<worker[w].op, n>> \in Attempts
            /\ Exists(<<worker[w].op, n>>)
            /\ n \in 1 .. Len(obl[worker[w].op])
  <2>. SUFFICES ASSUME NEW n \in 0 .. MaxAttempts, n > 0, n <= Len(worker[w].seen)
                PROVE  /\ n \in Nums
                       /\ n <= Len(att[worker[w].op])
                       /\ n \in 1 .. Len(obl[worker[w].op])
    BY <1>2 DEF Attempts, Exists
  <2>. QED BY <1>2, <1>3, <1>4, DeploymentAssumption DEF Nums
<1>7. QED
  BY <1>2, <1>3, <1>5, <1>6 DEF Own, Target

-----------------------------------------------------------------------------
(* What a step of the call w may do to what others rely on *)

\* The call ends, or goes on about the same attempt, with the same obligations
\* read; it never comes back before its delivery, and submits only from there.
Move(w) ==
    /\ \E c : Becomes(w, c)
    /\ lock' \in {lock, None}
    /\ \/ worker'[w] = Idle
       \/ /\ Busy(w) /\ Busy(w)'
          /\ worker'[w].op = worker[w].op
          /\ worker'[w].num = worker[w].num
          /\ Len(worker'[w].seen) = Len(worker[w].seen)
          /\ \A m \in 1 .. Len(worker[w].seen) :
                 worker'[w].seen[m].phase = worker[w].seen[m].phase
          /\ Early(w)' => Early(w)
          /\ worker'[w].pc = "submit" =>
                 \/ worker[w].pc = "submit"
                 \/ Early(w) /\ lock = w /\ obl'[worker[w].op][worker[w].num].phase = "dispatching"

\* No attempt is added, and none changes its kind.
AttemptMove ==
    \A o \in Ops : /\ Len(att'[o]) = Len(att[o])
                   /\ \A n \in 1 .. Len(att[o]) : att'[o][n].kind = att[o][n].kind

\* Obligations only advance, and only a finished revocation resolves one.
ObligationMove(w) ==
    \A o \in Ops : \A n \in 1 .. Len(obl[o]) :
        /\ obl'[o][n].phase = "none" <=> obl[o][n].phase = "none"
        /\ obl[o][n].phase = "dispatching" => obl'[o][n].phase = "dispatching"
        /\ obl[o][n].resolved => obl'[o][n].resolved
        /\ obl'[o][n].resolved =>
               obl[o][n].resolved \/ (worker[w].pc = "resolve" /\ Target(w) = <<o, n>>)

\* Nothing that the owner of attempt a counts on is taken away.
Harmless(a) ==
    /\ mat[a].phase \in {"none", "intent"} => mat'[a].phase \in {"none", "intent"}
    /\ mat[a].phase = "intent" => mat'[a].phase = "intent"
    /\ lease[a] = "reserved" => lease'[a] = "reserved"
    /\ mat[a].phase = "creating" /\ secret[a] = "none" =>
           mat'[a].phase = "creating" /\ secret'[a] = "none"
    /\ secret[a] \in {"present", "deleted"} => secret'[a] \in {"present", "deleted"}

\* What has been revoked stays revoked, and a row only advances.
CredentialMove(w) ==
    \A a \in Attempts :
        /\ a = Own(w) \/ Harmless(a)
        /\ IssuerDone(a) => IssuerDone(a)'
        /\ mat[a].closed => mat'[a].closed /\ mat'[a].phase \in Follows[mat[a].phase]
        /\ mat[a].uid => mat'[a].uid
        /\ ~Exists(a) => mat'[a] = mat[a]

\* A call makes no Job but the one of its own attempt, once.
JobMove(w) ==
    \A a \in Attempts :
        \/ job'[a] = job[a]
        \/ worker[w].pc = "submit" /\ worker'[w].pc # "submit" /\ Owner(w) /\ a = Own(w)

Guarantee(w) ==
    Move(w) /\ AttemptMove /\ ObligationMove(w) /\ CredentialMove(w) /\ JobMove(w)

\* A call that moves does not change which attempt it owns.
LEMMA OwnerKept ==
    ASSUME OwnerInv, NEW w \in Workers, Move(w)
    PROVE  OwnerInv'
<1>. SUFFICES ASSUME NEW u \in Workers, NEW v \in Workers, u # v,
                     Owner(u)', Busy(v)', worker'[u].op = worker'[v].op
              PROVE  /\ worker'[u].num # worker'[v].num
                     /\ worker'[u].num <= Len(worker'[v].seen) => lock' # u
  BY DEF OwnerInv
<1>1. \A x \in Workers : Busy(x)' =>
        /\ Busy(x)
        /\ worker'[x].op = worker[x].op
        /\ worker'[x].num = worker[x].num
        /\ Len(worker'[x].seen) = Len(worker[x].seen)
  BY IdleFields DEF Move, Becomes, Busy
<1>2. QED
  BY <1>1, DeploymentAssumption DEF OwnerInv, Owner, Move, Busy

\* Which attempt a call owns does not change while it goes on.
LEMMA OwnKept ==
    ASSUME NEW w \in Workers, Move(w), NEW v \in Workers, Owner(v)'
    PROVE  /\ Owner(v)
           /\ Own(v)' = Own(v)
           /\ worker'[v].op = worker[v].op
           /\ worker'[v].num = worker[v].num
           /\ Early(v)' => Early(v)
           /\ v # w => worker'[v] = worker[v]
BY IdleFields DEF Move, Becomes, Owner, Busy, Own, Early, Revoking

\* Two calls own different attempts.
LEMMA OwnersDiffer ==
    ASSUME OwnerInv, NEW v \in Workers, NEW w \in Workers, v # w, Owner(v), Owner(w)
    PROVE  Own(v) # Own(w)
BY DEF OwnerInv, Own, Owner

\* No executor of an attempt comes to life again.
LEMMA QuietKept ==
    ASSUME NEW w \in Workers, Move(w), JobMove(w), NEW a \in Attempts, Quiet(a)
    PROVE  Quiet(a)'
<1>1. ASSUME NEW v \in Workers, Owner(v)', Own(v)' = a
      PROVE  worker'[v].pc # "submit" /\ (Early(v)' => lock' # v)
  <2>1. Owner(v) /\ Own(v) = a /\ (Early(v)' => Early(v)) /\ (v # w => worker'[v] = worker[v])
    BY <1>1, OwnKept
  <2>2. worker[v].pc # "submit" /\ (Early(v) => lock # v)
    BY <2>1 DEF Quiet
  <2>3. worker'[v].pc # "submit"
    BY <1>1, <2>1, <2>2, IdleFields DEF Move, Owner, Busy
  <2>4. QED
    BY <2>1, <2>2, <2>3, DeploymentAssumption DEF Move
<1>2. job'[a].st \in {"none", "done"}
  <2>1. CASE worker[w].pc = "submit" /\ Owner(w) /\ a = Own(w)
    BY <2>1 DEF Quiet
  <2>2. QED BY <2>1 DEF JobMove, Quiet
<1>3. QED BY <1>1, <1>2 DEF Quiet

\* The phases that follow a phase are followed by later ones only.
LEMMA FollowsTransitive ==
    ASSUME NEW p \in RowPhases, NEW q \in Follows[p], NEW r \in Follows[q]
    PROVE  r \in Follows[p]
BY DEF Follows, RowPhases

\* The fields of a materialization row have their types.
LEMMA RowTypes ==
    ASSUME TypeOK, NEW a \in Attempts
    PROVE  mat[a].phase \in RowPhases /\ mat[a].closed \in BOOLEAN /\ mat[a].uid \in BOOLEAN
BY DEF TypeOK, CredentialTypes, Materializations

\* A Secret that is done with stays so.
LEMMA SecretDoneKept ==
    ASSUME NEW w \in Workers, CredentialMove(w), NEW a \in Attempts, SecretDone(a)
    PROVE  SecretDone(a)'
BY DEF CredentialMove, SecretDone, Follows

\* What another call has revoked so far stays revoked.
LEMMA RevokeKept ==
    ASSUME TypeOK, CallInv, RevokeInv, NEW w \in Workers, Guarantee(w),
           NEW v \in Workers, v # w
    PROVE  RevokeOK(v)'
<1>1. worker'[v] = worker[v] /\ Target(v)' = Target(v)
  BY DEF Guarantee, Move, Becomes, Target
<1>2. CASE worker[v].pc \notin Revoking
  BY <1>1, <1>2 DEF RevokeOK, Revoking
<1>3. CASE worker[v].pc \in Revoking
  <2>. Target(v) \in Attempts
    BY <1>3, TargetExists DEF CallInv, CallOK, Busy, Revoking
  <2>1. PICK a \in Attempts : a = Target(v)
    OBVIOUS
  <2>2. RevokeOK(v)
    BY DEF RevokeInv
  <2>3. Quiet(a)'
    BY <2>1, <2>2, <1>3, QuietKept DEF RevokeOK, Guarantee
  <2>4. SecretDone(a) => SecretDone(a)'
    BY <2>1, SecretDoneKept DEF Guarantee
  <2>5. IssuerDone(a) => IssuerDone(a)'
    BY <2>1 DEF Guarantee, CredentialMove
  <2>6. ASSUME worker[v].pc \in {"issuer", "remove"}
        PROVE  /\ mat'[a].closed
               /\ mat'[a].phase \in Follows[worker[v].row.phase]
               /\ worker[v].row.uid => mat'[a].uid
    <3>1. /\ mat[a].closed
          /\ mat[a].phase \in Follows[worker[v].row.phase]
          /\ worker[v].row.uid => mat[a].uid
      BY <2>1, <2>2, <2>6 DEF RevokeOK
    <3>2. /\ mat'[a].closed
          /\ mat'[a].phase \in Follows[mat[a].phase]
          /\ mat[a].uid => mat'[a].uid
      BY <3>1, <2>1 DEF Guarantee, CredentialMove
    <3>3. worker[v].row.phase \in RowPhases
      BY CallFields DEF TypeOK, Materializations
    <3>4. QED BY <3>1, <3>2, <3>3, FollowsTransitive
  <2>7. Target(v)' = a
    BY <1>1, <2>1
  <2>8. /\ worker[v].pc = "remove" /\ worker[v].issuer => IssuerDone(a)
        /\ worker[v].pc = "resolve" => IssuerDone(a) /\ SecretDone(a)
    BY <2>1, <2>2 DEF RevokeOK
  <2>9. QED
    BY <1>1, <2>3, <2>4, <2>5, <2>6, <2>7, <2>8 DEF RevokeOK
<1>4. QED BY <1>2, <1>3

\* Every attempt has one obligation, before a step and after it.
LEMMA LengthsKept ==
    ASSUME DbTypes, DbTypes', AttemptMove, NEW o \in Ops
    PROVE  /\ Len(att'[o]) = Len(att[o]) /\ Len(obl'[o]) = Len(obl[o])
           /\ Len(att[o]) \in Nat /\ Len(obl[o]) = Len(att[o])
BY LenProperties DEF DbTypes, AttemptMove

\* An attempt has an obligation and a kind.
LEMMA ExistsFields ==
    ASSUME DbTypes, NEW a \in Attempts, Exists(a)
    PROVE  /\ a[1] \in Ops
           /\ a[2] \in 1 .. Len(att[a[1]])
           /\ a[2] \in 1 .. Len(obl[a[1]])
           /\ att[a[1]][a[2]] \in AttemptRows
           /\ obl[a[1]][a[2]] \in Obligations
<1>1. a[1] \in Ops /\ a[2] \in Nat /\ a[2] > 0
  BY DeploymentAssumption DEF Attempts, Nums
<1>2. /\ att[a[1]] \in Seq(AttemptRows) /\ obl[a[1]] \in Seq(Obligations)
      /\ Len(att[a[1]]) \in Nat /\ Len(obl[a[1]]) = Len(att[a[1]])
  BY <1>1, LenProperties DEF DbTypes
<1>3. a[2] \in 1 .. Len(att[a[1]]) /\ a[2] \in 1 .. Len(obl[a[1]])
  BY <1>1, <1>2 DEF Exists
<1>4. QED BY <1>1, <1>2, <1>3, ElementOfSeq

\* The variables of another call still fit its step.
LEMMA CallKept ==
    ASSUME TypeOK, DbTypes', CallInv, AttemptMove, NEW w \in Workers, Move(w),
           NEW v \in Workers, v # w
    PROVE  CallOK(v)'
<1>1. worker'[v] = worker[v]
  BY DEF Move, Becomes
<1>2. CallOK(v)
  BY DEF CallInv
<1>3. \A o \in Ops : Len(obl'[o]) = Len(obl[o])
  BY LengthsKept DEF TypeOK
<1>4. Busy(v)' = Busy(v)
  BY <1>1 DEF Busy
<1>5. QED BY <1>1, <1>2, <1>3, <1>4 DEF CallOK

\* Another call keeps what it has of its credential.
LEMMA CredentialKept ==
    ASSUME TypeOK, CallInv, OwnerInv, CredentialInv, NEW w \in Workers, Move(w),
           CredentialMove(w), NEW v \in Workers, v # w, Owner(v)'
    PROVE  CredentialOK(v)'
<1>1. worker'[v] = worker[v] /\ Owner(v)
  BY OwnKept
<1>2. Own(v) \in Attempts
  BY <1>1, TargetExists DEF Owner
<1>3. PICK a \in Attempts : a = Own(v)
  BY <1>2
<1>4. Own(v)' = a /\ Own(v) = a
  BY <1>1, <1>3 DEF Own
<1>5. a # Own(w)
  <2>1. CASE Owner(w)
    BY <2>1, <1>1, <1>4, OwnersDiffer
  <2>2. CASE ~Owner(w)
    <3>1. worker[w].num \in Nat /\ worker[v].num > 0 /\ worker[v].op \in Ops
      BY <1>1, CallFields, TargetExists, DeploymentAssumption DEF TypeOK, Owner
    <3>2. worker[w].num = 0 \/ worker[w] = Idle
      BY <2>2, <3>1 DEF Owner, Busy, CallInv, CallOK
    <3>3. worker[w].num = 0
      BY <3>2, IdleFields
    <3>4. QED BY <3>1, <3>3, <1>4 DEF Own
  <2>3. QED BY <2>1, <2>2
<1>6. Harmless(a)
  BY <1>5 DEF CredentialMove
<1>7. CredentialOK(v)
  BY <1>1 DEF CredentialInv
<1>8. RevokesOwn(v)' = RevokesOwn(v)
  BY <1>1 DEF RevokesOwn
<1>9. QED
  BY <1>1, <1>4, <1>6, <1>7, <1>8 DEF CredentialOK, Harmless

\* A Job stays announced, and is made only by the call that announced it.
LEMMA JobInvKept ==
    ASSUME TypeOK, DbTypes', CallInv, OwnerInv, JobInv, NEW w \in Workers, Guarantee(w)
    PROVE  JobInv'
<1>1. ASSUME NEW a \in Attempts
      PROVE  JobOK(a)'
  <2>1. JobOK(a) /\ Exists(a)' = Exists(a) /\ a[1] \in Ops
    BY LengthsKept DEF JobInv, Exists, Attempts, TypeOK, Guarantee
  <2>2. CASE ~Exists(a)
    <3>1. ~ (Owner(w) /\ a = Own(w))
      BY <2>2, TargetExists DEF Owner
    <3>2. mat'[a] = NoRow /\ job'[a] = NoJob
      BY <2>1, <2>2, <3>1 DEF JobOK, Guarantee, JobMove, CredentialMove
    <3>3. QED BY <3>2, <2>1, <2>2 DEF JobOK, NoJob
  <2>3. CASE Exists(a)
    <3>1. a[2] \in 1 .. Len(obl[a[1]])
      BY <2>3, ExistsFields DEF TypeOK
    <3>2. obl[a[1]][a[2]].phase = "dispatching" => obl'[a[1]][a[2]].phase = "dispatching"
      BY <2>1, <3>1 DEF Guarantee, ObligationMove
    <3>3. CASE worker[w].pc = "submit" /\ Owner(w) /\ a = Own(w)
      <4>1. obl[a[1]][a[2]].phase = "dispatching"
        BY <3>3 DEF JobInv, Own
      <4>2. QED BY <2>1, <2>3, <3>2, <4>1 DEF JobOK
    <3>4. CASE job'[a] = job[a]
      BY <2>1, <2>3, <3>2, <3>4 DEF JobOK
    <3>5. QED BY <3>3, <3>4 DEF Guarantee, JobMove
  <2>4. QED BY <2>2, <2>3
<1>2. ASSUME NEW v \in Workers, Owner(v)'
      PROVE  /\ worker'[v].pc = "submit" =>
                    obl'[worker'[v].op][worker'[v].num].phase = "dispatching"
             /\ (worker'[v].pc = "submit" \/ Early(v)') => job'[Own(v)'].st = "none"
  <2>1. /\ Owner(v) /\ Own(v)' = Own(v) /\ (Early(v)' => Early(v))
        /\ worker'[v].op = worker[v].op /\ worker'[v].num = worker[v].num
        /\ (v # w => worker'[v] = worker[v])
    BY <1>2, OwnKept DEF Guarantee
  <2>2. /\ worker[v].op \in Ops
        /\ worker[v].num \in 1 .. Len(obl[worker[v].op])
        /\ Own(v) \in Attempts
    BY <2>1, TargetExists DEF Owner
  <2>3. obl[worker[v].op][worker[v].num].phase = "dispatching"
          => obl'[worker[v].op][worker[v].num].phase = "dispatching"
    BY <2>2 DEF Guarantee, ObligationMove
  <2>4. /\ worker[v].pc = "submit" => obl[worker[v].op][worker[v].num].phase = "dispatching"
        /\ worker[v].pc = "submit" \/ Early(v) => job[Own(v)].st = "none"
    BY <2>1 DEF JobInv
  <2>5. CASE v # w
    <3>1. job'[Own(v)] = job[Own(v)]
      BY <2>1, <2>2, <2>5, OwnersDiffer DEF Guarantee, JobMove
    <3>2. QED BY <2>1, <2>3, <2>4, <2>5, <3>1
  <2>6. CASE v = w
    <3>1. worker'[w].pc = "submit" =>
             \/ worker[w].pc = "submit"
             \/ Early(w) /\ obl'[worker[w].op][worker[w].num].phase = "dispatching"
      BY <1>2, <2>6, IdleFields DEF Guarantee, Move, Owner, Busy
    <3>2. job'[Own(w)] = job[Own(w)] \/ (worker[w].pc = "submit" /\ worker'[w].pc # "submit")
      BY <2>2, <2>6 DEF Guarantee, JobMove, Own
    <3>3. worker[w].pc = "submit" => ~Early(w)
      BY DEF Early, Revoking
    <3>4. QED BY <2>1, <2>3, <2>4, <2>6, <3>1, <3>2, <3>3
  <2>7. QED BY <2>5, <2>6
<1>3. QED BY <1>1, <1>2 DEF JobInv

\* A call has read obligations of attempts only.
LEMMA SeenExists ==
    ASSUME TypeOK, CallInv, NEW u \in Workers, Busy(u), NEW m \in 1 .. Len(worker[u].seen)
    PROVE  <<worker[u].op, m>> \in Attempts /\ m \in 1 .. Len(obl[worker[u].op])
<1>1. /\ worker[u].op \in Ops /\ Len(worker[u].seen) \in Nat
      /\ Len(worker[u].seen) <= Len(obl[worker[u].op])
  BY CallFields, LenProperties DEF CallInv, CallOK, TypeOK
<1>2. /\ Len(obl[worker[u].op]) \in Nat /\ Len(obl[worker[u].op]) <= MaxAttempts
  BY <1>1, LenProperties DEF TypeOK, DbTypes
<1>3. m \in Nums /\ m \in 1 .. Len(obl[worker[u].op])
  BY <1>1, <1>2, DeploymentAssumption DEF Nums
<1>4. QED BY <1>1, <1>3 DEF Attempts

\* What a call read as not yet announced is still not submitted.
LEMMA SeenKept ==
    ASSUME TypeOK, DbTypes', CallInv, OwnerInv, JobInv, SeenInv,
           NEW w \in Workers, Guarantee(w)
    PROVE  SeenInv'
<1>. SUFFICES ASSUME NEW u \in Workers, Busy(u)',
                     NEW m \in 1 .. Len(worker'[u].seen),
                     m # worker'[u].num, worker'[u].seen[m].phase = "preparing"
              PROVE  /\ job'[<<worker'[u].op, m>>].st = "none"
                     /\ \A v \in Workers : Owner(v)' /\ Own(v)' = <<worker'[u].op, m>> =>
                            worker'[v].pc # "submit"
  BY DEF SeenInv
<1>1. /\ Busy(u) /\ worker'[u].op = worker[u].op /\ worker'[u].num = worker[u].num
      /\ Len(worker'[u].seen) = Len(worker[u].seen)
      /\ worker[u].seen[m].phase = "preparing"
  BY IdleFields DEF Guarantee, Move, Becomes, Busy
<1>2. /\ job[<<worker[u].op, m>>].st = "none"
      /\ \A v \in Workers : Owner(v) /\ Own(v) = <<worker[u].op, m>> => worker[v].pc # "submit"
  BY <1>1 DEF SeenInv
<1>3. <<worker[u].op, m>> \in Attempts
  BY <1>1, SeenExists
<1>4. job'[<<worker[u].op, m>>].st = "none"
  BY <1>2, <1>3 DEF Guarantee, JobMove
<1>5. ASSUME NEW v \in Workers, Owner(v)', Own(v)' = <<worker[u].op, m>>
      PROVE  worker'[v].pc # "submit"
  <2>1. /\ Owner(v) /\ Own(v) = <<worker[u].op, m>>
        /\ (v # w => worker'[v] = worker[v])
    BY <1>5, OwnKept DEF Guarantee
  <2>2. worker[v].pc # "submit"
    BY <1>2, <2>1
  <2>3. worker[v].op = worker[u].op /\ worker[v].num = m
    BY <2>1 DEF Own
  <2>4. v # u
    BY <1>1, <2>3
  <2>5. lock # v
    BY <1>1, <2>1, <2>3, <2>4 DEF OwnerInv
  <2>6. QED
    BY <1>5, <2>1, <2>2, <2>5, IdleFields DEF Guarantee, Move, Owner, Busy
<1>6. QED BY <1>1, <1>4, <1>5

\* A resolved obligation stays discharged, and one that is resolved now was
\* discharged by the revocation that ends here.
LEMMA ResolvedKept ==
    ASSUME TypeOK, DbTypes', CallInv, RevokeInv, ResolvedInv,
           NEW w \in Workers, Guarantee(w)
    PROVE  ResolvedInv'
<1>. SUFFICES ASSUME NEW a \in Attempts, Exists(a)',
                     obl'[a[1]][a[2]].resolved, obl'[a[1]][a[2]].phase # "none"
              PROVE  IssuerDone(a)' /\ SecretDone(a)' /\ Quiet(a)'
  BY DEF ResolvedInv
<1>1. Exists(a)
  BY LengthsKept DEF Guarantee, Exists, Attempts, TypeOK
<1>2. a[1] \in Ops /\ a[2] \in 1 .. Len(obl[a[1]])
  BY <1>1, ExistsFields DEF TypeOK
<1>3. /\ obl[a[1]][a[2]].phase # "none"
      /\ \/ obl[a[1]][a[2]].resolved
         \/ worker[w].pc = "resolve" /\ Target(w) = <<a[1], a[2]>>
  BY <1>2 DEF Guarantee, ObligationMove
<1>4. IssuerDone(a) /\ SecretDone(a) /\ Quiet(a)
  <2>1. CASE obl[a[1]][a[2]].resolved
    BY <1>1, <1>3, <2>1 DEF ResolvedInv
  <2>2. CASE worker[w].pc = "resolve" /\ Target(w) = <<a[1], a[2]>>
    <3>1. Target(w) = a
      BY <2>2 DEF Attempts
    <3>2. QED BY <2>2, <3>1 DEF RevokeInv, RevokeOK, Revoking
  <2>3. QED BY <1>3, <2>1, <2>2
<1>5. QED
  BY <1>4, QuietKept, SecretDoneKept DEF Guarantee, CredentialMove

\* No delivery is added, and none is opened again.
LEMMA DeliveryKept ==
    ASSUME DbTypes, DbTypes', DeliveryInv, NEW w \in Workers, AttemptMove, ObligationMove(w)
    PROVE  DeliveryInv'
<1>1. ASSUME NEW a \in Attempts, Exists(a)'
      PROVE  /\ Exists(a)
             /\ att'[a[1]][a[2]].kind = att[a[1]][a[2]].kind
             /\ obl'[a[1]][a[2]].phase = "none" <=> obl[a[1]][a[2]].phase = "none"
             /\ obl[a[1]][a[2]].resolved => obl'[a[1]][a[2]].resolved
  <2>1. Exists(a)
    BY <1>1, LengthsKept DEF Exists, Attempts
  <2>2. a[1] \in Ops /\ a[2] \in 1 .. Len(att[a[1]]) /\ a[2] \in 1 .. Len(obl[a[1]])
    BY <2>1, ExistsFields
  <2>3. QED BY <2>1, <2>2 DEF AttemptMove, ObligationMove
<1>2. ASSUME NEW a \in Attempts, Exists(a)'
      PROVE  /\ att'[a[1]][a[2]].kind = "recover" <=> obl'[a[1]][a[2]].phase = "none"
             /\ obl'[a[1]][a[2]].phase = "none" => obl'[a[1]][a[2]].resolved
  BY <1>1, <1>2 DEF DeliveryInv
<1>3. ASSUME NEW a \in Attempts, NEW b \in Attempts,
             Exists(a)', att'[a[1]][a[2]].kind = "execute", ~obl'[a[1]][a[2]].resolved,
             Exists(b)', att'[b[1]][b[2]].kind = "execute", ~obl'[b[1]][b[2]].resolved
      PROVE  a = b
  BY <1>1, <1>3 DEF DeliveryInv
<1>4. QED BY <1>2, <1>3 DEF DeliveryInv

\* A step of a call keeps the whole invariant, if it keeps what is its own.
LEMMA StepKeeps ==
    ASSUME IInv, NEW w \in Workers, Guarantee(w), TypeOK', RowInv', EndedInv',
           CallOK(w)', RevokeOK(w)', Owner(w)' => CredentialOK(w)'
    PROVE  IInv'
<1>1. OwnerInv'
  BY OwnerKept DEF IInv, Guarantee
<1>2. CallInv'
  BY CallKept DEF IInv, Guarantee, CallInv, TypeOK
<1>3. RevokeInv'
  <2>1. \A v \in Workers : v # w => RevokeOK(v)'
    BY RevokeKept DEF IInv
  <2>2. QED BY <2>1 DEF RevokeInv
<1>4. CredentialInv'
  BY CredentialKept DEF IInv, Guarantee, CredentialInv
<1>5. JobInv' /\ SeenInv' /\ ResolvedInv'
  BY JobInvKept, SeenKept, ResolvedKept DEF IInv, TypeOK
<1>6. DeliveryInv'
  BY DeliveryKept DEF IInv, Guarantee, TypeOK
<1>7. QED BY <1>1, <1>2, <1>3, <1>4, <1>5, <1>6 DEF IInv

-----------------------------------------------------------------------------
(* Groups of variables that a step leaves alone *)

\* A step that leaves attempts and obligations alone moves neither.
LEMMA SameDb ==
    ASSUME UNCHANGED <<att, obl>>, NEW w \in Workers
    PROVE  AttemptMove /\ ObligationMove(w)
BY DEF AttemptMove, ObligationMove

\* Whether an operation has ended is read off its tables only.
LEMMA SameOperations ==
    ASSUME EndedInv, UNCHANGED <<op, att, obl>>
    PROVE  EndedInv'
BY DEF EndedInv, PendingCredentials

\* A step that leaves the credentials alone harms nobody.
LEMMA SameCredentials ==
    ASSUME TypeOK, RowInv, UNCHANGED credVars, NEW w \in Workers
    PROVE  CredentialMove(w) /\ RowInv'
<1>1. RowInv'
  BY DEF RowInv, RowOK
<1>2. ASSUME NEW a \in Attempts
      PROVE  /\ Harmless(a)
             /\ IssuerDone(a) => IssuerDone(a)'
             /\ mat[a].closed => mat'[a].phase \in Follows[mat[a].phase]
  <2>1. mat[a].closed => mat[a].phase # "none"
    BY DEF RowInv, RowOK
  <2>2. mat[a].closed => mat[a].phase \in Follows[mat[a].phase]
    BY <2>1, RowTypes DEF Follows, RowPhases
  <2>3. QED BY <2>2 DEF Harmless, IssuerDone
<1>3. QED BY <1>1, <1>2 DEF CredentialMove

\* A step that leaves the Jobs alone makes none.
LEMMA SameJobs ==
    ASSUME UNCHANGED job, NEW w \in Workers
    PROVE  JobMove(w)
BY DEF JobMove

\* A group of variables that a step leaves alone keeps its types.
LEMMA SameTypes ==
    /\ DbTypes /\ UNCHANGED dbVars => DbTypes'
    /\ CredentialTypes /\ UNCHANGED credVars => CredentialTypes'
    /\ ClusterTypes /\ UNCHANGED <<clusterVars, outbox>> => ClusterTypes'
BY DEF DbTypes, CredentialTypes, ClusterTypes

-----------------------------------------------------------------------------
(* The three ways in which a call goes on *)

\* The call ends.
LEMMA LeaveKeeps ==
    ASSUME CallTypes, NEW w \in Workers, Leave(w)
    PROVE  /\ Move(w) /\ CallOK(w)' /\ RevokeOK(w)' /\ ~Owner(w)'
           /\ worker' \in [Workers -> Calls] /\ lock' \in Workers \cup {None}
<1>1. Becomes(w, Idle) /\ lock' \in {lock, None}
  BY LeaveBecomes
<1>2. worker'[w] = Idle /\ worker'[w].pc = "idle" /\ worker' \in [Workers -> Calls]
  BY <1>1, IdleFields DEF Becomes
<1>3. QED
  BY <1>1, <1>2 DEF Move, CallOK, RevokeOK, Busy, Owner, Revoking, CallTypes

\* The steps of a call on its way to its own delivery
Delivering == {"prepare", "reserve", "issue", "creating", "create", "record", "dispatch"}

\* A call goes on to the next of these steps.
LEMMA GoToKeeps ==
    ASSUME TypeOK, DbTypes', AttemptMove, CallInv, NEW w \in Workers,
           NEW pc \in Delivering, worker[w].pc \in Delivering, GoTo(w, pc), UNCHANGED lock
    PROVE  /\ Move(w) /\ CallOK(w)' /\ RevokeOK(w)' /\ Own(w)' = Own(w)
           /\ worker'[w].pc = pc
           /\ worker' \in [Workers -> Calls] /\ lock' \in Workers \cup {None}
<1>. DEFINE c == [worker[w] EXCEPT !.pc = pc]
<1>1. Becomes(w, c) /\ CallTypes
  BY GoToBecomes DEF TypeOK, Delivering, Steps
<1>2. /\ worker'[w] = c
      /\ c.pc = pc /\ c.op = worker[w].op /\ c.num = worker[w].num /\ c.tgt = worker[w].tgt
      /\ c.seen = worker[w].seen
  BY <1>1, StepFields, CallFields DEF Becomes, Delivering, Steps
<1>. HIDE DEF c
<1>3. CallOK(w) /\ Busy(w) /\ Early(w)
  BY DEF CallInv, Busy, Delivering, Early
<1>4. Len(obl'[worker[w].op]) = Len(obl[worker[w].op])
  BY <1>3, TargetExists, LengthsKept DEF TypeOK
<1>5. CallOK(w)'
  BY <1>2, <1>3, <1>4, IdleFields DEF CallOK, Busy, Delivering, Revoking
<1>6. Move(w)
  BY <1>1, <1>2, <1>3 DEF Move, Busy, Delivering
<1>7. RevokeOK(w)'
  BY <1>2 DEF RevokeOK, Delivering, Revoking
<1>8. QED
  BY <1>1, <1>2, <1>5, <1>6, <1>7 DEF CallTypes, Becomes, Own

\* No executor of an attempt lives when its call turns to revoking it before
\* any Job was made.
LEMMA OwnIsQuiet ==
    ASSUME TypeOK, CallInv, OwnerInv, NEW w \in Workers, Move(w),
           Owner(w), job'[Own(w)].st \in {"none", "done"},
           worker'[w].pc \in Revoking, worker'[w].tgt = worker'[w].num
    PROVE  Quiet(Own(w))'
<1>. Own(w) \in Attempts
  BY TargetExists DEF Owner
<1>1. PICK a \in Attempts : a = Own(w)
  OBVIOUS
<1>2. worker'[w].num = worker[w].num /\ worker'[w].op = worker[w].op
  BY IdleFields DEF Move, Revoking
<1>3. Own(w)' = a
  BY <1>1, <1>2 DEF Own
<1>4. worker'[w].pc # "submit" /\ ~Early(w)'
  BY DEF Early, Revoking
<1>5. ASSUME NEW v \in Workers, Owner(v)', Own(v)' = a
      PROVE  v = w
  BY <1>1, <1>5, OwnKept, OwnersDiffer
<1>6. Quiet(a)'
  BY <1>1, <1>4, <1>5 DEF Quiet
<1>7. QED BY <1>3, <1>6

\* A call on its way to its delivery turns back.
LEMMA CompensateKeeps ==
    ASSUME TypeOK, DbTypes', AttemptMove, CallInv, OwnerInv, JobInv, NEW w \in Workers,
           worker[w].pc \in Delivering, NEW res \in {"failed", "uncertain"},
           Compensate(w, res), UNCHANGED <<lock, job>>
    PROVE  /\ Move(w) /\ CallOK(w)' /\ RevokeOK(w)' /\ CredentialOK(w)'
           /\ worker' \in [Workers -> Calls] /\ lock' \in Workers \cup {None}
<1>. DEFINE c == Compensated(w, res)
<1>1. Becomes(w, c) /\ CallTypes
  BY CompensateBecomes DEF TypeOK
<1>2. /\ worker'[w] = c
      /\ c.pc = "close" /\ c.op = worker[w].op /\ c.num = worker[w].num
      /\ c.tgt = worker[w].num /\ c.seen = worker[w].seen /\ c.res # "none"
  BY <1>1, CompensatedFields DEF Becomes
<1>. HIDE DEF c
<1>3. CallOK(w) /\ Owner(w) /\ Busy(w) /\ Early(w)
  <2>1. CallOK(w) /\ Busy(w) /\ Early(w)
    BY DEF CallInv, Busy, Delivering, Early
  <2>2. worker[w].num > 0
    BY <2>1 DEF CallOK, Delivering, Revoking
  <2>3. QED BY <2>1, <2>2 DEF Owner
<1>4. Len(obl'[worker[w].op]) = Len(obl[worker[w].op])
  BY <1>3, TargetExists, LengthsKept DEF TypeOK
<1>5. CallOK(w)'
  BY <1>2, <1>3, <1>4, IdleFields DEF CallOK, Busy, Owner, Revoking
<1>6. Move(w)
  BY <1>1, <1>2, <1>3 DEF Move, Busy, Early, Revoking
<1>7. Target(w)' = Own(w)
  BY <1>2 DEF Target, Own
<1>8. Own(w)' = Own(w)
  BY <1>2 DEF Own
<1>9. RevokeOK(w)'
  <2>1. job[Own(w)].st = "none"
    BY <1>3 DEF JobInv
  <2>2. Quiet(Own(w))'
    BY <1>2, <1>3, <1>6, <2>1, <1>8, OwnIsQuiet DEF Revoking
  <2>3. Quiet(Target(w))'
    BY <2>2, <1>7, <1>8
  <2>4. QED BY <1>2, <2>3 DEF RevokeOK
<1>10. CredentialOK(w)'
  BY <1>2 DEF CredentialOK, RevokesOwn
<1>11. QED
  BY <1>1, <1>5, <1>6, <1>9, <1>10 DEF CallTypes, Becomes

-----------------------------------------------------------------------------
(* Steps that change nothing but the call *)

\* A set of numbers has a least one.
LEMMA MinExists ==
    ASSUME NEW S \in SUBSET Nat, S # {}
    PROVE  \E m \in S : \A k \in S : m <= k
<1>. DEFINE R == {ss \in Nat \X Nat : ss[1] < ss[2]}
<1>1. R = OpToRel(<, Nat)
  BY DEF OpToRel
<1>2. IsWellFoundedOn(R, Nat)
  BY <1>1, NatLessThanWellFounded
<1>. HIDE DEF R
<1>3. \E x \in S : \A y \in S : <<y, x>> \notin R
  BY <1>2, WFMin
<1>4. PICK x \in S : \A y \in S : <<y, x>> \notin R
  BY <1>3
<1>5. ASSUME NEW y \in S PROVE x <= y
  <2>1. ~ (y < x)
    BY <1>4 DEF R
  <2>2. QED BY <2>1
<1>6. QED BY <1>5

\* A step that changes only the call, the lock and the count of faults.
LEMMA LocalKeeps ==
    ASSUME IInv, NEW w \in Workers, UNCHANGED <<dbVars, credVars, clusterVars, outbox>>,
           CallTypes', Move(w), CallOK(w)', RevokeOK(w)', Owner(w)' => CredentialOK(w)'
    PROVE  IInv'
<1>1. TypeOK'
  BY SameTypes DEF IInv, TypeOK
<1>2. AttemptMove /\ ObligationMove(w)
  BY SameDb
<1>3. EndedInv'
  BY SameOperations DEF IInv
<1>4. CredentialMove(w) /\ RowInv'
  BY SameCredentials DEF IInv
<1>5. JobMove(w)
  BY SameJobs
<1>6. QED BY <1>1, <1>2, <1>3, <1>4, <1>5, StepKeeps DEF Guarantee

\* The call goes on to wait for its Job, or to report.
LEMMA ReportKeeps ==
    ASSUME TypeOK, DbTypes', AttemptMove, CallInv, NEW w \in Workers, Owner(w),
           NEW c \in Calls, worker' = [worker EXCEPT ![w] = c],
           c.pc = "watch" \/ (c.pc = "finish" /\ c.res # "none"),
           c.op = worker[w].op, c.num = worker[w].num, c.tgt <= Len(worker[w].seen),
           Len(c.seen) = Len(worker[w].seen),
           \A m \in 1 .. Len(c.seen) : c.seen[m].phase = worker[w].seen[m].phase,
           UNCHANGED lock
    PROVE  /\ Move(w) /\ CallOK(w)' /\ RevokeOK(w)' /\ CredentialOK(w)'
           /\ worker' \in [Workers -> Calls] /\ lock' \in Workers \cup {None}
<1>1. Becomes(w, c) /\ CallTypes
  BY BecomesCall DEF TypeOK
<1>2. worker'[w] = c
  BY <1>1 DEF Becomes
<1>3. CallOK(w) /\ Busy(w)
  BY DEF CallInv, Owner
<1>4. Len(obl'[worker[w].op]) = Len(obl[worker[w].op])
  BY <1>3, TargetExists, LengthsKept DEF TypeOK
<1>5. CallOK(w)'
  BY <1>2, <1>3, <1>4, IdleFields DEF CallOK, Busy, Owner, Revoking
<1>6. Move(w)
  BY <1>1, <1>2, <1>3 DEF Move, Busy, Early, Revoking
<1>7. RevokeOK(w)' /\ CredentialOK(w)'
  BY <1>2 DEF RevokeOK, CredentialOK, Revoking
<1>8. QED BY <1>1, <1>5, <1>6, <1>7 DEF CallTypes, Becomes

\* A refusal for want of authority: the call revokes its own credential.
LEMMA UncoveredStep == ASSUME IInv, NEW w \in Workers, Uncovered(w) PROVE IInv'
<1>1. Move(w) /\ CallOK(w)' /\ RevokeOK(w)' /\ CredentialOK(w)' /\ CallTypes'
  BY CompensateKeeps, SameDb, SameTypes DEF Uncovered, IInv, TypeOK, CallTypes, Delivering
<1>2. QED BY <1>1, LocalKeeps DEF Uncovered

\* A call that dies leaves everything behind but the lock.
LEMMA CrashStep == ASSUME IInv, NEW w \in Workers, Crash(w) PROVE IInv'
<1>1. faults' \in 0 .. MaxFaults
  BY DeploymentAssumption DEF Crash, IInv, TypeOK, CallTypes
<1>2. Move(w) /\ CallOK(w)' /\ RevokeOK(w)' /\ ~Owner(w)' /\ CallTypes'
  BY <1>1, LeaveKeeps DEF Crash, IInv, TypeOK, CallTypes
<1>3. QED BY <1>2, LocalKeeps DEF Crash

\* A lost session frees the lock; the call that held it goes on.
LEMMA LoseSessionStep == ASSUME IInv, NEW w \in Workers, LoseSession(w) PROVE IInv'
<1>1. CallTypes'
  BY DeploymentAssumption DEF LoseSession, IInv, TypeOK, CallTypes
<1>2. Move(w)
  <2>1. Becomes(w, worker[w])
    BY DEF LoseSession, IInv, TypeOK, CallTypes, Becomes
  <2>2. CASE Busy(w)
    BY <2>1, <2>2 DEF Move, LoseSession, Busy, Early
  <2>3. CASE ~Busy(w)
    BY <2>1, <2>3 DEF Move, LoseSession, Busy, IInv, CallInv, CallOK
  <2>4. QED BY <2>2, <2>3
<1>3. CallOK(w)' /\ (Owner(w)' => CredentialOK(w)')
  BY DEF LoseSession, IInv, CallInv, CallOK, CredentialInv, CredentialOK, Owner, Busy,
         Own, RevokesOwn
<1>4. RevokeOK(w)'
  <2>1. RevokeOK(w) /\ UNCHANGED <<worker, mat, fence, lease>>
    BY DEF IInv, RevokeInv, LoseSession
  <2>2. CASE worker[w].pc \in Revoking
    <3>1. Target(w) \in Attempts
      BY <2>2, TargetExists DEF IInv, CallInv, CallOK, Busy, Revoking
    <3>2. PICK a \in Attempts : a = Target(w)
      BY <3>1
    <3>3. Quiet(a)' /\ Target(w)' = a
      <4>1. JobMove(w)
        BY SameJobs DEF LoseSession
      <4>2. QED BY <1>2, <2>1, <2>2, <3>2, <4>1, QuietKept DEF RevokeOK, Target
    <3>4. QED BY <2>1, <3>2, <3>3 DEF RevokeOK, IssuerDone, SecretDone
  <2>3. CASE worker[w].pc \notin Revoking
    BY <2>1, <2>3 DEF RevokeOK, Revoking
  <2>4. QED BY <2>2, <2>3
<1>5. QED BY <1>1, <1>2, <1>3, <1>4, LocalKeeps DEF LoseSession

\* A call that stops watching reports uncertain and revokes nothing.
LEMMA GiveUpStep == ASSUME IInv, NEW w \in Workers, GiveUp(w) PROVE IInv'
<1>. DEFINE c == [worker[w] EXCEPT !.pc = "finish", !.res = "uncertain"]
<1>1. /\ c \in Calls /\ c.pc = "finish" /\ c.res = "uncertain" /\ c.op = worker[w].op
      /\ c.num = worker[w].num /\ c.tgt = worker[w].tgt /\ c.seen = worker[w].seen
  BY CallFields DEF IInv, TypeOK, Calls, Steps
<1>2. worker' = [worker EXCEPT ![w] = c]
  BY DEF GiveUp
<1>. HIDE DEF c
<1>3. Owner(w) /\ c.tgt <= Len(worker[w].seen)
  <2>1. CallOK(w) /\ Busy(w)
    BY DEF IInv, CallInv, GiveUp, Busy
  <2>2. QED BY <1>1, <2>1 DEF CallOK, GiveUp, Owner, Revoking
<1>4. faults' \in 0 .. MaxFaults
  BY DeploymentAssumption DEF GiveUp, IInv, TypeOK, CallTypes
<1>5. AttemptMove /\ DbTypes' /\ UNCHANGED lock
  BY SameDb, SameTypes DEF GiveUp, IInv, TypeOK
<1>6. Move(w) /\ CallOK(w)' /\ RevokeOK(w)' /\ CredentialOK(w)' /\ CallTypes'
  BY <1>1, <1>2, <1>3, <1>4, <1>5, ReportKeeps DEF IInv, CallTypes
<1>7. QED BY <1>6, LocalKeeps DEF GiveUp

\* What the Job says decides how the call ends; only a Pod that ended lets it revoke.
LEMMA WatchStep == ASSUME IInv, NEW w \in Workers, Watch(w) PROVE IInv'
<1>1. PICK res \in {"succeeded", "failed", "uncertain"}, ext \in BOOLEAN :
        worker' = [worker EXCEPT ![w] =
            [worker[w] EXCEPT !.res = res, !.ext = ext, !.tgt = worker[w].num,
                 !.pc = IF PodEnded(Own(w)) THEN "close" ELSE "finish"]]
  BY DEF Watch, Verdict, HasExternalID, Own
<1>. DEFINE c == [worker[w] EXCEPT !.res = res, !.ext = ext, !.tgt = worker[w].num,
                                   !.pc = IF PodEnded(Own(w)) THEN "close" ELSE "finish"]
<1>2. /\ c \in Calls /\ c.pc = (IF PodEnded(Own(w)) THEN "close" ELSE "finish")
      /\ c.res # "none" /\ c.op = worker[w].op
      /\ c.num = worker[w].num /\ c.tgt = worker[w].num /\ c.seen = worker[w].seen
  BY CallFields DEF IInv, TypeOK, Calls, Steps
<1>3. worker' = [worker EXCEPT ![w] = c]
  BY <1>1
<1>. HIDE DEF c
<1>4. Owner(w) /\ worker[w].num <= Len(worker[w].seen) /\ CallOK(w)
  <2>1. CallOK(w) /\ Busy(w)
    BY DEF IInv, CallInv, Watch, Busy
  <2>2. QED BY <1>2, <2>1 DEF CallOK, Watch, Owner, Revoking
<1>5. AttemptMove /\ DbTypes' /\ UNCHANGED <<lock, job, faults>>
  BY SameDb, SameTypes DEF Watch, IInv, TypeOK
<1>6. CASE ~PodEnded(Own(w))
  <2>1. Move(w) /\ CallOK(w)' /\ RevokeOK(w)' /\ CredentialOK(w)' /\ CallTypes'
    BY <1>2, <1>3, <1>4, <1>5, <1>6, ReportKeeps DEF IInv, TypeOK, CallTypes
  <2>2. QED BY <2>1, LocalKeeps DEF Watch
<1>7. CASE PodEnded(Own(w))
  <2>1. Becomes(w, c) /\ worker'[w] = c /\ CallTypes'
    BY <1>2, <1>3, <1>5, BecomesCall DEF IInv, TypeOK, Becomes, CallTypes
  <2>2. Move(w)
    BY <1>2, <1>4, <1>5, <1>7, <2>1 DEF Move, Owner, Busy, Early, Revoking
  <2>3. CallOK(w)'
    <3>1. Len(obl'[worker[w].op]) = Len(obl[worker[w].op])
      BY DEF Watch
    <3>2. QED
      BY <1>2, <1>4, <1>7, <2>1, <3>1, IdleFields DEF CallOK, Busy, Owner, Revoking
  <2>4. Own(w)' = Own(w) /\ Target(w)' = Own(w)
    BY <1>2, <2>1 DEF Target, Own
  <2>5. Quiet(Own(w))'
    <3>1. job'[Own(w)].st = "done"
      BY <1>5, <1>7 DEF PodEnded
    <3>2. QED
      BY <1>2, <1>4, <1>7, <2>1, <2>2, <2>4, <3>1, OwnIsQuiet DEF IInv, Revoking
  <2>6. RevokeOK(w)' /\ CredentialOK(w)'
    <3>1. Quiet(Target(w))'
      BY <2>4, <2>5
    <3>2. QED BY <1>2, <1>7, <2>1, <3>1 DEF RevokeOK, CredentialOK, RevokesOwn
  <2>7. QED BY <2>1, <2>2, <2>3, <2>6, LocalKeeps DEF Watch
<1>8. QED BY <1>6, <1>7

\* A passive recovery only reads, and reports.
LEMMA ObserveExistingStep ==
    ASSUME IInv, NEW w \in Workers, ObserveExisting(w) PROVE IInv'
<1>1. PICK res \in {"succeeded", "failed", "uncertain"}, ext \in BOOLEAN :
        worker' = [worker EXCEPT ![w] =
            [worker[w] EXCEPT !.pc = "finish", !.res = res, !.ext = ext]]
  BY DEF ObserveExisting, Verdict, HasExternalID
<1>. DEFINE c == [worker[w] EXCEPT !.pc = "finish", !.res = res, !.ext = ext]
<1>2. /\ c \in Calls /\ c.pc = "finish"
      /\ c.res # "none" /\ c.op = worker[w].op
      /\ c.num = worker[w].num /\ c.tgt = worker[w].tgt /\ c.seen = worker[w].seen
  BY CallFields DEF IInv, TypeOK, Calls, Steps
<1>3. worker' = [worker EXCEPT ![w] = c]
  BY <1>1
<1>. HIDE DEF c
<1>4. Owner(w) /\ c.tgt <= Len(worker[w].seen)
  <2>1. CallOK(w) /\ Busy(w)
    BY DEF IInv, CallInv, ObserveExisting, Busy
  <2>2. QED BY <1>2, <2>1 DEF CallOK, ObserveExisting, Owner, Revoking
<1>5. AttemptMove /\ DbTypes' /\ UNCHANGED <<lock, faults>>
  BY SameDb, SameTypes DEF ObserveExisting, IInv, TypeOK
<1>6. Move(w) /\ CallOK(w)' /\ RevokeOK(w)' /\ CredentialOK(w)' /\ CallTypes'
  BY <1>2, <1>3, <1>4, <1>5, ReportKeeps DEF IInv, TypeOK, CallTypes
<1>7. QED BY <1>6, LocalKeeps DEF ObserveExisting

\* The obligation that comes next in a sweep is an earlier one.
LEMMA NextIsEarlier ==
    ASSUME TypeOK, NEW w \in Workers
    PROVE  LET m == NextObligation(w)
           IN  \/ m = 0
               \/ /\ m \in 1 .. worker[w].num - 1
                  /\ m > worker[w].tgt
                  /\ ~worker[w].seen[m].resolved
<1>. DEFINE S == {m \in 1 .. worker[w].num - 1 :
                     m > worker[w].tgt /\ ~worker[w].seen[m].resolved}
<1>1. S \in SUBSET Nat
  OBVIOUS
<1>2. CASE S = {}
  BY <1>2 DEF NextObligation
<1>3. CASE S # {}
  <2>. HIDE DEF S
  <2>1. \E m \in S : \A k \in S : m <= k
    BY <1>1, <1>3, MinExists
  <2>2. (CHOOSE m \in S : \A k \in S : m <= k) \in S
    BY <2>1
  <2>3. NextObligation(w) = CHOOSE m \in S : \A k \in S : m <= k
    BY <1>3 DEF NextObligation, S
  <2>4. NextObligation(w) \in S
    BY <2>2, <2>3
  <2>. USE DEF S
  <2>5. QED BY <2>4
<1>4. QED BY <1>2, <1>3

\* The next obligation to clean up is an earlier one, so it is not the call's own.
LEMMA SweepStep == ASSUME IInv, NEW w \in Workers, Sweep(w) PROVE IInv'
<1>1. TypeOK /\ CallOK(w) /\ Owner(w) /\ CallTypes
  BY DEF IInv, CallInv, CallOK, Sweep, Owner, Busy, Revoking, TypeOK
<1>2. AttemptMove /\ DbTypes' /\ UNCHANGED <<lock, job, obl, faults>>
  BY SameDb, SameTypes DEF Sweep, IInv, TypeOK
<1>3. Owner(w) /\ Early(w) /\ worker[w].num \in 0 .. MaxAttempts
  BY <1>1, CallFields DEF Sweep, Early
<1>4. CASE NextObligation(w) > 0
  <2>. DEFINE m == NextObligation(w)
              c == [worker[w] EXCEPT !.pc = "judge", !.tgt = m]
  <2>1. m \in 1 .. worker[w].num - 1 /\ m \in 0 .. MaxAttempts
    BY <1>1, <1>3, <1>4, NextIsEarlier, DeploymentAssumption
  <2>. HIDE DEF m
  <2>2. /\ c \in Calls /\ c.pc = "judge" /\ c.tgt = m /\ c.op = worker[w].op
        /\ c.num = worker[w].num /\ c.seen = worker[w].seen
    BY <1>1, <2>1, CallFields DEF Calls, Steps
  <2>3. worker' = [worker EXCEPT ![w] = c]
    BY <1>4 DEF Sweep, m
  <2>. HIDE DEF c
  <2>4. Becomes(w, c) /\ worker'[w] = c /\ CallTypes'
    BY <1>1, <1>2, <2>2, <2>3, BecomesCall DEF Becomes, CallTypes
  <2>5. Move(w)
    BY <1>2, <1>3, <2>2, <2>4 DEF Move, Owner, Busy
  <2>6. CallOK(w)'
    <3>1. m <= worker[w].num /\ m # worker[w].num /\ m > 0
      BY <1>3, <2>1
    <3>2. m <= Len(worker[w].seen)
      BY <1>1, <1>3, <2>1, CallFields, LenProperties DEF CallOK, Owner
    <3>3. QED
      BY <1>1, <1>2, <2>2, <2>4, <3>1, <3>2, IdleFields DEF CallOK, Busy, Owner, Revoking
  <2>7. RevokeOK(w)'
    BY <2>2, <2>4 DEF RevokeOK, Revoking
  <2>8. CredentialOK(w)'
    <3>1. mat[Own(w)].phase \in {"none", "intent"}
      BY <1>1 DEF IInv, CredentialInv, CredentialOK, Sweep
    <3>2. Own(w)' = Own(w) /\ mat' = mat
      BY <2>2, <2>4 DEF Own, Sweep
    <3>3. QED BY <2>2, <2>4, <3>1, <3>2 DEF CredentialOK, Revoking
  <2>9. QED BY <2>4, <2>5, <2>6, <2>7, <2>8, LocalKeeps DEF Sweep
<1>5. CASE NextObligation(w) = 0 /\ PreparationStopped(worker[w].op, worker[w].num, worker[w].seen)
  <2>. DEFINE c == [worker[w] EXCEPT !.pc = "close", !.tgt = worker[w].num, !.res = "failed"]
  <2>2. /\ c \in Calls /\ c.pc = "close" /\ c.tgt = worker[w].num /\ c.op = worker[w].op
        /\ c.num = worker[w].num /\ c.seen = worker[w].seen /\ c.res = "failed"
    BY <1>1, CallFields DEF Calls, Steps
  <2>3. worker' = [worker EXCEPT ![w] = c]
    BY <1>5 DEF Sweep
  <2>. HIDE DEF c
  <2>4. Becomes(w, c) /\ worker'[w] = c /\ CallTypes'
    BY <1>1, <1>2, <2>2, <2>3, BecomesCall DEF Becomes, CallTypes
  <2>5. Move(w)
    BY <1>2, <1>3, <2>2, <2>4 DEF Move, Owner, Busy
  <2>6. CallOK(w)'
    BY <1>1, <1>2, <2>2, <2>4, IdleFields DEF CallOK, Busy, Owner, Revoking
  <2>7. Own(w)' = Own(w) /\ Target(w)' = Own(w)
    BY <2>2, <2>4 DEF Own, Target
  <2>8. Quiet(Own(w))'
    <3>1. job'[Own(w)].st = "none"
      BY <1>2, <1>3 DEF IInv, JobInv
    <3>2. QED
      BY <1>3, <2>2, <2>4, <2>5, <2>7, <3>1, OwnIsQuiet DEF IInv, Revoking
  <2>9. RevokeOK(w)' /\ CredentialOK(w)'
    <3>1. Quiet(Target(w))'
      BY <2>7, <2>8
    <3>2. QED BY <2>2, <2>4, <3>1 DEF RevokeOK, CredentialOK, RevokesOwn
  <2>10. QED BY <2>4, <2>5, <2>6, <2>9, LocalKeeps DEF Sweep
<1>6. CASE NextObligation(w) = 0 /\ ~PreparationStopped(worker[w].op, worker[w].num, worker[w].seen)
  <2>. DEFINE c == [worker[w] EXCEPT !.pc = "prepare"]
  <2>2. /\ c \in Calls /\ c.pc = "prepare" /\ c.tgt = worker[w].tgt /\ c.op = worker[w].op
        /\ c.num = worker[w].num /\ c.seen = worker[w].seen
    BY <1>1, CallFields DEF Calls, Steps
  <2>3. worker' = [worker EXCEPT ![w] = c]
    BY <1>6 DEF Sweep
  <2>. HIDE DEF c
  <2>4. Becomes(w, c) /\ worker'[w] = c /\ CallTypes'
    BY <1>1, <1>2, <2>2, <2>3, BecomesCall DEF Becomes, CallTypes
  <2>5. Move(w)
    BY <1>2, <1>3, <2>2, <2>4 DEF Move, Owner, Busy
  <2>6. CallOK(w)' /\ RevokeOK(w)'
    BY <1>1, <1>2, <2>2, <2>4, IdleFields DEF CallOK, RevokeOK, Busy, Owner, Revoking
  <2>8. CredentialOK(w)'
    <3>1. mat[Own(w)].phase \in {"none", "intent"}
      BY <1>1 DEF IInv, CredentialInv, CredentialOK, Sweep
    <3>2. Own(w)' = Own(w) /\ mat' = mat
      BY <2>2, <2>4 DEF Own, Sweep
    <3>3. QED BY <2>2, <2>4, <3>1, <3>2 DEF CredentialOK, Revoking
  <2>9. QED BY <2>4, <2>5, <2>6, <2>8, LocalKeeps DEF Sweep
<1>7. QED
  <2>1. NextObligation(w) = 0 \/ NextObligation(w) > 0
    BY <1>1, <1>3, NextIsEarlier
  <2>2. QED BY <1>4, <1>5, <1>6, <2>1

-----------------------------------------------------------------------------
(* Preparing a credential *)

\* The other attempts keep their credentials.
OtherCredentials(a) ==
    \A b \in Attempts : b # a => /\ mat'[b] = mat[b] /\ fence'[b] = fence[b]
                                 /\ lease'[b] = lease[b] /\ secret'[b] = secret[b]

\* What the others rely on of an attempt's credential is kept.
CredentialAdvances(a) ==
    /\ RowOK(a)'
    /\ IssuerDone(a) => IssuerDone(a)'
    /\ mat[a].closed => mat'[a].closed /\ mat'[a].phase \in Follows[mat[a].phase]
    /\ mat[a].uid => mat'[a].uid

\* A step about the credential of one attempt.
LEMMA OneCredential ==
    ASSUME TypeOK, RowInv, NEW w \in Workers, NEW a \in Attempts, Exists(a),
           OtherCredentials(a), a = Own(w) \/ Harmless(a), CredentialAdvances(a)
    PROVE  CredentialMove(w) /\ RowInv'
<1>1. ASSUME NEW b \in Attempts, b # a
      PROVE  /\ RowOK(b)' /\ Harmless(b) /\ mat'[b] = mat[b]
             /\ IssuerDone(b) => IssuerDone(b)'
             /\ mat[b].closed => mat'[b].phase \in Follows[mat[b].phase]
  <2>1. RowOK(b)' /\ RowOK(b) /\ mat'[b] = mat[b]
    BY <1>1 DEF RowInv, RowOK, OtherCredentials
  <2>2. mat[b].closed => mat[b].phase # "none"
    BY <2>1 DEF RowOK
  <2>3. mat[b].closed => mat'[b].phase \in Follows[mat[b].phase]
    BY <2>1, <2>2, RowTypes DEF Follows, RowPhases
  <2>4. QED
    BY <1>1, <2>1, <2>3 DEF Harmless, IssuerDone, OtherCredentials
<1>2. RowInv'
  BY <1>1 DEF RowInv, CredentialAdvances
<1>3. QED
  BY <1>1, <1>2 DEF CredentialMove, CredentialAdvances

\* A step of a call on the way to its delivery that changes its own credential.
LEMMA PrepareKeeps ==
    ASSUME IInv, NEW w \in Workers, worker[w].pc \in Delivering,
           UNCHANGED <<dbVars, clusterVars, outbox, lock>>, faults' \in 0 .. MaxFaults,
           CredentialTypes', OtherCredentials(Own(w)), CredentialAdvances(Own(w)),
           \/ \E res \in {"failed", "uncertain"} : Compensate(w, res)
           \/ \E pc \in Delivering : /\ GoTo(w, pc)
                                     /\ Own(w)' = Own(w) /\ worker'[w].pc = pc
                                           => CredentialOK(w)'
    PROVE  IInv'
<1>1. TypeOK /\ CallOK(w) /\ Owner(w)
  BY DEF IInv, CallInv, CallOK, Owner, Busy, Revoking, Delivering
<1>2. Own(w) \in Attempts /\ Exists(Own(w))
  BY <1>1, TargetExists DEF IInv, Owner
<1>3. CredentialMove(w) /\ RowInv'
  BY <1>1, <1>2, OneCredential DEF IInv
<1>4. AttemptMove /\ ObligationMove(w) /\ JobMove(w) /\ DbTypes'
  BY <1>1, SameDb, SameJobs, SameTypes DEF TypeOK
<1>5. Move(w) /\ CallOK(w)' /\ RevokeOK(w)' /\ CredentialOK(w)' /\ CallTypes'
  <2>1. CASE \E res \in {"failed", "uncertain"} : Compensate(w, res)
    BY <1>1, <1>4, <2>1, CompensateKeeps DEF IInv, CallTypes
  <2>2. CASE \E pc \in Delivering : /\ GoTo(w, pc)
                                    /\ Own(w)' = Own(w) /\ worker'[w].pc = pc
                                          => CredentialOK(w)'
    BY <1>1, <1>4, <2>2, GoToKeeps DEF IInv, CallTypes
  <2>3. QED BY <2>1, <2>2
<1>6. TypeOK'
  BY <1>1, <1>4, <1>5, SameTypes DEF TypeOK
<1>7. EndedInv'
  BY SameOperations DEF IInv
<1>8. QED BY <1>3, <1>4, <1>5, <1>6, <1>7, StepKeeps DEF Guarantee

\* What a call on its way to its delivery knows of its own credential.
LEMMA OwnCredential ==
    ASSUME IInv, NEW w \in Workers, worker[w].pc \in Delivering
    PROVE  /\ Own(w) \in Attempts /\ RowOK(Own(w)) /\ CredentialOK(w)
           /\ mat[Own(w)].phase \in RowPhases /\ mat[Own(w)] \in Materializations
           /\ CredentialTypes /\ faults \in 0 .. MaxFaults
<1>1. TypeOK /\ CallOK(w) /\ Owner(w)
  BY DEF IInv, CallInv, CallOK, Owner, Busy, Revoking, Delivering
<1>2. Own(w) \in Attempts
  BY <1>1, TargetExists DEF IInv, Owner
<1>3. QED
  BY <1>1, <1>2, RowTypes DEF IInv, RowInv, CredentialInv, TypeOK, CredentialTypes, CallTypes

\* The intent is recorded over an open row only.
LEMMA PrepareStep == ASSUME IInv, NEW w \in Workers, Prepare(w) PROVE IInv'
<1>1. worker[w].pc \in Delivering /\ worker[w].pc = "prepare"
  BY DEF Prepare, Delivering
<1>2. Own(w) \in Attempts
  BY <1>1, OwnCredential
<1>3. PICK a \in Attempts : a = Own(w)
  BY <1>2
<1>4. /\ RowOK(a) /\ CredentialOK(w) /\ mat[a].phase \in {"none", "intent"}
      /\ CredentialTypes /\ faults \in 0 .. MaxFaults
  BY <1>1, <1>3, OwnCredential DEF CredentialOK
<1>5. CASE mat[a].closed
  <2>1. Compensate(w, "uncertain") /\ UNCHANGED <<credVars>>
    BY <1>3, <1>5 DEF Prepare
  <2>2. CredentialAdvances(a) /\ OtherCredentials(a) /\ CredentialTypes'
    BY <1>4, <1>5, <2>1, SameTypes
       DEF CredentialAdvances, OtherCredentials, RowOK, IssuerDone, Follows
  <2>3. QED BY <1>1, <1>3, <1>4, <2>1, <2>2, PrepareKeeps DEF Prepare
<1>6. CASE ~mat[a].closed
  <2>1. /\ GoTo(w, "reserve") /\ UNCHANGED <<fence, lease, secret>>
        /\ mat' = [mat EXCEPT ![a] = [NoRow EXCEPT !.phase = "intent"]]
    BY <1>3, <1>6 DEF Prepare
  <2>. DEFINE r == [NoRow EXCEPT !.phase = "intent"]
  <2>2. r \in Materializations /\ r.phase = "intent" /\ ~r.uid /\ ~r.closed
    BY DEF NoRow, Materializations, RowPhases
  <2>. HIDE DEF r
  <2>3. CredentialTypes' /\ mat'[a].phase = "intent" /\ ~mat'[a].uid /\ ~mat'[a].closed
    <3>1. mat' = [mat EXCEPT ![a] = r]
      BY <2>1 DEF r
    <3>2. QED BY <1>4, <2>1, <2>2, <3>1 DEF CredentialTypes
  <2>4. CredentialAdvances(a) /\ OtherCredentials(a)
    BY <1>4, <1>6, <2>1, <2>3
       DEF CredentialAdvances, OtherCredentials, RowOK, IssuerDone, CredentialTypes
  <2>5. Own(w)' = Own(w) /\ worker'[w].pc = "reserve" => CredentialOK(w)'
    BY <1>3, <2>3 DEF CredentialOK, Revoking
  <2>6. QED
    BY <1>1, <1>3, <1>4, <2>1, <2>3, <2>4, <2>5, PrepareKeeps DEF Prepare, Delivering
<1>7. QED BY <1>5, <1>6

\* The issuer reserves a credential behind an open fence only.
LEMMA ReserveStep == ASSUME IInv, NEW w \in Workers, Reserve(w) PROVE IInv'
<1>1. worker[w].pc \in Delivering /\ worker[w].pc = "reserve"
  BY DEF Reserve, Delivering
<1>2. Own(w) \in Attempts
  BY <1>1, OwnCredential
<1>3. PICK a \in Attempts : a = Own(w)
  BY <1>2
<1>4. /\ RowOK(a) /\ CredentialOK(w) /\ mat[a].phase = "intent"
      /\ CredentialTypes /\ faults \in 0 .. MaxFaults
  BY <1>1, <1>3, OwnCredential DEF CredentialOK
<1>5. CASE Compensate(w, "failed") /\ UNCHANGED lease
  <2>2. CredentialAdvances(a) /\ OtherCredentials(a) /\ CredentialTypes'
    BY <1>4, <1>5, SameTypes
       DEF Reserve, CredentialAdvances, OtherCredentials, RowOK, IssuerDone, Follows
  <2>3. QED BY <1>1, <1>3, <1>4, <1>5, <2>2, PrepareKeeps DEF Reserve
<1>6. CASE ~fence[a] /\ lease' = [lease EXCEPT ![a] = "reserved"] /\ GoTo(w, "issue")
  <2>1. UNCHANGED <<mat, fence, secret>>
    BY DEF Reserve
  <2>2. CredentialTypes' /\ lease'[a] = "reserved"
    BY <1>4, <1>6, <2>1 DEF CredentialTypes
  <2>3. CredentialAdvances(a) /\ OtherCredentials(a)
    BY <1>4, <1>6, <2>1, <2>2
       DEF CredentialAdvances, OtherCredentials, RowOK, IssuerDone, CredentialTypes, Follows
  <2>4. Own(w)' = Own(w) /\ worker'[w].pc = "issue" => CredentialOK(w)'
    BY <1>3, <1>4, <2>1, <2>2 DEF CredentialOK, Revoking
  <2>5. QED
    BY <1>1, <1>3, <1>4, <1>6, <2>2, <2>3, <2>4, PrepareKeeps DEF Reserve, Delivering
<1>7. QED BY <1>3, <1>5, <1>6 DEF Reserve

\* The reserved credential is issued, revoked again, or lost without a name.
LEMMA IssueStep == ASSUME IInv, NEW w \in Workers, Issue(w) PROVE IInv'
<1>1. worker[w].pc \in Delivering /\ worker[w].pc = "issue"
  BY DEF Issue, Delivering
<1>2. Own(w) \in Attempts
  BY <1>1, OwnCredential
<1>3. PICK a \in Attempts : a = Own(w)
  BY <1>2
<1>4. /\ RowOK(a) /\ mat[a].phase = "intent" /\ lease[a] = "reserved"
      /\ CredentialTypes /\ faults \in 0 .. MaxFaults
  BY <1>1, <1>3, OwnCredential DEF CredentialOK
<1>5. /\ UNCHANGED <<mat, fence, secret>>
      /\ faults' \in 0 .. MaxFaults
  BY <1>4, DeploymentAssumption DEF Issue
<1>6. PICK l \in {"revoked", "live", "unknown"} : lease' = [lease EXCEPT ![a] = l]
  BY <1>3 DEF Issue
<1>7. CredentialTypes' /\ CredentialAdvances(a) /\ OtherCredentials(a)
  BY <1>4, <1>5, <1>6
     DEF CredentialTypes, CredentialAdvances, OtherCredentials, RowOK, IssuerDone, Follows
<1>8. CASE Compensate(w, "failed")
  BY <1>1, <1>3, <1>5, <1>7, <1>8, PrepareKeeps DEF Issue
<1>9. CASE GoTo(w, "creating")
  <2>1. Own(w)' = Own(w) /\ worker'[w].pc = "creating" => CredentialOK(w)'
    BY <1>3, <1>4, <1>5 DEF CredentialOK, Revoking
  <2>2. QED
    BY <1>1, <1>3, <1>5, <1>7, <1>9, <2>1, PrepareKeeps DEF Issue, Delivering
<1>10. QED BY <1>8, <1>9 DEF Issue

\* The creation is announced over an open row only.
LEMMA MarkCreatingStep == ASSUME IInv, NEW w \in Workers, MarkCreating(w) PROVE IInv'
<1>1. worker[w].pc \in Delivering /\ worker[w].pc = "creating"
  BY DEF MarkCreating, Delivering
<1>2. Own(w) \in Attempts
  BY <1>1, OwnCredential
<1>3. PICK a \in Attempts : a = Own(w)
  BY <1>2
<1>4. /\ RowOK(a) /\ mat[a].phase = "intent" /\ mat[a] \in Materializations
      /\ CredentialTypes /\ faults \in 0 .. MaxFaults
  BY <1>1, <1>3, OwnCredential DEF CredentialOK
<1>5. CASE mat[a].closed
  <2>1. Compensate(w, "uncertain") /\ UNCHANGED <<credVars>>
    BY <1>3, <1>5 DEF MarkCreating
  <2>2. CredentialAdvances(a) /\ OtherCredentials(a) /\ CredentialTypes'
    BY <1>4, <1>5, <2>1, SameTypes
       DEF CredentialAdvances, OtherCredentials, RowOK, IssuerDone, Follows
  <2>3. QED BY <1>1, <1>3, <1>4, <2>1, <2>2, PrepareKeeps DEF MarkCreating
<1>6. CASE ~mat[a].closed
  <2>. DEFINE r == [mat[a] EXCEPT !.phase = "creating"]
  <2>1. /\ r \in Materializations /\ r.phase = "creating"
        /\ r.uid = mat[a].uid /\ r.closed = mat[a].closed
    BY <1>4 DEF Materializations, RowPhases
  <2>2. GoTo(w, "create") /\ UNCHANGED <<fence, lease, secret>> /\ mat' = [mat EXCEPT ![a] = r]
    BY <1>3, <1>6 DEF MarkCreating
  <2>. HIDE DEF r
  <2>3. /\ CredentialTypes' /\ mat'[a] = r
        /\ OtherCredentials(a)
    BY <1>4, <2>1, <2>2 DEF CredentialTypes, OtherCredentials
  <2>4. CredentialAdvances(a) /\ secret'[a] = "none"
    BY <1>4, <1>6, <2>1, <2>2, <2>3 DEF CredentialAdvances, RowOK, IssuerDone
  <2>5. Own(w)' = Own(w) /\ worker'[w].pc = "create" => CredentialOK(w)'
    BY <1>3, <2>1, <2>3, <2>4 DEF CredentialOK, Revoking
  <2>6. QED
    BY <1>1, <1>3, <1>4, <2>2, <2>3, <2>4, <2>5, PrepareKeeps DEF MarkCreating, Delivering
<1>7. QED BY <1>5, <1>6

\* The announced Secret is created, found to be somebody else's, or lost.
LEMMA CreateSecretStep == ASSUME IInv, NEW w \in Workers, CreateSecret(w) PROVE IInv'
<1>1. worker[w].pc \in Delivering /\ worker[w].pc = "create"
  BY DEF CreateSecret, Delivering
<1>2. Own(w) \in Attempts
  BY <1>1, OwnCredential
<1>3. PICK a \in Attempts : a = Own(w)
  BY <1>2
<1>4. /\ RowOK(a) /\ mat[a].phase = "creating" /\ secret[a] = "none"
      /\ mat[a] \in Materializations /\ mat[a].closed \in BOOLEAN
      /\ CredentialTypes /\ faults \in 0 .. MaxFaults
  BY <1>1, <1>3, OwnCredential DEF CredentialOK, Materializations
<1>5. UNCHANGED <<fence, lease>> /\ faults' \in 0 .. MaxFaults
  BY <1>4, DeploymentAssumption DEF CreateSecret
<1>6. CASE secret' = [secret EXCEPT ![a] = "present"] /\ GoTo(w, "record") /\ UNCHANGED mat
  <2>1. CredentialTypes' /\ OtherCredentials(a) /\ secret'[a] = "present"
    BY <1>4, <1>5, <1>6 DEF CredentialTypes, OtherCredentials
  <2>2. CredentialAdvances(a)
    BY <1>4, <1>5, <1>6, <2>1 DEF CredentialAdvances, RowOK, IssuerDone, Follows
  <2>3. Own(w)' = Own(w) /\ worker'[w].pc = "record" => CredentialOK(w)'
    BY <1>3, <2>1 DEF CredentialOK, Revoking
  <2>4. QED
    BY <1>1, <1>3, <1>5, <1>6, <2>1, <2>2, <2>3, PrepareKeeps DEF CreateSecret, Delivering
<1>7. CASE /\ secret' = [secret EXCEPT ![a] = "foreign"]
           /\ mat' = [mat EXCEPT ![a].phase = "absent"]
           /\ Compensate(w, "failed")
  <2>. DEFINE r == [mat[a] EXCEPT !.phase = "absent"]
  <2>1. /\ r \in Materializations /\ r.phase = "absent"
        /\ r.uid = mat[a].uid /\ r.closed = mat[a].closed
    BY <1>4 DEF Materializations, RowPhases
  <2>2. mat' = [mat EXCEPT ![a] = r]
    BY <1>7
  <2>. HIDE DEF r
  <2>3. CredentialTypes' /\ OtherCredentials(a) /\ secret'[a] = "foreign" /\ mat'[a] = r
    BY <1>4, <1>5, <1>7, <2>1, <2>2 DEF CredentialTypes, OtherCredentials
  <2>4. CredentialAdvances(a)
    BY <1>4, <1>5, <2>1, <2>3 DEF CredentialAdvances, RowOK, IssuerDone, Follows
  <2>5. QED
    BY <1>1, <1>3, <1>5, <1>7, <2>3, <2>4, PrepareKeeps DEF CreateSecret
<1>8. CASE secret' = [secret EXCEPT ![a] = "inflight"] /\ Compensate(w, "uncertain") /\ UNCHANGED mat
  <2>1. CredentialTypes' /\ OtherCredentials(a) /\ secret'[a] = "inflight"
    BY <1>4, <1>5, <1>8 DEF CredentialTypes, OtherCredentials
  <2>2. CredentialAdvances(a)
    BY <1>4, <1>5, <1>8, <2>1 DEF CredentialAdvances, RowOK, IssuerDone, Follows
  <2>3. QED
    BY <1>1, <1>3, <1>5, <1>8, <2>1, <2>2, PrepareKeeps DEF CreateSecret
<1>9. QED BY <1>3, <1>6, <1>7, <1>8 DEF CreateSecret

\* The identity of a Secret is recorded only of one that exists.
LEMMA RecordAdvances ==
    ASSUME CredentialTypes, NEW a \in Attempts, RowOK(a), CanRecordUID(a),
           mat' = [mat EXCEPT ![a] = [@ EXCEPT !.phase = "materialized", !.uid = TRUE]],
           UNCHANGED <<fence, lease>>, secret' \in {secret, [secret EXCEPT ![a] = "deleted"]}
    PROVE  /\ CredentialTypes' /\ OtherCredentials(a) /\ CredentialAdvances(a)
           /\ Harmless(a)
<1>. DEFINE r == [mat[a] EXCEPT !.phase = "materialized", !.uid = TRUE]
<1>1. /\ r \in Materializations /\ r.phase = "materialized" /\ r.uid
      /\ r.closed = mat[a].closed /\ mat[a].phase \in {"creating", "materialized"}
  BY DEF Materializations, RowPhases, CredentialTypes, CanRecordUID
<1>2. mat' = [mat EXCEPT ![a] = r]
  OBVIOUS
<1>. HIDE DEF r
<1>3. /\ CredentialTypes' /\ OtherCredentials(a) /\ mat'[a] = r
      /\ secret'[a] \in {"present", "deleted"} /\ secret[a] = "present"
  BY <1>1, <1>2 DEF CredentialTypes, OtherCredentials, CanRecordUID
<1>4. CredentialAdvances(a) /\ Harmless(a)
  BY <1>1, <1>3 DEF CredentialAdvances, RowOK, IssuerDone, Follows, Harmless
<1>5. QED BY <1>3, <1>4

\* The identity of the created Secret is recorded, unless the row was closed.
LEMMA RecordSecretStep == ASSUME IInv, NEW w \in Workers, RecordSecret(w) PROVE IInv'
<1>1. worker[w].pc \in Delivering /\ worker[w].pc = "record"
  BY DEF RecordSecret, Delivering
<1>2. Own(w) \in Attempts
  BY <1>1, OwnCredential
<1>3. PICK a \in Attempts : a = Own(w)
  BY <1>2
<1>4. /\ RowOK(a) /\ secret[a] \in {"present", "deleted"}
      /\ mat[a].phase \in RowPhases
      /\ CredentialTypes /\ faults \in 0 .. MaxFaults
  BY <1>1, <1>3, OwnCredential DEF CredentialOK
<1>5. UNCHANGED <<fence, lease, secret, faults>>
  BY DEF RecordSecret
<1>6. CredentialTypes' /\ OtherCredentials(a) /\ CredentialAdvances(a)
  <2>1. CASE CanRecordUID(a)
    BY <1>3, <1>4, <1>5, <2>1, RecordAdvances DEF RecordSecret
  <2>2. CASE ~CanRecordUID(a)
    <3>1. UNCHANGED credVars
      BY <1>3, <1>5, <2>2 DEF RecordSecret
    <3>2. QED
      BY <1>4, <3>1, SameTypes
         DEF CredentialAdvances, OtherCredentials, RowOK, IssuerDone, Follows, RowPhases
  <2>3. QED BY <2>1, <2>2
<1>7. CASE Compensate(w, "uncertain")
  BY <1>1, <1>3, <1>4, <1>5, <1>6, <1>7, PrepareKeeps DEF RecordSecret
<1>8. CASE GoTo(w, "dispatch")
  <2>1. Own(w)' = Own(w) /\ worker'[w].pc = "dispatch" => CredentialOK(w)'
    BY DEF CredentialOK, Revoking
  <2>2. QED
    BY <1>1, <1>3, <1>4, <1>5, <1>6, <1>8, <2>1, PrepareKeeps DEF RecordSecret, Delivering
<1>9. QED BY <1>7, <1>8 DEF RecordSecret

-----------------------------------------------------------------------------
(* Announcing and making a Job *)

\* A step that writes one obligation.
LEMMA OneObligation ==
    ASSUME DbTypes, NEW o \in Ops, NEW s \in Seq(Obligations), Len(s) = Len(obl[o]),
           obl' = [obl EXCEPT ![o] = s], UNCHANGED <<op, approved, att>>
    PROVE  /\ DbTypes' /\ AttemptMove
           /\ obl'[o] = s
           /\ \A p \in Ops : p # o => obl'[p] = obl[p]
<1>1. obl'[o] = s /\ \A p \in Ops : p # o => obl'[p] = obl[p]
  BY DEF DbTypes
<1>2. obl' \in [Ops -> Seq(Obligations)]
  BY DEF DbTypes
<1>3. \A p \in Ops : Len(obl'[p]) = Len(obl[p])
  BY <1>1
<1>4. DbTypes' /\ AttemptMove
  BY <1>2, <1>3 DEF DbTypes, AttemptMove
<1>5. QED BY <1>1, <1>4

\* An operation that owes nothing goes on to owe nothing.
LEMMA EndedKept ==
    ASSUME DbTypes, DbTypes', EndedInv, NEW w \in Workers, UNCHANGED op,
           AttemptMove, ObligationMove(w)
    PROVE  EndedInv'
BY LengthsKept DEF EndedInv, PendingCredentials, AttemptMove, ObligationMove

\* Announcing the Job of an obligation that is open.
LEMMA MarkKeeps ==
    ASSUME TypeOK, DeliveryInv, EndedInv, NEW w \in Workers,
           NEW a \in Attempts, Exists(a), ~obl[a[1]][a[2]].resolved,
           obl' = [obl EXCEPT ![a[1]][a[2]].phase = "dispatching"],
           UNCHANGED <<op, approved, att>>
    PROVE  /\ DbTypes' /\ AttemptMove /\ ObligationMove(w) /\ EndedInv'
           /\ obl'[a[1]][a[2]].phase = "dispatching"
<1>0. PICK o, n, x, s : /\ o = a[1] /\ n = a[2]
                        /\ x = [obl[o][n] EXCEPT !.phase = "dispatching"]
                        /\ s = [obl[o] EXCEPT ![n] = x]
  OBVIOUS
<1>1. o \in Ops /\ n \in 1 .. Len(obl[o]) /\ obl[o][n] \in Obligations /\ DbTypes
  BY <1>0, ExistsFields DEF TypeOK
<1>2. x \in Obligations /\ x.phase = "dispatching" /\ x.resolved = obl[o][n].resolved
  BY <1>0, <1>1 DEF Obligations
<1>3. obl' = [obl EXCEPT ![o] = s]
  BY <1>0
<1>4. obl[o][n].phase # "none"
  BY <1>0 DEF DeliveryInv
<1>5. /\ DbTypes' /\ AttemptMove
      /\ obl'[o][n] = x
      /\ \A p \in Ops : \A m \in 1 .. Len(obl[p]) :
             p # o \/ m # n => obl'[p][m] = obl[p][m]
  <2>1. obl[o] \in Seq(Obligations)
    BY <1>1 DEF DbTypes
  <2>2. /\ s \in Seq(Obligations)
        /\ Len(s) = Len(obl[o])
        /\ \A j \in 1 .. Len(obl[o]) : s[j] = IF j = n THEN x ELSE obl[o][j]
    BY <1>0, <1>1, <1>2, <2>1, ExceptSeq
  <2>3. /\ DbTypes' /\ AttemptMove
        /\ obl'[o] = s
        /\ \A p \in Ops : p # o => obl'[p] = obl[p]
    BY <1>1, <1>3, <2>2, OneObligation
  <2>4. QED BY <1>1, <2>2, <2>3
<1>6. ObligationMove(w)
  BY <1>1, <1>2, <1>4, <1>5 DEF ObligationMove
<1>7. EndedInv'
  BY <1>1, <1>5, <1>6, EndedKept
<1>8. QED BY <1>0, <1>2, <1>5, <1>6, <1>7

\* A dispatch is announced through the lock, over an open obligation only.
LEMMA MarkDispatchingStep == ASSUME IInv, NEW w \in Workers, MarkDispatching(w) PROVE IInv'
<1>1. worker[w].pc \in Delivering /\ worker[w].pc = "dispatch" /\ TypeOK
  BY DEF MarkDispatching, Delivering, IInv
<1>2. CallOK(w) /\ Owner(w) /\ Early(w)
  BY <1>1 DEF IInv, CallInv, CallOK, Owner, Busy, Revoking, Delivering, Early
<1>3. Own(w) \in Attempts /\ Exists(Own(w))
  BY <1>1, <1>2, TargetExists DEF IInv, Owner
<1>4. CredentialMove(w) /\ RowInv' /\ CredentialTypes' /\ ClusterTypes' /\ JobMove(w)
  BY <1>1, SameCredentials, SameTypes, SameJobs DEF MarkDispatching, IInv, TypeOK
<1>5. CASE lock = w /\ ~obl[worker[w].op][worker[w].num].resolved
  <2>1. /\ obl' = [obl EXCEPT ![worker[w].op][worker[w].num].phase = "dispatching"]
        /\ GoTo(w, "submit") /\ UNCHANGED <<op, approved, att, lock, faults>>
    BY <1>5 DEF MarkDispatching
  <2>2. Own(w)[1] = worker[w].op /\ Own(w)[2] = worker[w].num
    BY DEF Own
  <2>3. PICK a \in Attempts : a = Own(w)
    BY <1>3
  <2>4. /\ DbTypes' /\ AttemptMove /\ ObligationMove(w) /\ EndedInv'
        /\ obl'[worker[w].op][worker[w].num].phase = "dispatching"
    BY <1>1, <1>3, <1>5, <2>1, <2>2, <2>3, MarkKeeps DEF IInv
  <2>. DEFINE c == [worker[w] EXCEPT !.pc = "submit"]
  <2>5. Becomes(w, c)
    BY <1>1, <2>1, GoToBecomes DEF TypeOK, Steps
  <2>6. /\ worker'[w] = c
        /\ c.pc = "submit" /\ c.op = worker[w].op /\ c.num = worker[w].num
        /\ c.tgt = worker[w].tgt /\ c.seen = worker[w].seen
    BY <1>1, <2>5, StepFields, CallFields DEF Becomes, Steps, TypeOK
  <2>. HIDE DEF c
  <2>7. Move(w)
    BY <1>2, <1>5, <2>1, <2>4, <2>5, <2>6 DEF Move, Owner, Busy, Early, Revoking
  <2>8. Len(obl'[worker[w].op]) = Len(obl[worker[w].op])
    BY <1>1, <1>2, <2>4, TargetExists, LengthsKept DEF TypeOK, IInv, Owner
  <2>9. CallOK(w)' /\ RevokeOK(w)' /\ CredentialOK(w)'
    BY <1>2, <2>6, <2>8, IdleFields
       DEF CallOK, RevokeOK, CredentialOK, Busy, Owner, Revoking
  <2>10. TypeOK'
    BY <1>1, <1>4, <2>1, <2>4, <2>5 DEF TypeOK, CallTypes, Becomes
  <2>11. QED BY <1>4, <2>4, <2>7, <2>9, <2>10, StepKeeps DEF Guarantee
<1>6. CASE ~ (lock = w /\ ~obl[worker[w].op][worker[w].num].resolved)
  <2>1. /\ Compensate(w, "uncertain")
        /\ UNCHANGED <<dbVars, credVars, clusterVars, outbox, lock, faults>>
    BY <1>6 DEF MarkDispatching
  <2>2. AttemptMove /\ DbTypes'
    BY <1>1, <2>1, SameDb, SameTypes DEF TypeOK
  <2>3. Move(w) /\ CallOK(w)' /\ RevokeOK(w)' /\ CredentialOK(w)' /\ CallTypes'
    BY <1>1, <2>1, <2>2, CompensateKeeps DEF IInv, TypeOK, CallTypes
  <2>4. QED BY <2>1, <2>3, LocalKeeps
<1>7. QED BY <1>5, <1>6

\* The announced Job is made, once, by the call that announced it.
LEMMA SubmitJobStep == ASSUME IInv, NEW w \in Workers, SubmitJob(w) PROVE IInv'
<1>1. worker[w].pc = "submit" /\ TypeOK
  BY DEF SubmitJob, IInv
<1>2. CallOK(w) /\ Owner(w)
  BY <1>1 DEF IInv, CallInv, CallOK, Owner, Busy, Revoking
<1>3. Own(w) \in Attempts
  BY <1>1, <1>2, TargetExists DEF IInv, Owner
<1>4. /\ CredentialMove(w) /\ RowInv' /\ CredentialTypes' /\ DbTypes'
      /\ AttemptMove /\ ObligationMove(w) /\ EndedInv'
  BY <1>1, SameCredentials, SameTypes, SameDb, SameOperations DEF SubmitJob, IInv, TypeOK
<1>5. PICK st \in {"active", "inflight"} : job' = [job EXCEPT ![Own(w)].st = st]
  BY DEF SubmitJob
<1>6. ClusterTypes' /\ \A a \in Attempts : a # Own(w) => job'[a] = job[a]
  <2>1. [job[Own(w)] EXCEPT !.st = st] \in Jobs
    BY <1>1, <1>3 DEF TypeOK, ClusterTypes, Jobs
  <2>2. job' = [job EXCEPT ![Own(w)] = [job[Own(w)] EXCEPT !.st = st]]
    BY <1>5
  <2>3. QED
    BY <1>1, <1>3, <2>1, <2>2 DEF TypeOK, ClusterTypes, SubmitJob
<1>7. PICK pc \in {"watch", "finish"}, res \in {"none", "succeeded", "failed", "uncertain"} :
        /\ pc = "finish" => res = "uncertain"
        /\ worker' = [worker EXCEPT ![w] = [worker[w] EXCEPT !.pc = pc, !.res = res]]
  <2>1. CASE worker' = [worker EXCEPT ![w] = [@ EXCEPT !.pc = "watch"]]
    <3>1. worker[w].res \in {"none", "succeeded", "failed", "uncertain"}
      BY <1>1, CallFields DEF TypeOK
    <3>2. [worker[w] EXCEPT !.pc = "watch"] = [worker[w] EXCEPT !.pc = "watch", !.res = worker[w].res]
      BY <1>1, CallFields DEF TypeOK, Calls
    <3>3. QED BY <2>1, <3>1, <3>2
  <2>2. CASE worker' = [worker EXCEPT ![w] = [@ EXCEPT !.pc = "finish", !.res = "uncertain"]]
    BY <2>2
  <2>3. QED BY <2>1, <2>2 DEF SubmitJob
<1>. DEFINE c == [worker[w] EXCEPT !.pc = pc, !.res = res]
<1>8. /\ c \in Calls /\ c.pc = pc /\ c.res = res /\ c.op = worker[w].op
      /\ c.num = worker[w].num /\ c.tgt = worker[w].tgt /\ c.seen = worker[w].seen
  BY <1>1, CallFields DEF TypeOK, Calls, Steps
<1>9. worker' = [worker EXCEPT ![w] = c]
  BY <1>7
<1>. HIDE DEF c
<1>10. Move(w) /\ CallOK(w)' /\ RevokeOK(w)' /\ CredentialOK(w)' /\ CallTypes'
  <2>1. c.tgt <= Len(worker[w].seen) /\ UNCHANGED lock /\ faults' \in 0 .. MaxFaults
    BY <1>1, <1>2, <1>8, DeploymentAssumption
       DEF CallOK, Owner, SubmitJob, TypeOK, CallTypes
  <2>2. QED
    BY <1>1, <1>2, <1>4, <1>7, <1>8, <1>9, <2>1, ReportKeeps DEF IInv, CallTypes
<1>11. JobMove(w)
  <2>1. worker'[w].pc # "submit"
    BY <1>1, <1>7, <1>8, <1>9 DEF TypeOK, CallTypes
  <2>2. QED BY <1>1, <1>2, <1>6, <2>1 DEF JobMove
<1>12. TypeOK'
  BY <1>4, <1>6, <1>10 DEF TypeOK
<1>13. QED BY <1>4, <1>10, <1>11, <1>12, StepKeeps DEF Guarantee

-----------------------------------------------------------------------------
(* Revoking the credential of an attempt *)

\* A call goes on with a revocation, or from one obligation to the next.
LEMMA RevocationMoves ==
    ASSUME TypeOK, DbTypes', AttemptMove, CallInv, NEW w \in Workers, Busy(w),
           NEW c \in Calls, worker' = [worker EXCEPT ![w] = c], lock' \in {lock, None},
           c.op = worker[w].op, c.num = worker[w].num, c.tgt = worker[w].tgt,
           Len(c.seen) = Len(worker[w].seen),
           \A m \in 1 .. Len(worker[w].seen) : c.seen[m].phase = worker[w].seen[m].phase,
           worker[w].pc \in Revoking \cup {"judge"}, c.pc \in Revoking \cup {"sweep"},
           c.pc = "sweep" => worker[w].num > 0 /\ worker[w].tgt # worker[w].num,
           c.pc \in Revoking /\ worker[w].pc \in Revoking => c.res = worker[w].res
    PROVE  /\ Move(w) /\ CallOK(w)' /\ Own(w)' = Own(w) /\ Target(w)' = Target(w)
           /\ worker'[w] = c
           /\ worker' \in [Workers -> Calls] /\ lock' \in Workers \cup {None}
<1>1. Becomes(w, c) /\ worker'[w] = c /\ CallTypes
  BY BecomesCall DEF TypeOK, Becomes
<1>2. CallOK(w)
  BY DEF CallInv
<1>3. Len(obl'[worker[w].op]) = Len(obl[worker[w].op])
  BY TargetExists, LengthsKept DEF TypeOK
<1>4. c.pc # "idle" /\ Busy(w)'
  BY <1>1 DEF Busy, Revoking
<1>5. CallOK(w)'
  <2>1. c # Idle
    BY <1>4, IdleFields
  <2>2. c.pc \in Revoking => c.tgt > 0 /\ (c.tgt = c.num => c.res # "none")
    BY <1>2 DEF CallOK, Revoking
  <2>3. QED
    BY <1>1, <1>2, <1>3, <1>4, <2>1, <2>2 DEF CallOK, Revoking, Busy
<1>6. Move(w)
  <2>1. Early(w)' => Early(w)
    BY <1>1, <1>2 DEF Early, Revoking, CallOK
  <2>2. c.pc # "submit"
    BY DEF Revoking
  <2>3. QED BY <1>1, <1>4, <2>1, <2>2 DEF Move
<1>7. QED BY <1>1, <1>5, <1>6 DEF Own, Target, CallTypes, Becomes

\* An owner that is at another attempt has not touched its own credential.
LEMMA OwnUntouched ==
    ASSUME TypeOK, CallInv, CredentialInv, NEW w \in Workers,
           worker[w].pc \in Revoking \cup {"judge"}, Owner(w)',
           worker'[w].pc \in Revoking \cup {"sweep"},
           Own(w)' = Own(w), Target(w)' = Target(w),
           worker'[w].num = worker[w].num, worker'[w].tgt = worker[w].tgt,
           mat' = mat \/ OtherCredentials(Target(w)),
           worker'[w].pc = "sweep" => worker[w].tgt # worker[w].num
    PROVE  CredentialOK(w)'
<1>1. CASE worker'[w].tgt = worker'[w].num
  BY <1>1 DEF CredentialOK, RevokesOwn, Revoking
<1>2. CASE worker'[w].tgt # worker'[w].num
  <2>1. Owner(w) /\ ~RevokesOwn(w)
    BY <1>2 DEF Owner, Busy, Revoking, RevokesOwn
  <2>2. mat[Own(w)].phase \in {"none", "intent"}
    BY <2>1 DEF CredentialInv, CredentialOK
  <2>3. Own(w) \in Attempts /\ Own(w) # Target(w)
    BY <1>2, <2>1, TargetExists DEF Owner, Own, Target
  <2>4. mat'[Own(w)'] = mat[Own(w)]
    BY <2>3 DEF OtherCredentials
  <2>5. QED BY <2>2, <2>4 DEF CredentialOK, Revoking
<1>3. QED BY <1>1, <1>2

\* The evidence that lets a call revoke shows that no executor lives.
LEMMA RevocableIsQuiet ==
    ASSUME IInv, NEW w \in Workers, worker[w].pc = "judge", Revocable(w)
    PROVE  Quiet(Target(w))
<1>1. CallOK(w) /\ Busy(w) /\ TypeOK /\ CallTypes /\ OwnerInv
  BY DEF IInv, CallInv, Busy, TypeOK
<1>2. /\ Target(w) \in Attempts
      /\ worker[w].tgt > 0 /\ worker[w].tgt # worker[w].num
      /\ worker[w].tgt <= Len(worker[w].seen)
  BY <1>1, TargetExists DEF IInv, CallOK
<1>3. PICK a \in Attempts : a = Target(w)
  BY <1>2
<1>4. ASSUME NEW v \in Workers, Owner(v), Own(v) = a
      PROVE  /\ v # w /\ worker[v].op = worker[w].op /\ worker[v].num = worker[w].tgt
             /\ worker[v].pc = "submit" \/ Early(v) => job[a].st = "none"
  BY <1>2, <1>3, <1>4 DEF Own, Target, IInv, JobInv
<1>5. CASE JobFound(a)
  <2>1. job[a].st = "done"
    BY <1>3, <1>5 DEF Revocable, PodEnded
  <2>2. QED BY <1>3, <1>4, <2>1 DEF Quiet
<1>6. CASE ~JobFound(a)
  <2>1. worker[w].seen[worker[w].tgt].phase = "preparing"
    BY <1>3, <1>6 DEF Revocable
  <2>2. worker[w].tgt \in 1 .. Len(worker[w].seen)
    BY <1>1, <1>2, CallFields, LenProperties, DeploymentAssumption
  <2>3. /\ job[a].st = "none"
        /\ \A v \in Workers : Owner(v) /\ Own(v) = a => worker[v].pc # "submit"
    BY <1>1, <1>2, <1>3, <2>1, <2>2 DEF IInv, SeenInv, Target
  <2>4. ASSUME NEW v \in Workers, Owner(v), Own(v) = a
        PROVE  lock # v
    BY <1>1, <1>2, <1>4, <2>4 DEF OwnerInv
  <2>5. QED BY <1>3, <2>3, <2>4 DEF Quiet
<1>7. QED BY <1>5, <1>6

\* Only an attempt whose executor is known not to run, now or later, is revoked.
LEMMA JudgeStep == ASSUME IInv, NEW w \in Workers, Judge(w) PROVE IInv'
<1>1. worker[w].pc = "judge" /\ TypeOK /\ CallOK(w) /\ Busy(w) /\ CallTypes /\ CallInv
  BY DEF Judge, IInv, CallInv, Busy, TypeOK
<1>2. Target(w) \in Attempts /\ Exists(Target(w)) /\ worker[w].tgt # worker[w].num
  BY <1>1, TargetExists DEF CallOK
<1>3. PICK a \in Attempts : a = Target(w) /\ Exists(a)
  BY <1>2
<1>4. CredentialMove(w) /\ RowInv' /\ CredentialTypes' /\ ClusterTypes' /\ JobMove(w)
  BY <1>1, SameCredentials, SameTypes, SameJobs DEF Judge, IInv, TypeOK
<1>5. DbTypes' /\ AttemptMove /\ ObligationMove(w) /\ EndedInv'
  <2>1. CASE UNCHANGED obl
    BY <1>1, <2>1, SameDb, SameTypes, SameOperations DEF Judge, IInv, TypeOK
  <2>2. CASE ~obl[a[1]][a[2]].resolved /\ obl' = [obl EXCEPT ![a[1]][a[2]].phase = "dispatching"]
    BY <1>1, <1>3, <2>2, MarkKeeps DEF IInv, Judge
  <2>3. QED BY <1>3, <2>1, <2>2 DEF Judge
<1>6. UNCHANGED <<credVars, clusterVars, faults>>
  BY DEF Judge
<1>7. CASE GoTo(w, "close") /\ UNCHANGED lock /\ Revocable(w)
  <2>. DEFINE c == [worker[w] EXCEPT !.pc = "close"]
  <2>1. /\ c \in Calls /\ c.pc = "close" /\ c.op = worker[w].op /\ c.num = worker[w].num
        /\ c.tgt = worker[w].tgt /\ c.seen = worker[w].seen
        /\ worker' = [worker EXCEPT ![w] = c]
    <3>1. c \in Calls
      BY <1>1, CallFields DEF Calls, Steps
    <3>2. QED BY <1>1, <1>7, <3>1, CallFields, StepFields DEF GoTo, Steps
  <2>. HIDE DEF c
  <2>2. /\ Move(w) /\ CallOK(w)' /\ Own(w)' = Own(w) /\ Target(w)' = Target(w)
        /\ worker'[w] = c
        /\ worker' \in [Workers -> Calls] /\ lock' \in Workers \cup {None}
    BY <1>1, <1>5, <1>7, <2>1, RevocationMoves DEF Revoking
  <2>3. Quiet(Target(w))'
    <3>1. Quiet(a)
      BY <1>1, <1>3, <1>7, RevocableIsQuiet
    <3>2. Quiet(a)'
      BY <1>4, <2>2, <3>1, QuietKept
    <3>3. QED BY <1>3, <2>2, <3>2
  <2>4. RevokeOK(w)'
    BY <2>1, <2>2, <2>3 DEF RevokeOK
  <2>5. Owner(w)' => CredentialOK(w)'
    BY <1>1, <1>6, <2>1, <2>2, OwnUntouched DEF IInv, Revoking
  <2>6. TypeOK'
    BY <1>1, <1>4, <1>5, <1>6, <2>2 DEF TypeOK, CallTypes
  <2>7. QED BY <1>4, <1>5, <2>2, <2>4, <2>5, <2>6, StepKeeps DEF Guarantee
<1>8. CASE worker[w].num > 0 /\ GoTo(w, "sweep") /\ UNCHANGED lock
  <2>. DEFINE c == [worker[w] EXCEPT !.pc = "sweep"]
  <2>1. /\ c \in Calls /\ c.pc = "sweep" /\ c.op = worker[w].op /\ c.num = worker[w].num
        /\ c.tgt = worker[w].tgt /\ c.seen = worker[w].seen
        /\ worker' = [worker EXCEPT ![w] = c]
    <3>1. c \in Calls
      BY <1>1, CallFields DEF Calls, Steps
    <3>2. QED BY <1>1, <1>8, <3>1, CallFields, StepFields DEF GoTo, Steps
  <2>. HIDE DEF c
  <2>2. /\ Move(w) /\ CallOK(w)' /\ Own(w)' = Own(w) /\ Target(w)' = Target(w)
        /\ worker'[w] = c
        /\ worker' \in [Workers -> Calls] /\ lock' \in Workers \cup {None}
    BY <1>1, <1>2, <1>5, <1>8, <2>1, RevocationMoves DEF Revoking
  <2>4. RevokeOK(w)'
    BY <2>1, <2>2 DEF RevokeOK, Revoking
  <2>5. Owner(w)' => CredentialOK(w)'
    BY <1>1, <1>2, <1>6, <2>1, <2>2, OwnUntouched DEF IInv, Revoking
  <2>6. TypeOK'
    BY <1>1, <1>4, <1>5, <1>6, <2>2 DEF TypeOK, CallTypes
  <2>7. QED BY <1>4, <1>5, <2>2, <2>4, <2>5, <2>6, StepKeeps DEF Guarantee
<1>9. CASE Leave(w)
  <2>1. /\ Move(w) /\ CallOK(w)' /\ RevokeOK(w)' /\ ~Owner(w)'
        /\ worker' \in [Workers -> Calls] /\ lock' \in Workers \cup {None}
    BY <1>1, <1>9, LeaveKeeps
  <2>2. TypeOK'
    BY <1>1, <1>4, <1>5, <1>6, <2>1 DEF TypeOK, CallTypes
  <2>3. QED BY <1>4, <1>5, <2>1, <2>2, StepKeeps DEF Guarantee
<1>10. QED BY <1>7, <1>8, <1>9 DEF Judge, GoTo

\* What a revoking call is about, and what it has achieved.
LEMMA RevokingFacts ==
    ASSUME IInv, NEW w \in Workers, worker[w].pc \in Revoking
    PROVE  /\ TypeOK /\ CallInv /\ CallOK(w) /\ Busy(w) /\ CallTypes
           /\ Target(w) \in Attempts /\ Exists(Target(w)) /\ RowOK(Target(w))
           /\ RevokeOK(w) /\ Quiet(Target(w))
BY TargetExists DEF IInv, CallInv, CallOK, Busy, TypeOK, Revoking, RowInv, RevokeInv, RevokeOK

\* A step of a revocation about the credential of its target.
LEMMA RevocationKeeps ==
    ASSUME IInv, NEW w \in Workers, worker[w].pc \in Revoking,
           UNCHANGED <<dbVars, clusterVars, outbox>>, faults' \in 0 .. MaxFaults,
           CredentialTypes', OtherCredentials(Target(w)), Harmless(Target(w)),
           CredentialAdvances(Target(w)),
           Move(w), CallOK(w)', RevokeOK(w)', Owner(w)' => CredentialOK(w)',
           worker' \in [Workers -> Calls], lock' \in Workers \cup {None}
    PROVE  IInv'
<1>1. TypeOK /\ Target(w) \in Attempts /\ Exists(Target(w))
  BY RevokingFacts
<1>2. CredentialMove(w) /\ RowInv'
  BY <1>1, OneCredential DEF IInv
<1>3. /\ AttemptMove /\ ObligationMove(w) /\ JobMove(w) /\ DbTypes' /\ ClusterTypes'
      /\ EndedInv'
  BY <1>1, SameDb, SameJobs, SameTypes, SameOperations DEF TypeOK, IInv
<1>4. TypeOK'
  BY <1>1, <1>3 DEF TypeOK, CallTypes
<1>5. QED BY <1>2, <1>3, <1>4, StepKeeps DEF Guarantee

\* Closing the row keeps what the revocation reads off it.
LEMMA CloseRowStep == ASSUME IInv, NEW w \in Workers, CloseRow(w) PROVE IInv'
<1>1. worker[w].pc = "close" /\ worker[w].pc \in Revoking
  BY DEF CloseRow, Revoking
<1>2. /\ TypeOK /\ CallInv /\ CallOK(w) /\ Busy(w) /\ CallTypes
      /\ Target(w) \in Attempts /\ RowOK(Target(w)) /\ Quiet(Target(w))
  BY <1>1, RevokingFacts
<1>3. PICK a \in Attempts : a = Target(w)
  BY <1>2
<1>4. PICK row : row = [mat[a] EXCEPT !.closed = TRUE,
                                      !.phase = IF @ = "none" THEN "intent" ELSE @]
  OBVIOUS
<1>5. /\ row \in Materializations /\ row.closed /\ row.uid = mat[a].uid
      /\ row.phase = (IF mat[a].phase = "none" THEN "intent" ELSE mat[a].phase)
      /\ mat[a].phase \in RowPhases /\ mat[a].uid \in BOOLEAN
  BY <1>2, <1>4, RowTypes DEF TypeOK, CredentialTypes, Materializations, RowPhases
<1>6. /\ mat' = [mat EXCEPT ![a] = row]
      /\ worker' = [worker EXCEPT ![w] = [@ EXCEPT !.pc = "issuer", !.row = row]]
      /\ UNCHANGED <<dbVars, fence, lease, secret, clusterVars, outbox, lock, faults>>
  BY <1>3, <1>4 DEF CloseRow
<1>7. CredentialTypes' /\ OtherCredentials(a) /\ mat'[a] = row
  BY <1>2, <1>5, <1>6 DEF TypeOK, CredentialTypes, OtherCredentials
<1>8. Harmless(a) /\ CredentialAdvances(a)
  BY <1>2, <1>3, <1>5, <1>6, <1>7
     DEF Harmless, CredentialAdvances, RowOK, IssuerDone, Follows, RowPhases
<1>. DEFINE c == [worker[w] EXCEPT !.pc = "issuer", !.row = row]
<1>9. /\ c \in Calls /\ c.pc = "issuer" /\ c.op = worker[w].op /\ c.num = worker[w].num
      /\ c.tgt = worker[w].tgt /\ c.seen = worker[w].seen /\ c.row = row
      /\ c.res = worker[w].res
      /\ worker' = [worker EXCEPT ![w] = c]
  BY <1>2, <1>5, <1>6, CallFields DEF Calls, Steps
<1>. HIDE DEF c
<1>10. DbTypes' /\ AttemptMove
  BY <1>2, <1>6, SameDb, SameTypes DEF TypeOK
<1>11. /\ Move(w) /\ CallOK(w)' /\ Own(w)' = Own(w) /\ Target(w)' = Target(w)
       /\ worker'[w] = c
       /\ worker' \in [Workers -> Calls] /\ lock' \in Workers \cup {None}
  BY <1>1, <1>2, <1>6, <1>9, <1>10, RevocationMoves DEF Revoking
<1>12. RevokeOK(w)'
  <2>1. Quiet(a)'
    BY <1>2, <1>3, <1>6, <1>11, SameJobs, QuietKept
  <2>2. row.phase \in Follows[row.phase]
    BY <1>5 DEF Follows, RowPhases
  <2>3. QED
    BY <1>3, <1>5, <1>7, <1>9, <1>11, <2>1, <2>2 DEF RevokeOK
<1>13. Owner(w)' => CredentialOK(w)'
  BY <1>1, <1>2, <1>3, <1>7, <1>9, <1>11, OwnUntouched DEF IInv, Revoking
<1>14. faults' \in 0 .. MaxFaults
  BY <1>2, <1>6 DEF CallTypes
<1>15. QED
  BY <1>1, <1>3, <1>6, <1>7, <1>8, <1>11, <1>12, <1>13, <1>14, RevocationKeeps

\* The fence is closed before the credential is revoked.
LEMMA RevokeIssuerStep == ASSUME IInv, NEW w \in Workers, RevokeIssuer(w) PROVE IInv'
<1>1. worker[w].pc = "issuer" /\ worker[w].pc \in Revoking
  BY DEF RevokeIssuer, Revoking
<1>2. /\ TypeOK /\ CallInv /\ CallOK(w) /\ Busy(w) /\ CallTypes /\ CredentialTypes
      /\ Target(w) \in Attempts /\ RowOK(Target(w)) /\ Quiet(Target(w)) /\ RevokeOK(w)
  BY <1>1, RevokingFacts DEF TypeOK
<1>3. PICK a \in Attempts : a = Target(w)
  BY <1>2
<1>4. PICK l \in {"none", "reserved", "live", "unknown", "revoked"}, i \in BOOLEAN :
        /\ lease' = [lease EXCEPT ![a] = l]
        /\ l = lease[a] \/ (lease[a] = "live" /\ l = "revoked")
        /\ i => l \in {"none", "revoked"}
        /\ worker' = [worker EXCEPT ![w] = [@ EXCEPT !.pc = "remove", !.issuer = i]]
  <2>1. CASE /\ lease' = [lease EXCEPT ![a] = IF @ = "live" THEN "revoked" ELSE @]
             /\ worker' = [worker EXCEPT ![w] =
                     [@ EXCEPT !.pc = "remove",
                               !.issuer = lease[a] \in {"none", "live", "revoked"}]]
    <3>1. PICK l \in {"none", "reserved", "live", "unknown", "revoked"} :
             l = IF lease[a] = "live" THEN "revoked" ELSE lease[a]
      BY <1>2, <1>3 DEF CredentialTypes
    <3>2. PICK i \in BOOLEAN : /\ i <=> lease[a] \in {"none", "live", "revoked"}
                              /\ worker' = [worker EXCEPT ![w] = [@ EXCEPT !.pc = "remove", !.issuer = i]]
      <4>1. CASE lease[a] \in {"none", "live", "revoked"}
        <5>1. (lease[a] \in {"none", "live", "revoked"}) = TRUE
          BY <4>1
        <5>2. worker' = [worker EXCEPT ![w] = [@ EXCEPT !.pc = "remove", !.issuer = TRUE]]
          BY <2>1, <5>1
        <5>3. QED BY <4>1, <5>2
      <4>2. CASE lease[a] \notin {"none", "live", "revoked"}
        <5>1. (lease[a] \in {"none", "live", "revoked"}) = FALSE
          BY <4>2
        <5>2. worker' = [worker EXCEPT ![w] = [@ EXCEPT !.pc = "remove", !.issuer = FALSE]]
          BY <2>1, <5>1
        <5>3. QED BY <4>2, <5>2
      <4>3. QED BY <4>1, <4>2
    <3>3. lease' = [lease EXCEPT ![a] = l]
      BY <2>1, <3>1
    <3>4. worker' = [worker EXCEPT ![w] = [@ EXCEPT !.pc = "remove", !.issuer = i]]
      BY <3>2
    <3>5. i => l \in {"none", "revoked"}
      BY <3>1, <3>2
    <3>6. l = lease[a] \/ (lease[a] = "live" /\ l = "revoked")
      BY <3>1
    <3>7. QED BY <3>3, <3>4, <3>5, <3>6
  <2>2. CASE /\ worker' = [worker EXCEPT ![w] =
                     [@ EXCEPT !.pc = "remove", !.issuer = FALSE]]
             /\ UNCHANGED lease
    <3>1. lease' = [lease EXCEPT ![a] = lease[a]]
      BY <1>2, <2>2 DEF CredentialTypes
    <3>2. lease[a] \in {"none", "reserved", "live", "unknown", "revoked"}
      BY <1>2, <1>3 DEF CredentialTypes
    <3>3. QED BY <2>2, <3>1, <3>2
  <2>3. QED BY <1>3, <2>1, <2>2 DEF RevokeIssuer
<1>5. /\ fence' = [fence EXCEPT ![a] = TRUE] /\ faults' \in 0 .. MaxFaults
      /\ UNCHANGED <<dbVars, mat, secret, clusterVars, outbox, lock>>
  BY <1>2, <1>3, DeploymentAssumption DEF RevokeIssuer, CallTypes
<1>6. CredentialTypes' /\ OtherCredentials(a) /\ fence'[a] /\ lease'[a] = l
  BY <1>2, <1>4, <1>5 DEF CredentialTypes, OtherCredentials
<1>7. Harmless(a) /\ CredentialAdvances(a)
  <2>1. mat[a].closed => mat[a].phase # "none"
    BY <1>2, <1>3 DEF RowOK
  <2>2. mat[a].phase \in RowPhases
    BY <1>2, RowTypes
  <2>3. QED
    BY <1>2, <1>3, <1>4, <1>5, <1>6, <2>1, <2>2
       DEF Harmless, CredentialAdvances, RowOK, IssuerDone, Follows, RowPhases
<1>. DEFINE c == [worker[w] EXCEPT !.pc = "remove", !.issuer = i]
<1>9. /\ c \in Calls /\ c.pc = "remove" /\ c.op = worker[w].op /\ c.num = worker[w].num
      /\ c.tgt = worker[w].tgt /\ c.seen = worker[w].seen /\ c.row = worker[w].row
      /\ c.res = worker[w].res /\ c.issuer = i
      /\ worker' = [worker EXCEPT ![w] = c]
  BY <1>2, <1>4, CallFields DEF Calls, Steps
<1>. HIDE DEF c
<1>10. DbTypes' /\ AttemptMove
  BY <1>2, <1>5, SameDb, SameTypes DEF TypeOK
<1>11. /\ Move(w) /\ CallOK(w)' /\ Own(w)' = Own(w) /\ Target(w)' = Target(w)
       /\ worker'[w] = c
       /\ worker' \in [Workers -> Calls] /\ lock' \in Workers \cup {None}
  BY <1>1, <1>2, <1>5, <1>9, <1>10, RevocationMoves DEF Revoking
<1>12. RevokeOK(w)'
  <2>1. Quiet(a)'
    BY <1>2, <1>3, <1>5, <1>11, SameJobs, QuietKept
  <2>2. i => IssuerDone(a)'
    BY <1>4, <1>6 DEF IssuerDone
  <2>3. QED
    BY <1>1, <1>2, <1>3, <1>5, <1>9, <1>11, <2>1, <2>2 DEF RevokeOK
<1>13. Owner(w)' => CredentialOK(w)'
  BY <1>1, <1>2, <1>3, <1>6, <1>9, <1>11, OwnUntouched DEF IInv, Revoking
<1>14. QED
  BY <1>1, <1>3, <1>5, <1>6, <1>7, <1>11, <1>12, <1>13, RevocationKeeps

\* What a call does once it has, or has not, revoked.
LEMMA AfterRevokeKeeps ==
    ASSUME IInv, NEW w \in Workers, worker[w].pc \in {"remove", "resolve"},
           DbTypes', AttemptMove, JobMove(w), NEW a \in Attempts, a = Target(w),
           mat' = mat \/ OtherCredentials(a), NEW done \in BOOLEAN, AfterRevoke(w, done),
           done => worker[w].pc = "remove" /\ IssuerDone(a)' /\ SecretDone(a)'
    PROVE  /\ Move(w) /\ CallOK(w)' /\ RevokeOK(w)' /\ (Owner(w)' => CredentialOK(w)')
           /\ worker' \in [Workers -> Calls] /\ lock' \in Workers \cup {None}
<1>1. /\ TypeOK /\ CallInv /\ CallOK(w) /\ Busy(w) /\ CallTypes /\ Quiet(a)
      /\ worker[w].pc \in Revoking
  BY RevokingFacts DEF Revoking
<1>2. lock \in Workers \cup {None}
  BY <1>1 DEF CallTypes
<1>3. CASE done
  <2>. DEFINE c == [worker[w] EXCEPT !.pc = "resolve"]
  <2>1. /\ c \in Calls /\ c.pc = "resolve" /\ c.op = worker[w].op /\ c.num = worker[w].num
        /\ c.tgt = worker[w].tgt /\ c.seen = worker[w].seen /\ c.res = worker[w].res
    BY <1>1, CallFields DEF Calls, Steps
  <2>2. worker' = [worker EXCEPT ![w] = c] /\ UNCHANGED lock
    BY <1>3 DEF AfterRevoke, GoTo
  <2>. HIDE DEF c
  <2>3. /\ Move(w) /\ CallOK(w)' /\ Own(w)' = Own(w) /\ Target(w)' = Target(w)
        /\ worker'[w] = c
        /\ worker' \in [Workers -> Calls] /\ lock' \in Workers \cup {None}
    BY <1>1, <2>1, <2>2, RevocationMoves DEF Revoking
  <2>4. Quiet(a)'
    BY <1>1, <2>3, QuietKept
  <2>5. RevokeOK(w)'
    BY <1>3, <2>1, <2>3, <2>4 DEF RevokeOK
  <2>6. Owner(w)' => CredentialOK(w)'
    BY <1>1, <2>1, <2>3, OwnUntouched DEF IInv, Revoking
  <2>7. QED BY <2>3, <2>5, <2>6
<1>4. CASE ~done /\ worker[w].num = 0
  BY <1>1, <1>4, LeaveKeeps DEF AfterRevoke
<1>5. CASE ~done /\ worker[w].num # 0 /\ RevokesOwn(w)
  <2>. DEFINE c == [worker[w] EXCEPT !.pc = "finish", !.res = "uncertain", !.ext = FALSE]
  <2>1. /\ c \in Calls /\ c.pc = "finish" /\ c.op = worker[w].op /\ c.num = worker[w].num
        /\ c.tgt = worker[w].tgt /\ c.seen = worker[w].seen /\ c.res = "uncertain"
    BY <1>1, CallFields DEF Calls, Steps
  <2>2. worker' = [worker EXCEPT ![w] = c] /\ UNCHANGED lock
    BY <1>5 DEF AfterRevoke
  <2>. HIDE DEF c
  <2>3. Owner(w) /\ c.tgt <= Len(worker[w].seen)
    BY <1>1, <1>5, <2>1, CallFields, DeploymentAssumption DEF Owner, CallOK
  <2>4. QED BY <1>1, <2>1, <2>2, <2>3, ReportKeeps
<1>6. CASE ~done /\ worker[w].num # 0 /\ ~RevokesOwn(w)
  <2>. DEFINE c == [worker[w] EXCEPT !.pc = "sweep"]
  <2>1. /\ c \in Calls /\ c.pc = "sweep" /\ c.op = worker[w].op /\ c.num = worker[w].num
        /\ c.tgt = worker[w].tgt /\ c.seen = worker[w].seen
    BY <1>1, CallFields DEF Calls, Steps
  <2>2. worker' = [worker EXCEPT ![w] = c] /\ UNCHANGED lock
    BY <1>6 DEF AfterRevoke
  <2>. HIDE DEF c
  <2>3. worker[w].num > 0 /\ worker[w].tgt # worker[w].num
    BY <1>1, <1>6, CallFields, DeploymentAssumption DEF RevokesOwn
  <2>4. /\ Move(w) /\ CallOK(w)' /\ Own(w)' = Own(w) /\ Target(w)' = Target(w)
        /\ worker'[w] = c
        /\ worker' \in [Workers -> Calls] /\ lock' \in Workers \cup {None}
    BY <1>1, <2>1, <2>2, <2>3, RevocationMoves DEF Revoking
  <2>5. RevokeOK(w)'
    BY <2>1, <2>4 DEF RevokeOK, Revoking
  <2>6. Owner(w)' => CredentialOK(w)'
    BY <1>1, <2>1, <2>3, <2>4, OwnUntouched DEF IInv, Revoking
  <2>7. QED BY <2>4, <2>5, <2>6
<1>7. QED BY <1>3, <1>4, <1>5, <1>6

\* A Secret is gone only when nothing was created, or it is deleted.
LEMMA RemovalAdvances ==
    ASSUME IInv, NEW w \in Workers, worker[w].pc = "remove",
           NEW a \in Attempts, a = Target(w), SecretGone(w),
           worker[w].row.phase \notin {"intent", "absent"},
           mat' = [mat EXCEPT ![a] = [mat[a] EXCEPT !.phase = "absent", !.uid = TRUE]],
           secret' = [secret EXCEPT ![a] = IF @ = "present" THEN "deleted" ELSE @],
           UNCHANGED <<fence, lease>>
    PROVE  /\ CredentialTypes' /\ OtherCredentials(a) /\ Harmless(a)
           /\ CredentialAdvances(a) /\ mat'[a].phase = "absent"
<1>1. /\ TypeOK /\ CredentialTypes /\ CallTypes /\ RowOK(a)
      /\ mat[a].closed /\ mat[a].phase \in Follows[worker[w].row.phase]
      /\ worker[w].row.uid => mat[a].uid
  BY RevokingFacts DEF Revoking, RevokeOK, TypeOK
<1>2. worker[w].row.phase \in RowPhases
  BY <1>1, CallFields DEF Materializations
<1>3. mat[a].phase \in {"creating", "materialized", "absent"}
  BY <1>1, <1>2 DEF Follows, RowPhases
<1>4. PICK row : row = [mat[a] EXCEPT !.phase = "absent", !.uid = TRUE]
  OBVIOUS
<1>5. row \in Materializations /\ row.phase = "absent" /\ row.uid /\ row.closed = mat[a].closed
  BY <1>1, <1>4 DEF CredentialTypes, Materializations, RowPhases
<1>6. PICK s \in {"none", "inflight", "present", "deleted", "foreign"} :
        s = IF secret[a] = "present" THEN "deleted" ELSE secret[a]
  BY <1>1 DEF CredentialTypes
<1>7. mat' = [mat EXCEPT ![a] = row] /\ secret' = [secret EXCEPT ![a] = s]
  BY <1>4, <1>6
<1>8. CredentialTypes' /\ OtherCredentials(a) /\ mat'[a] = row /\ secret'[a] = s
  BY <1>1, <1>5, <1>7 DEF CredentialTypes, OtherCredentials
<1>9. s \in {"deleted", "foreign"}
  BY <1>1, <1>3, <1>6 DEF SecretGone, CanRecordUID, RowOK
<1>10. mat[a].phase = "creating" => secret[a] = "present"
  BY <1>1 DEF SecretGone, CanRecordUID, RowOK
<1>11. Harmless(a) /\ CredentialAdvances(a)
  BY <1>1, <1>3, <1>5, <1>6, <1>8, <1>9, <1>10
     DEF Harmless, CredentialAdvances, RowOK, IssuerDone, Follows
<1>12. QED BY <1>5, <1>8, <1>11

\* A step of a revocation that leaves the credential alone.
LEMMA NothingAdvances ==
    ASSUME TypeOK, NEW a \in Attempts, RowOK(a), UNCHANGED credVars
    PROVE  CredentialTypes' /\ OtherCredentials(a) /\ Harmless(a) /\ CredentialAdvances(a)
<1>1. mat[a].closed => mat[a].phase # "none"
  BY DEF RowOK
<1>2. mat[a].phase \in RowPhases
  BY RowTypes
<1>3. CredentialTypes'
  BY SameTypes DEF TypeOK
<1>4. OtherCredentials(a) /\ Harmless(a)
  BY DEF OtherCredentials, Harmless
<1>5. CredentialAdvances(a)
  BY <1>1, <1>2 DEF CredentialAdvances, RowOK, IssuerDone, Follows, RowPhases
<1>6. QED BY <1>3, <1>4, <1>5

\* The Secret is taken away only when its identity is recorded, and then for good.
LEMMA RemoveSecretStep == ASSUME IInv, NEW w \in Workers, RemoveSecret(w) PROVE IInv'
<1>1. worker[w].pc = "remove" /\ worker[w].pc \in Revoking
  BY DEF RemoveSecret, Revoking
<1>2. /\ TypeOK /\ CallInv /\ CallOK(w) /\ Busy(w) /\ CallTypes /\ CredentialTypes
      /\ Target(w) \in Attempts /\ RowOK(Target(w)) /\ Quiet(Target(w)) /\ RevokeOK(w)
  BY <1>1, RevokingFacts DEF TypeOK
<1>3. PICK a \in Attempts : a = Target(w)
  BY <1>2
<1>4. UNCHANGED <<dbVars, fence, lease, clusterVars, outbox>> /\ faults' \in 0 .. MaxFaults
  <2>1. faults \in 0 .. MaxFaults
    BY <1>2 DEF CallTypes
  <2>2. faults' = faults \/ (faults < MaxFaults /\ faults' = faults + 1)
    BY DEF RemoveSecret
  <2>3. UNCHANGED <<dbVars, fence, lease, clusterVars, outbox>>
    BY DEF RemoveSecret
  <2>4. QED BY <2>1, <2>2, <2>3, DeploymentAssumption
<1>5. DbTypes' /\ AttemptMove /\ JobMove(w)
  BY <1>2, <1>4, SameDb, SameTypes, SameJobs DEF TypeOK
<1>6. CASE /\ SecretGone(w)
           /\ IF worker[w].row.phase \in {"intent", "absent"} THEN UNCHANGED <<mat, secret>>
              ELSE /\ mat' = [mat EXCEPT ![a] = [mat[a] EXCEPT !.phase = "absent", !.uid = TRUE]]
                   /\ secret' = [secret EXCEPT ![a] = IF @ = "present" THEN "deleted" ELSE @]
           /\ AfterRevoke(w, worker[w].issuer)
  <2>1. /\ CredentialTypes' /\ OtherCredentials(a) /\ Harmless(a)
        /\ CredentialAdvances(a) /\ mat'[a].phase \in {"intent", "absent"}
    <3>1. CASE worker[w].row.phase \in {"intent", "absent"}
      <4>1. UNCHANGED credVars
        BY <1>4, <1>6, <3>1
      <4>2. mat[a].phase \in {"intent", "absent"}
        BY <1>1, <1>2, <1>3, <3>1 DEF RevokeOK, Follows
      <4>3. QED BY <1>2, <1>3, <4>1, <4>2, NothingAdvances
    <3>2. CASE worker[w].row.phase \notin {"intent", "absent"}
      BY <1>1, <1>3, <1>4, <1>6, <3>2, RemovalAdvances
    <3>3. QED BY <3>1, <3>2
  <2>2. mat[a].closed /\ (worker[w].issuer => IssuerDone(a)) /\ worker[w].issuer \in BOOLEAN
    BY <1>1, <1>2, <1>3, CallFields DEF RevokeOK
  <2>3. worker[w].issuer => IssuerDone(a)' /\ SecretDone(a)'
    BY <2>1, <2>2 DEF CredentialAdvances, SecretDone
  <2>4. PICK done \in BOOLEAN : done = worker[w].issuer
    BY <2>2
  <2>5. /\ Move(w) /\ CallOK(w)' /\ RevokeOK(w)' /\ (Owner(w)' => CredentialOK(w)')
        /\ worker' \in [Workers -> Calls] /\ lock' \in Workers \cup {None}
    BY <1>1, <1>3, <1>5, <1>6, <2>1, <2>3, <2>4, AfterRevokeKeeps
  <2>6. QED BY <1>1, <1>3, <1>4, <2>1, <2>5, RevocationKeeps
<1>7. CASE AfterRevoke(w, FALSE) /\ UNCHANGED <<mat, secret>>
  <2>1. CredentialTypes' /\ OtherCredentials(a) /\ Harmless(a) /\ CredentialAdvances(a)
    BY <1>2, <1>3, <1>4, <1>7, NothingAdvances
  <2>2. /\ Move(w) /\ CallOK(w)' /\ RevokeOK(w)' /\ (Owner(w)' => CredentialOK(w)')
        /\ worker' \in [Workers -> Calls] /\ lock' \in Workers \cup {None}
    BY <1>1, <1>3, <1>5, <1>7, <2>1, AfterRevokeKeeps
  <2>3. QED BY <1>1, <1>3, <1>4, <2>1, <2>2, RevocationKeeps
<1>8. CASE /\ CanRecordUID(a)
           /\ mat' = [mat EXCEPT ![a] = [@ EXCEPT !.phase = "materialized", !.uid = TRUE]]
           /\ secret' \in {secret, [secret EXCEPT ![a] = "deleted"]}
           /\ AfterRevoke(w, FALSE)
  <2>1. CredentialTypes' /\ OtherCredentials(a) /\ Harmless(a) /\ CredentialAdvances(a)
    BY <1>2, <1>3, <1>4, <1>8, RecordAdvances
  <2>2. /\ Move(w) /\ CallOK(w)' /\ RevokeOK(w)' /\ (Owner(w)' => CredentialOK(w)')
        /\ worker' \in [Workers -> Calls] /\ lock' \in Workers \cup {None}
    BY <1>1, <1>3, <1>5, <1>8, <2>1, AfterRevokeKeeps
  <2>3. QED BY <1>1, <1>3, <1>4, <2>1, <2>2, RevocationKeeps
<1>9. QED BY <1>3, <1>6, <1>7, <1>8 DEF RemoveSecret

\* An obligation is resolved when issuer and Secret are done with, through the lock.
LEMMA ResolveStep == ASSUME IInv, NEW w \in Workers, Resolve(w) PROVE IInv'
<1>1. worker[w].pc = "resolve" /\ worker[w].pc \in Revoking
  BY DEF Resolve, Revoking
<1>2. /\ TypeOK /\ CallInv /\ CallOK(w) /\ Busy(w) /\ CallTypes /\ DbTypes
      /\ Target(w) \in Attempts /\ Exists(Target(w)) /\ RevokeOK(w)
      /\ worker[w].op \in Ops /\ worker[w].tgt \in 1 .. Len(obl[worker[w].op])
  BY <1>1, RevokingFacts, TargetExists DEF TypeOK, CallOK
<1>3. PICK a \in Attempts : a = Target(w)
  BY <1>2
<1>4. /\ UNCHANGED <<op, approved, att, credVars, clusterVars, outbox, faults>>
      /\ JobMove(w)
  BY SameJobs DEF Resolve
<1>5. CASE AfterRevoke(w, FALSE) /\ UNCHANGED obl
  <2>1. DbTypes' /\ AttemptMove
    BY <1>2, <1>4, <1>5, SameDb, SameTypes
  <2>2. /\ Move(w) /\ CallOK(w)' /\ RevokeOK(w)' /\ (Owner(w)' => CredentialOK(w)')
        /\ worker' \in [Workers -> Calls] /\ lock' \in Workers \cup {None}
    BY <1>1, <1>3, <1>4, <1>5, <2>1, AfterRevokeKeeps
  <2>3. QED BY <1>2, <1>4, <1>5, <2>2, LocalKeeps DEF CallTypes
<1>6. CASE /\ ~obl[worker[w].op][worker[w].tgt].resolved
           /\ obl' = [obl EXCEPT ![worker[w].op][worker[w].tgt].resolved = TRUE]
           /\ IF worker[w].num = 0 THEN Leave(w)
              ELSE /\ worker' = [worker EXCEPT ![w] =
                         [@ EXCEPT !.pc = IF RevokesOwn(w) THEN "finish" ELSE "sweep",
                                   !.seen = [worker[w].seen EXCEPT ![worker[w].tgt].resolved = TRUE]]]
                   /\ UNCHANGED lock
  <2>1. PICK o, n, x, s : /\ o = worker[w].op /\ n = worker[w].tgt
                          /\ x = [obl[o][n] EXCEPT !.resolved = TRUE]
                          /\ s = [obl[o] EXCEPT ![n] = x]
    OBVIOUS
  <2>2. /\ o \in Ops /\ n \in 1 .. Len(obl[o]) /\ obl[o] \in Seq(Obligations)
        /\ obl[o][n] \in Obligations
    BY <1>2, <2>1, ElementOfSeq DEF DbTypes
  <2>3. x \in Obligations /\ x.resolved /\ x.phase = obl[o][n].phase
    BY <2>1, <2>2 DEF Obligations
  <2>4. /\ s \in Seq(Obligations)
        /\ Len(s) = Len(obl[o])
        /\ \A j \in 1 .. Len(obl[o]) : s[j] = IF j = n THEN x ELSE obl[o][j]
    BY <2>1, <2>2, <2>3, ExceptSeq
  <2>5. obl' = [obl EXCEPT ![o] = s]
    BY <1>6, <2>1
  <2>6. /\ DbTypes' /\ AttemptMove
        /\ obl'[o] = s
        /\ \A p \in Ops : p # o => obl'[p] = obl[p]
    BY <1>2, <1>4, <2>2, <2>4, <2>5, OneObligation
  <2>7. Target(w) = <<o, n>>
    BY <2>1 DEF Target
  <2>8. ObligationMove(w)
    BY <1>1, <2>2, <2>3, <2>4, <2>6, <2>7 DEF ObligationMove
  <2>9. EndedInv'
    BY <1>2, <1>4, <2>6, <2>8, EndedKept DEF IInv
  <2>10. CredentialMove(w) /\ RowInv' /\ CredentialTypes' /\ ClusterTypes'
    BY <1>2, <1>4, SameCredentials, SameTypes DEF TypeOK, IInv
  <2>11. /\ Move(w) /\ CallOK(w)' /\ RevokeOK(w)' /\ (Owner(w)' => CredentialOK(w)')
         /\ worker' \in [Workers -> Calls] /\ lock' \in Workers \cup {None}
    <3>1. CASE worker[w].num = 0
      BY <1>2, <1>6, <3>1, LeaveKeeps
    <3>2. CASE worker[w].num # 0
      <4>1. PICK seen, y : /\ y = [worker[w].seen[n] EXCEPT !.resolved = TRUE]
                           /\ seen = [worker[w].seen EXCEPT ![n] = y]
        OBVIOUS
      <4>2. /\ worker[w].seen \in Seq(Obligations) /\ n \in 1 .. Len(worker[w].seen)
            /\ worker[w].seen[n] \in Obligations
        <5>1. worker[w].seen \in Seq(Obligations) /\ n <= Len(worker[w].seen)
          BY <1>2, <2>1, CallFields DEF CallOK
        <5>2. n \in 1 .. Len(worker[w].seen)
          BY <1>2, <2>1, <5>1, LenProperties, DeploymentAssumption
        <5>3. QED BY <5>1, <5>2, ElementOfSeq
      <4>3. y \in Obligations /\ y.phase = worker[w].seen[n].phase
        BY <4>1, <4>2 DEF Obligations
      <4>4. /\ seen \in Seq(Obligations) /\ Len(seen) = Len(worker[w].seen)
            /\ \A j \in 1 .. Len(worker[w].seen) :
                   seen[j] = IF j = n THEN y ELSE worker[w].seen[j]
        BY <4>1, <4>2, <4>3, ExceptSeq
      <4>5. \A j \in 1 .. Len(worker[w].seen) : seen[j].phase = worker[w].seen[j].phase
        BY <4>3, <4>4
      <4>6. PICK pc : pc = IF RevokesOwn(w) THEN "finish" ELSE "sweep"
        OBVIOUS
      <4>7. worker' = [worker EXCEPT ![w] = [@ EXCEPT !.pc = pc, !.seen = seen]] /\ UNCHANGED lock
        BY <1>6, <2>1, <3>2, <4>1, <4>6
      <4>. DEFINE c == [worker[w] EXCEPT !.pc = pc, !.seen = seen]
      <4>8. /\ c \in Calls /\ c.pc = pc /\ c.op = worker[w].op /\ c.num = worker[w].num
            /\ c.tgt = worker[w].tgt /\ c.seen = seen /\ c.res = worker[w].res
        BY <1>2, <4>4, <4>6, CallFields DEF Calls, Steps
      <4>9. worker' = [worker EXCEPT ![w] = c]
        BY <4>7
      <4>. HIDE DEF c
      <4>10. worker[w].num > 0 /\ Owner(w)
        BY <1>2, <3>2, CallFields, DeploymentAssumption DEF Owner
      <4>11. CASE RevokesOwn(w)
        <5>1. c.pc = "finish" /\ c.res # "none" /\ c.tgt <= Len(worker[w].seen)
          BY <1>1, <1>2, <4>6, <4>8, <4>11 DEF CallOK, RevokesOwn
        <5>2. /\ c \in Calls /\ c.op = worker[w].op /\ c.num = worker[w].num
              /\ Len(c.seen) = Len(worker[w].seen)
              /\ \A m \in 1 .. Len(c.seen) : c.seen[m].phase = worker[w].seen[m].phase
          BY <4>4, <4>5, <4>8
        <5>3. QED
          BY <1>2, <2>6, <4>7, <4>9, <4>10, <5>1, <5>2, ReportKeeps
      <4>12. CASE ~RevokesOwn(w)
        <5>1. c.pc = "sweep" /\ worker[w].tgt # worker[w].num
          BY <4>6, <4>8, <4>12 DEF RevokesOwn
        <5>2. /\ Move(w) /\ CallOK(w)' /\ Own(w)' = Own(w) /\ Target(w)' = Target(w)
              /\ worker'[w] = c
              /\ worker' \in [Workers -> Calls] /\ lock' \in Workers \cup {None}
          <6>1. /\ c \in Calls /\ c.op = worker[w].op /\ c.num = worker[w].num
                /\ c.tgt = worker[w].tgt
                /\ Len(c.seen) = Len(worker[w].seen)
                /\ \A m \in 1 .. Len(worker[w].seen) :
                       c.seen[m].phase = worker[w].seen[m].phase
            BY <4>4, <4>5, <4>8
          <6>2. /\ worker[w].pc \in Revoking \cup {"judge"} /\ c.pc \in Revoking \cup {"sweep"}
                /\ c.pc \notin Revoking /\ lock' \in {lock, None}
            BY <1>1, <4>7, <5>1 DEF Revoking
          <6>3. QED
            BY <1>2, <2>6, <4>9, <4>10, <5>1, <6>1, <6>2, RevocationMoves
        <5>3. RevokeOK(w)'
          BY <5>1, <5>2 DEF RevokeOK, Revoking
        <5>4. Owner(w)' => CredentialOK(w)'
          BY <1>1, <1>2, <1>4, <4>8, <5>1, <5>2, OwnUntouched DEF IInv, Revoking
        <5>5. QED BY <5>2, <5>3, <5>4
      <4>13. QED BY <4>11, <4>12
    <3>3. QED BY <3>1, <3>2
  <2>12. TypeOK'
    BY <1>2, <1>4, <2>6, <2>10, <2>11 DEF TypeOK, CallTypes
  <2>13. QED BY <1>4, <2>6, <2>8, <2>9, <2>10, <2>11, <2>12, StepKeeps DEF Guarantee
<1>7. QED BY <1>5, <1>6 DEF Resolve

\* An operation ends only when no obligation of it is open.
LEMMA FinishStep == ASSUME IInv, NEW w \in Workers, Finish(w) PROVE IInv'
<1>1. /\ worker[w].pc = "finish" /\ TypeOK /\ CallInv /\ CallOK(w) /\ Owner(w)
      /\ CallTypes /\ DbTypes
  BY DEF Finish, IInv, CallInv, CallOK, Owner, Busy, Revoking, TypeOK
<1>2. /\ worker[w].op \in Ops /\ worker[w].num \in 1 .. Len(att[worker[w].op])
      /\ worker[w].res \in {"succeeded", "failed", "uncertain"}
      /\ worker[w].ext \in BOOLEAN
  BY <1>1, TargetExists, CallFields DEF CallOK, Owner, DbTypes
<1>3. UNCHANGED <<approved, obl, credVars, clusterVars, faults>> /\ Leave(w)
  BY DEF Finish
<1>4. /\ Move(w) /\ CallOK(w)' /\ RevokeOK(w)' /\ ~Owner(w)' /\ CallTypes'
  BY <1>1, <1>3, LeaveKeeps DEF CallTypes
<1>5. CASE UNCHANGED <<att, op, outbox>>
  BY <1>3, <1>4, <1>5, LocalKeeps
<1>6. CASE /\ att' = [att EXCEPT ![worker[w].op][worker[w].num] =
                        [@ EXCEPT !.state = FinalState(w), !.ext = worker[w].ext]]
           /\ op' = [op EXCEPT ![worker[w].op] = FinalState(w)]
           /\ \/ \E d : outbox' = [outbox EXCEPT ![d] = "pending"]
              \/ UNCHANGED outbox
  <2>1. PICK o, n, f, x, s : /\ o = worker[w].op /\ n = worker[w].num /\ f = FinalState(w)
                             /\ x = [att[o][n] EXCEPT !.state = f, !.ext = worker[w].ext]
                             /\ s = [att[o] EXCEPT ![n] = x]
    OBVIOUS
  <2>2. /\ o \in Ops /\ n \in 1 .. Len(att[o]) /\ att[o] \in Seq(AttemptRows)
        /\ att[o][n] \in AttemptRows
        /\ f \in {"succeeded", "failed", "uncertain"}
        /\ f # "uncertain" => ~PendingCredentials(o)
    BY <1>1, <1>2, <2>1, ElementOfSeq DEF DbTypes, FinalState
  <2>3. x \in AttemptRows /\ x.kind = att[o][n].kind
    BY <1>2, <2>1, <2>2 DEF AttemptRows, OpStates
  <2>4. /\ s \in Seq(AttemptRows)
        /\ Len(s) = Len(att[o])
        /\ \A j \in 1 .. Len(att[o]) : s[j] = IF j = n THEN x ELSE att[o][j]
    BY <2>1, <2>2, <2>3, ExceptSeq
  <2>5. att' = [att EXCEPT ![o] = s] /\ op' = [op EXCEPT ![o] = f]
    BY <1>6, <2>1
  <2>6. /\ att' \in [Ops -> Seq(AttemptRows)] /\ op' \in [Ops -> OpStates]
        /\ att'[o] = s /\ op'[o] = f
        /\ \A p \in Ops : p # o => att'[p] = att[p] /\ op'[p] = op[p]
    BY <1>1, <2>2, <2>4, <2>5 DEF DbTypes, OpStates
  <2>7. AttemptMove
    BY <2>2, <2>3, <2>4, <2>6 DEF AttemptMove
  <2>8. DbTypes'
    BY <1>1, <1>3, <2>6, <2>7 DEF DbTypes, AttemptMove
  <2>9. EndedInv'
    BY <1>3, <2>2, <2>4, <2>6 DEF IInv, EndedInv, PendingCredentials
  <2>10. ObligationMove(w) /\ JobMove(w) /\ CredentialMove(w) /\ RowInv' /\ CredentialTypes'
    BY <1>1, <1>3, SameCredentials, SameTypes, SameJobs DEF TypeOK, IInv, ObligationMove
  <2>11. ClusterTypes'
    BY <1>1, <1>3, <1>6 DEF TypeOK, ClusterTypes
  <2>12. TypeOK'
    BY <1>4, <2>8, <2>10, <2>11 DEF TypeOK
  <2>13. QED BY <1>4, <2>7, <2>9, <2>10, <2>12, StepKeeps DEF Guarantee
<1>7. QED
  BY <1>5, <1>6 DEF Finish, EnqueueSuccess

-----------------------------------------------------------------------------
(* Steps of the cluster, and of requests *)

\* The cluster brings no Job and no Secret to an attempt that has none, and
\* takes away none that has ended.
ClusterMove ==
    /\ UNCHANGED <<dbVars, mat, fence, lease, lock, worker>>
    /\ \A a \in Attempts :
         /\ job[a].st \in {"none", "done"} => job'[a] = job[a]
         /\ \/ secret'[a] = secret[a]
            \/ secret[a] = "inflight" /\ secret'[a] \in {"present", "none"}

\* A step of the cluster keeps the invariant.
LEMMA ClusterKeeps ==
    ASSUME IInv, ClusterMove, TypeOK'
    PROVE  IInv'
<1>1. UNCHANGED <<dbVars, mat, fence, lease, lock, worker>>
  BY DEF ClusterMove
<1>2. TypeOK /\ CallInv
  BY DEF IInv
<1>3. CallInv' /\ OwnerInv' /\ EndedInv' /\ DeliveryInv'
  BY <1>1 DEF IInv, CallInv, CallOK, OwnerInv, EndedInv, DeliveryInv, Owner, Busy,
              PendingCredentials, Exists
<1>4. RowInv'
  BY <1>1 DEF IInv, RowInv, RowOK, ClusterMove
<1>5. \A w \in Workers : Owner(w)' = Owner(w) /\ Own(w)' = Own(w) /\ Early(w)' = Early(w)
  BY <1>1 DEF Owner, Busy, Own, Early
<1>6. ASSUME NEW a \in Attempts, Quiet(a)
      PROVE  Quiet(a)'
  BY <1>1, <1>5, <1>6 DEF Quiet, ClusterMove
<1>7. CredentialInv'
  <2>1. ASSUME NEW w \in Workers, Owner(w)
        PROVE  CredentialOK(w)'
    <3>1. Own(w) \in Attempts
      BY <1>2, <2>1, TargetExists DEF Owner
    <3>2. CredentialOK(w)
      BY <2>1 DEF IInv, CredentialInv
    <3>3. RevokesOwn(w)' = RevokesOwn(w)
      BY <1>1 DEF RevokesOwn
    <3>4. secret[Own(w)] # "inflight" => secret'[Own(w)] = secret[Own(w)]
      BY <3>1 DEF ClusterMove
    <3>5. QED BY <1>1, <1>5, <3>2, <3>3, <3>4 DEF CredentialOK
  <2>2. QED BY <1>5, <2>1 DEF CredentialInv
<1>8. RevokeInv'
  <2>1. ASSUME NEW w \in Workers, worker[w].pc \in Revoking
        PROVE  RevokeOK(w)'
    <3>1. Target(w) \in Attempts /\ RevokeOK(w)
      BY <2>1, RevokingFacts
    <3>2. PICK a \in Attempts : a = Target(w)
      BY <3>1
    <3>3. Target(w)' = a
      BY <1>1, <3>2 DEF Target
    <3>4. Quiet(a)'
      BY <1>6, <2>1, <3>1, <3>2 DEF RevokeOK
    <3>5. QED BY <1>1, <3>1, <3>2, <3>3, <3>4 DEF RevokeOK, IssuerDone, SecretDone
  <2>2. ASSUME NEW w \in Workers, worker[w].pc \notin Revoking
        PROVE  RevokeOK(w)'
    BY <1>1, <2>2 DEF RevokeOK, Revoking
  <2>3. QED BY <2>1, <2>2 DEF RevokeInv
<1>9. JobInv'
  <2>1. ASSUME NEW a \in Attempts
        PROVE  JobOK(a)'
    <3>1. JobOK(a) /\ (job[a].st = "none" => job'[a] = job[a])
      BY DEF IInv, JobInv, ClusterMove
    <3>2. CASE ~Exists(a)
      BY <1>1, <3>1, <3>2 DEF JobOK, NoJob, Exists
    <3>3. CASE Exists(a)
      BY <1>1, <3>1, <3>3 DEF JobOK, Exists
    <3>4. QED BY <3>2, <3>3
  <2>2. ASSUME NEW w \in Workers, Owner(w)
        PROVE  /\ worker[w].pc = "submit" => obl[worker[w].op][worker[w].num].phase = "dispatching"
               /\ (worker[w].pc = "submit" \/ Early(w)) => job'[Own(w)].st = "none"
    <3>1. Own(w) \in Attempts
      BY <1>2, <2>2, TargetExists DEF Owner
    <3>2. QED BY <2>2, <3>1 DEF IInv, JobInv, ClusterMove
  <2>3. QED BY <1>1, <1>5, <2>1, <2>2 DEF JobInv
<1>10. SeenInv'
  <2>1. SUFFICES ASSUME NEW u \in Workers, Busy(u), NEW m \in 1 .. Len(worker[u].seen),
                        m # worker[u].num, worker[u].seen[m].phase = "preparing"
                 PROVE  /\ job'[<<worker[u].op, m>>].st = "none"
                        /\ \A v \in Workers : Owner(v) /\ Own(v) = <<worker[u].op, m>> =>
                               worker[v].pc # "submit"
    BY <1>1, <1>5 DEF SeenInv, Busy
  <2>2. /\ job[<<worker[u].op, m>>].st = "none"
        /\ \A v \in Workers : Owner(v) /\ Own(v) = <<worker[u].op, m>> => worker[v].pc # "submit"
    BY <2>1 DEF IInv, SeenInv
  <2>3. <<worker[u].op, m>> \in Attempts
    BY <1>2, <2>1, SeenExists
  <2>4. QED BY <2>2, <2>3 DEF ClusterMove
<1>11. ResolvedInv'
  BY <1>1, <1>6 DEF IInv, ResolvedInv, IssuerDone, SecretDone, Exists
<1>12. QED
  BY <1>3, <1>4, <1>7, <1>8, <1>9, <1>10, <1>11 DEF IInv

\* A revision whose status changes is still a revision.
LEMMA SetStatusType ==
    ASSUME ClusterTypes, NEW s \in {"pending", "deployed", "failed"}, SetStatus(s)
    PROVE  history' \in Seq(Revisions)
<1>1. history \in Seq(Revisions) /\ Len(history) \in Nat /\ history \in [1 .. Len(history) -> Revisions]
  BY LenProperties DEF ClusterTypes
<1>2. \A i \in 1 .. Len(history) : [history[i] EXCEPT !.status = s] \in Revisions
  BY <1>1 DEF Revisions
<1>3. history' \in [1 .. Len(history) -> Revisions]
  BY <1>1, <1>2 DEF SetStatus
<1>4. QED BY <1>1, <1>3

\* A creation still in flight arrives, or does not.
LEMMA LateSecretStep == ASSUME IInv, NEW a \in Attempts, LateSecret(a) PROVE IInv'
<1>1. PICK s \in {"present", "none"} : secret' = [secret EXCEPT ![a] = s]
  BY DEF LateSecret
<1>2. TypeOK /\ UNCHANGED <<dbVars, mat, fence, lease, clusterVars, outbox, lock, worker, faults>>
  BY DEF IInv, LateSecret
<1>3. DbTypes' /\ ClusterTypes' /\ CallTypes'
  BY <1>2, SameTypes DEF TypeOK, CallTypes
<1>4. CredentialTypes' /\ ClusterMove
  BY <1>1, <1>2 DEF TypeOK, CredentialTypes, ClusterMove, LateSecret
<1>5. QED BY <1>3, <1>4, ClusterKeeps DEF TypeOK

\* A step of the cluster that changes one Job, and perhaps the release.
LEMMA OneJobKeeps ==
    ASSUME IInv, NEW a \in Attempts, NEW j \in Jobs, job' = [job EXCEPT ![a] = j],
           job[a].st \notin {"none", "done"}, history' \in Seq(Revisions),
           UNCHANGED <<dbVars, credVars, outbox, lock, worker>>, faults' \in 0 .. MaxFaults
    PROVE  IInv'
<1>1. TypeOK
  BY DEF IInv
<1>2. TypeOK'
  <2>1. DbTypes' /\ CredentialTypes'
    BY <1>1, SameTypes DEF TypeOK
  <2>2. ClusterTypes' /\ CallTypes'
    BY <1>1 DEF TypeOK, ClusterTypes, CallTypes
  <2>3. QED BY <2>1, <2>2 DEF TypeOK
<1>3. ClusterMove
  BY <1>1 DEF ClusterMove, TypeOK, ClusterTypes
<1>4. QED BY <1>2, <1>3, ClusterKeeps

\* A Job's next states.
LEMMA JobTypes ==
    ASSUME TypeOK, NEW a \in Attempts
    PROVE  /\ \A st \in {"none", "active", "upgrading"} : [job[a] EXCEPT !.st = st] \in Jobs
           /\ [job[a] EXCEPT !.terminal = TRUE] \in Jobs
           /\ \A e \in {"none", "succeeded", "failed", "partial"} : Ended(e) \in Jobs
           /\ faults \in 0 .. MaxFaults /\ history \in Seq(Revisions) /\ ClusterTypes
BY DEF TypeOK, ClusterTypes, CallTypes, Jobs, Ended

\* What Helm tells of a delivery is one of four things.
LEMMA StatusTypes == \A d : StatusOf(d) \in {"none", "succeeded", "failed", "partial"}
BY DEF StatusOf

\* A Job still in flight arrives, or does not.
LEMMA LateJobStep == ASSUME IInv, NEW a \in Attempts, LateJob(a) PROVE IInv'
<1>1. PICK st \in {"active", "none"} : job' = [job EXCEPT ![a].st = st]
  BY DEF LateJob
<1>2. PICK j \in Jobs : j = [job[a] EXCEPT !.st = st]
  BY JobTypes DEF IInv
<1>3. QED BY <1>1, <1>2, JobTypes, OneJobKeeps DEF LateJob, IInv

\* The upgrade is refused, or recorded as pending.
LEMMA HelmCheckStep == ASSUME IInv, NEW a \in Attempts, HelmCheck(a) PROVE IInv'
<1>1. CASE job' = [job EXCEPT ![a] = Ended("none")] /\ UNCHANGED history
  <2>1. PICK j \in Jobs : j = Ended("none")
    BY JobTypes DEF IInv
  <2>2. QED BY <1>1, <2>1, JobTypes, OneJobKeeps DEF HelmCheck, IInv
<1>2. CASE /\ job' = [job EXCEPT ![a].st = "upgrading"]
           /\ history' = Append(history, [by |-> a, status |-> "pending"])
  <2>1. PICK j \in Jobs : j = [job[a] EXCEPT !.st = "upgrading"]
    BY JobTypes DEF IInv
  <2>2. history' \in Seq(Revisions)
    BY <1>2, JobTypes, AppendProperties DEF IInv, Revisions
  <2>3. QED BY <1>2, <2>1, <2>2, JobTypes, OneJobKeeps DEF HelmCheck, IInv
<1>3. QED BY <1>1, <1>2 DEF HelmCheck

\* The upgrade ends.
LEMMA HelmUpgradedStep == ASSUME IInv, NEW a \in Attempts, HelmUpgraded(a) PROVE IInv'
<1>1. PICK e \in {"succeeded", "failed"}, s \in {"deployed", "failed"} :
         job' = [job EXCEPT ![a] = Ended(e)] /\ SetStatus(s)
  BY DEF HelmUpgraded
<1>2. PICK j \in Jobs : j = Ended(e)
  BY JobTypes DEF IInv
<1>3. history' \in Seq(Revisions)
  BY <1>1, JobTypes, SetStatusType DEF IInv
<1>4. QED BY <1>1, <1>2, <1>3, JobTypes, OneJobKeeps DEF HelmUpgraded, IInv

\* An observing Job ends with what Helm tells.
LEMMA HelmObserveStep == ASSUME IInv, NEW a \in Attempts, HelmObserve(a) PROVE IInv'
<1>1. PICK j \in Jobs : job' = [job EXCEPT ![a] = j]
  BY JobTypes, StatusTypes DEF HelmObserve, IInv
<1>2. QED BY <1>1, JobTypes, OneJobKeeps DEF HelmObserve, IInv

\* A Pod past its deadline is killed.
LEMMA KilledStep == ASSUME IInv, NEW a \in Attempts, Killed(a) PROVE IInv'
<1>1. PICK j \in Jobs : job' = [job EXCEPT ![a] = j]
  BY JobTypes DEF Killed, IInv
<1>2. history' \in Seq(Revisions)
  BY JobTypes, SetStatusType DEF Killed, IInv
<1>3. QED BY <1>1, <1>2, JobTypes, OneJobKeeps DEF Killed, IInv

\* A Job past its deadline is failed while its Pod goes on.
LEMMA DeadlineStep == ASSUME IInv, NEW a \in Attempts, Deadline(a) PROVE IInv'
<1>1. PICK j \in Jobs : j = [job[a] EXCEPT !.terminal = TRUE]
  BY JobTypes DEF IInv
<1>2. faults' \in 0 .. MaxFaults
  <2>1. faults \in 0 .. MaxFaults
    BY JobTypes DEF IInv
  <2>2. faults < MaxFaults /\ faults' = faults + 1
    BY DEF Deadline
  <2>3. QED BY <2>1, <2>2, DeploymentAssumption
<1>3. QED BY <1>1, <1>2, JobTypes, OneJobKeeps DEF Deadline, IInv

\* An event is published.
LEMMA PublishStep == ASSUME IInv, NEW a \in Attempts, Publish(a) PROVE IInv'
<1>1. TypeOK
  BY DEF IInv
<1>2. DbTypes' /\ CredentialTypes' /\ CallTypes'
  BY <1>1, SameTypes DEF Publish, TypeOK, CallTypes
<1>3. ClusterTypes'
  BY <1>1 DEF Publish, TypeOK, ClusterTypes
<1>4. ClusterMove
  BY DEF Publish, ClusterMove
<1>5. QED BY <1>2, <1>3, <1>4, ClusterKeeps DEF TypeOK


-----------------------------------------------------------------------------
(* Requests, approvals, and the start of a call *)

\* Requests and approvals touch only the operation itself.
LEMMA OperationKeeps ==
    ASSUME IInv, UNCHANGED <<att, obl, credVars, clusterVars, outbox, lock, worker, faults>>,
           op' \in [Ops -> OpStates], approved' \in [Ops -> BOOLEAN], EndedInv'
    PROVE  IInv'
<1>1. TypeOK'
  BY DEF IInv, TypeOK, DbTypes, CredentialTypes, ClusterTypes, CallTypes
<1>2. CallInv' /\ OwnerInv' /\ RowInv' /\ CredentialInv' /\ RevokeInv'
  BY DEF IInv, CallInv, CallOK, OwnerInv, RowInv, RowOK, CredentialInv, CredentialOK, RevokeInv,
         RevokeOK, Owner, Busy, Own, Target, Quiet, Early, RevokesOwn, IssuerDone, SecretDone
<1>3. JobInv' /\ SeenInv' /\ ResolvedInv' /\ DeliveryInv'
  BY DEF IInv, JobInv, JobOK, SeenInv, ResolvedInv, DeliveryInv, Owner, Busy, Own, Quiet,
         Early, IssuerDone, SecretDone, Exists
<1>4. QED BY <1>1, <1>2, <1>3 DEF IInv

\* A request has no attempt yet.
LEMMA RequestStep == ASSUME IInv, NEW o \in Ops, Request(o) PROVE IInv'
<1>1. TypeOK /\ EndedInv /\ op[o] = "none" /\ op' = [op EXCEPT ![o] = "pending"]
  BY DEF IInv, Request
<1>2. op' \in [Ops -> OpStates] /\ approved' \in [Ops -> BOOLEAN]
  BY <1>1 DEF TypeOK, DbTypes, OpStates, Request
<1>3. EndedInv'
  BY <1>1 DEF TypeOK, DbTypes, EndedInv, PendingCredentials, Request
<1>4. QED BY <1>2, <1>3, OperationKeeps DEF Request

\* An approval starts nothing.
LEMMA ApproveStep == ASSUME IInv, NEW o \in Ops, Approve(o) PROVE IInv'
<1>1. op' \in [Ops -> OpStates] /\ approved' \in [Ops -> BOOLEAN]
  BY DEF IInv, TypeOK, DbTypes, Approve
<1>2. EndedInv'
  BY DEF IInv, EndedInv, PendingCredentials, Approve
<1>3. QED BY <1>1, <1>2, OperationKeeps DEF Approve

\* A call that takes the lock leaves the others alone: it is about obligations
\* of existing attempts, or about a new attempt of its own.
LEMMA EnterKeeps ==
    ASSUME IInv, TypeOK', NEW w \in Workers, worker[w] = Idle, lock' = w,
           NEW c \in Calls, Becomes(w, c), CallOK(w)',
           c.pc \in {"sweep", "judge", "prepare", "passive"}, c.op \in Ops,
           c.seen = obl'[c.op],
           c.num > 0 => <<c.op, c.num>> \in Attempts /\ ~Exists(<<c.op, c.num>>),
           UNCHANGED <<credVars, clusterVars>>,
           \A a \in Attempts : Exists(a) => Exists(a)' /\ obl'[a[1]][a[2]] = obl[a[1]][a[2]],
           \A a \in Attempts : Exists(a)' =>
               \/ Exists(a)
               \/ /\ c.num > 0 /\ a = <<c.op, c.num>>
                  /\ obl'[a[1]][a[2]].resolved => obl'[a[1]][a[2]].phase = "none",
           \A o \in Ops : Len(obl'[o]) >= Len(obl[o]),
           EndedInv', DeliveryInv'
    PROVE  IInv'
<1>1. /\ TypeOK /\ CallInv /\ OwnerInv /\ RowInv /\ CredentialInv /\ RevokeInv
      /\ JobInv /\ SeenInv /\ ResolvedInv
  BY DEF IInv
<1>2. /\ worker'[w] = c /\ \A v \in Workers : v # w => worker'[v] = worker[v]
      /\ ~Busy(w) /\ worker[w].num = 0 /\ lock' \notin Workers \ {w}
      /\ ~Owner(w)
  BY IdleFields DEF Becomes, Busy, Owner
<1>3. \A v \in Workers : v # w =>
         /\ Busy(v)' = Busy(v) /\ Owner(v)' = Owner(v) /\ Own(v)' = Own(v)
         /\ Early(v)' = Early(v) /\ Target(v)' = Target(v) /\ RevokesOwn(v)' = RevokesOwn(v)
  BY <1>2 DEF Busy, Owner, Own, Early, Target, RevokesOwn
<1>4. /\ c.num \in 0 .. MaxAttempts /\ Busy(w)' /\ (Owner(w)' <=> c.num > 0)
      /\ Own(w)' = <<c.op, c.num>> /\ c.pc \notin Revoking /\ c.pc # "submit"
  BY <1>2, IdleFields DEF Calls, Busy, Owner, Own, Revoking
<1>5. \A v \in Workers : Busy(v) =>
         /\ worker[v].op \in Ops /\ worker[v].num \in Nat
         /\ worker[v].num > 0 => Own(v) \in Attempts /\ Exists(Own(v))
         /\ Len(worker[v].seen) \in Nat
         /\ Len(worker[v].seen) <= Len(obl[worker[v].op])
  BY <1>1, TargetExists, CallFields, LenProperties, DeploymentAssumption
     DEF CallInv, CallOK, TypeOK
<1>6. \A o \in Ops : Len(obl[o]) = Len(att[o]) /\ Len(att[o]) \in Nat
  BY <1>1, LenProperties DEF TypeOK, DbTypes
<1>7. CallInv'
  <2>1. ASSUME NEW v \in Workers, v # w
        PROVE  CallOK(v)'
    <3>1. CallOK(v) /\ Busy(v)' = Busy(v) /\ worker'[v] = worker[v]
      BY <1>1, <1>2, <1>3, <2>1 DEF CallInv
    <3>2. Busy(v) => Len(worker[v].seen) <= Len(obl'[worker[v].op])
      <4>1. CASE Busy(v)
        <5>1. /\ worker[v].op \in Ops /\ Len(worker[v].seen) \in Nat
              /\ Len(worker[v].seen) <= Len(obl[worker[v].op])
          BY <1>5, <4>1
        <5>2. Len(obl'[worker[v].op]) >= Len(obl[worker[v].op]) /\ Len(obl[worker[v].op]) \in Nat
          BY <1>6, <5>1
        <5>3. obl'[worker[v].op] \in Seq(Obligations)
          BY <5>1 DEF TypeOK, DbTypes
        <5>4. Len(obl'[worker[v].op]) \in Nat
          BY <5>3, LenProperties
        <5>5. QED BY <5>1, <5>2, <5>4
      <4>2. QED BY <4>1
    <3>3. QED BY <3>1, <3>2 DEF CallOK
  <2>2. QED BY <2>1 DEF CallInv
<1>8. OwnerInv'
  <2>. SUFFICES ASSUME NEW u \in Workers, NEW v \in Workers, u # v,
                       Owner(u)', Busy(v)', worker'[u].op = worker'[v].op
                PROVE  /\ worker'[u].num # worker'[v].num
                       /\ worker'[u].num <= Len(worker'[v].seen) => lock' # u
    BY DEF OwnerInv
  <2>1. CASE u = w
    <3>1. /\ c.num > 0 /\ Busy(v) /\ worker'[v] = worker[v] /\ worker[v].op = c.op
          /\ c.num > Len(att[c.op])
      BY <1>2, <1>3, <1>4, <2>1 DEF Exists
    <3>2. worker[v].num > 0 => worker[v].num <= Len(att[c.op])
      BY <1>5, <3>1 DEF Own, Exists
    <3>3. Len(worker[v].seen) <= Len(att[c.op]) /\ Len(worker[v].seen) \in Nat
      BY <1>5, <1>6, <3>1
    <3>4. worker[v].num \in Nat /\ c.num \in Nat /\ Len(att[c.op]) \in Nat
      BY <1>4, <1>5, <1>6, <3>1, DeploymentAssumption
    <3>5. QED BY <1>2, <2>1, <3>1, <3>2, <3>3, <3>4
  <2>2. CASE v = w
    <3>1. /\ Owner(u) /\ worker'[u] = worker[u] /\ worker[u].op = c.op /\ Busy(u)
          /\ worker[u].num > 0
      BY <1>2, <1>3, <2>2 DEF Owner
    <3>2. Exists(<<c.op, worker[u].num>>)
      BY <1>5, <3>1 DEF Own
    <3>3. worker[u].num # c.num
      BY <1>4, <3>1, <3>2, DeploymentAssumption
    <3>4. QED BY <1>2, <2>2, <3>1, <3>3
  <2>3. CASE u # w /\ v # w
    BY <1>1, <1>2, <1>3, <2>3 DEF OwnerInv
  <2>4. QED BY <2>1, <2>2, <2>3
<1>9. RowInv'
  BY <1>1 DEF RowInv, RowOK
<1>10. ASSUME NEW a \in Attempts, Exists(a), Quiet(a)
       PROVE  Quiet(a)'
  <2>1. ~(Owner(w)' /\ Own(w)' = a)
    BY <1>4, <1>10
  <2>2. QED BY <1>2, <1>3, <1>10, <2>1 DEF Quiet
<1>11. CredentialInv'
  <2>1. ASSUME NEW v \in Workers, v # w, Owner(v)'
        PROVE  CredentialOK(v)'
    BY <1>1, <1>2, <1>3, <2>1 DEF CredentialInv, CredentialOK
  <2>2. ASSUME Owner(w)'
        PROVE  CredentialOK(w)'
    <3>1. mat[<<c.op, c.num>>] = NoRow
      BY <1>1, <1>4, <2>2 DEF JobInv, JobOK
    <3>2. QED BY <1>2, <1>4, <3>1 DEF CredentialOK, NoRow
  <2>3. QED BY <2>1, <2>2 DEF CredentialInv
<1>12. RevokeInv'
  <2>1. ASSUME NEW v \in Workers, v # w, worker[v].pc \in Revoking
        PROVE  RevokeOK(v)'
    <3>1. /\ Target(v) \in Attempts /\ Exists(Target(v)) /\ RevokeOK(v)
          /\ Target(v)' = Target(v) /\ worker'[v] = worker[v]
      BY <1>2, <1>3, <2>1, RevokingFacts
    <3>2. PICK a \in Attempts : a = Target(v)
      BY <3>1
    <3>3. Quiet(a)'
      BY <1>10, <2>1, <3>1, <3>2 DEF RevokeOK
    <3>4. Target(v)' = a
      BY <3>1, <3>2
    <3>5. QED BY <3>1, <3>2, <3>3, <3>4 DEF RevokeOK, IssuerDone, SecretDone
  <2>2. ASSUME NEW v \in Workers, v # w, worker[v].pc \notin Revoking
        PROVE  RevokeOK(v)'
    BY <1>2, <2>2 DEF RevokeOK, Revoking
  <2>3. RevokeOK(w)'
    BY <1>2, <1>4 DEF RevokeOK, Revoking
  <2>4. QED BY <2>1, <2>2, <2>3 DEF RevokeInv
<1>13. JobInv'
  <2>1. ASSUME NEW a \in Attempts
        PROVE  JobOK(a)'
    <3>1. JobOK(a)
      BY <1>1 DEF JobInv
    <3>2. CASE Exists(a)
      <4>1. Exists(a)' /\ obl'[a[1]][a[2]] = obl[a[1]][a[2]]
        BY <3>2
      <4>2. QED BY <3>1, <3>2, <4>1 DEF JobOK
    <3>3. CASE ~Exists(a)
      BY <3>1, <3>3 DEF JobOK, NoJob
    <3>4. QED BY <3>2, <3>3
  <2>2. ASSUME NEW v \in Workers, v # w, Owner(v)'
        PROVE  /\ worker'[v].pc = "submit" =>
                      obl'[worker'[v].op][worker'[v].num].phase = "dispatching"
               /\ worker'[v].pc = "submit" \/ Early(v)' => job'[Own(v)'].st = "none"
    <3>1. /\ Owner(v) /\ worker'[v] = worker[v] /\ Own(v)' = Own(v) /\ Early(v)' = Early(v)
          /\ Busy(v) /\ worker[v].num > 0
      BY <1>2, <1>3, <2>2 DEF Owner
    <3>2. Own(v) \in Attempts /\ Exists(Own(v))
      BY <1>5, <3>1
    <3>3. obl'[worker[v].op][worker[v].num] = obl[worker[v].op][worker[v].num]
      BY <3>2 DEF Own
    <3>4. QED BY <1>1, <3>1, <3>3 DEF JobInv
  <2>3. Owner(w)' => job'[Own(w)'].st = "none"
    BY <1>1, <1>4 DEF JobInv, JobOK, NoJob
  <2>4. QED BY <1>2, <1>4, <2>1, <2>2, <2>3 DEF JobInv
<1>14. SeenInv'
  <2>. SUFFICES ASSUME NEW u \in Workers, Busy(u)', NEW m \in 1 .. Len(worker'[u].seen),
                       m # worker'[u].num, worker'[u].seen[m].phase = "preparing"
                PROVE  /\ job[<<worker'[u].op, m>>].st = "none"
                       /\ \A v \in Workers : Owner(v)' /\ Own(v)' = <<worker'[u].op, m>> =>
                              worker'[v].pc # "submit"
    BY DEF SeenInv
  <2>1. CASE u # w
    <3>1. /\ Busy(u) /\ worker'[u] = worker[u]
          /\ job[<<worker[u].op, m>>].st = "none"
          /\ \A v \in Workers : Owner(v) /\ Own(v) = <<worker[u].op, m>> => worker[v].pc # "submit"
      BY <1>1, <1>2, <1>3, <2>1 DEF SeenInv
    <3>2. QED BY <1>2, <1>3, <1>4, <3>1
  <2>2. CASE u = w
    <3>1. m \in 1 .. Len(obl'[c.op]) /\ m # c.num /\ obl'[c.op][m].phase = "preparing"
      BY <1>2, <2>2
    <3>2. /\ Len(obl'[c.op]) = Len(att'[c.op]) /\ Len(att'[c.op]) <= MaxAttempts
          /\ obl'[c.op] \in Seq(Obligations)
      BY DEF TypeOK, DbTypes
    <3>3. Len(obl'[c.op]) \in Nat
      BY <3>2, LenProperties
    <3>4. m \in Nums /\ m <= Len(att'[c.op])
      BY <3>1, <3>2, <3>3, DeploymentAssumption DEF Nums
    <3>5. <<c.op, m>> \in Attempts /\ Exists(<<c.op, m>>)'
      BY <3>4 DEF Attempts, Exists
    <3>6. Exists(<<c.op, m>>)
      BY <3>1, <3>5
    <3>7. obl[c.op][m].phase = "preparing"
      BY <3>1, <3>5, <3>6
    <3>8. job[<<c.op, m>>].st = "none"
      BY <1>1, <3>5, <3>7 DEF JobInv, JobOK
    <3>9. ASSUME NEW v \in Workers, Owner(v)', Own(v)' = <<c.op, m>>
          PROVE  worker'[v].pc # "submit"
      <4>1. CASE v = w
        BY <1>2, <1>4, <4>1
      <4>2. CASE v # w
        <5>1. Owner(v) /\ worker[v].op = c.op /\ worker[v].num = m /\ worker'[v] = worker[v]
          BY <1>2, <1>3, <3>9, <4>2 DEF Own
        <5>2. QED BY <1>1, <3>7, <5>1 DEF JobInv
      <4>3. QED BY <4>1, <4>2
    <3>10. QED BY <1>2, <2>2, <3>8, <3>9
  <2>3. QED BY <2>1, <2>2
<1>15. ResolvedInv'
  <2>. SUFFICES ASSUME NEW a \in Attempts, Exists(a)',
                       obl'[a[1]][a[2]].resolved, obl'[a[1]][a[2]].phase # "none"
                PROVE  IssuerDone(a)' /\ SecretDone(a)' /\ Quiet(a)'
    BY DEF ResolvedInv
  <2>1. Exists(a)
    OBVIOUS
  <2>2. obl'[a[1]][a[2]] = obl[a[1]][a[2]]
    BY <2>1
  <2>3. IssuerDone(a) /\ SecretDone(a) /\ Quiet(a)
    BY <1>1, <2>1, <2>2 DEF ResolvedInv
  <2>4. QED BY <1>10, <2>1, <2>3 DEF IssuerDone, SecretDone
<1>16. QED
  BY <1>7, <1>8, <1>9, <1>11, <1>12, <1>13, <1>14, <1>15 DEF IInv

\* The janitor reads the obligations as they are.
LEMMA JanitorStep ==
    ASSUME IInv, NEW w \in Workers, NEW a \in Attempts, Janitor(w, a[1], a[2])
    PROVE  IInv'
<1>1. PICK o \in Ops, n \in Nums : o = a[1] /\ n = a[2] /\ a = <<o, n>>
  BY DEF Attempts
<1>2. /\ worker[w] = Idle /\ lock' = w /\ n <= Len(obl[o]) /\ n \in 1 .. MaxAttempts
      /\ TypeOK /\ EndedInv /\ DeliveryInv
      /\ UNCHANGED <<dbVars, credVars, clusterVars, outbox, faults>>
  BY <1>1 DEF Janitor, IInv, Nums
<1>3. PICK c : c = [Idle EXCEPT !.op = o, !.tgt = n, !.seen = obl[o], !.pc = "judge"]
  OBVIOUS
<1>4. obl[o] \in Seq(Obligations) /\ Len(obl[o]) \in Nat /\ 0 \in 0 .. MaxAttempts
      /\ n \in 0 .. MaxAttempts
  BY <1>2, LenProperties, DeploymentAssumption DEF TypeOK, DbTypes
<1>5. /\ c \in Calls /\ c.pc = "judge" /\ c.op = o /\ c.num = 0 /\ c.tgt = n
      /\ c.seen = obl[o] /\ c.res = "none"
  BY <1>3, <1>4, IdleIsCall DEF Calls, Idle, Steps
<1>6. worker' = [worker EXCEPT ![w] = c]
  BY <1>1, <1>3 DEF Janitor
<1>7. Becomes(w, c)
  BY <1>2, <1>5, <1>6, BecomesCall DEF TypeOK
<1>8. TypeOK'
  BY <1>2, <1>7, SameTypes DEF TypeOK, CallTypes, Becomes
<1>9. CallOK(w)'
  <2>1. worker'[w] = c /\ c # Idle /\ Busy(w)'
    BY <1>5, <1>7, IdleFields DEF Becomes, Busy
  <2>2. QED BY <1>2, <1>4, <1>5, <2>1 DEF CallOK, Revoking
<1>10. \A p \in Ops : Len(obl'[p]) >= Len(obl[p])
  <2>1. \A p \in Ops : Len(obl[p]) \in Nat
    BY <1>2, LenProperties DEF TypeOK, DbTypes
  <2>2. QED BY <1>2, <2>1
<1>11. EndedInv' /\ DeliveryInv'
  BY <1>2 DEF EndedInv, DeliveryInv, PendingCredentials, Exists
<1>12. \A b \in Attempts : Exists(b)' <=> Exists(b)
  BY <1>2 DEF Exists
<1>13. /\ c.pc \in {"sweep", "judge", "prepare", "passive"} /\ c.op \in Ops /\ c \in Calls
       /\ c.seen = obl'[c.op] /\ UNCHANGED <<credVars, clusterVars>>
       /\ c.num > 0 => <<c.op, c.num>> \in Attempts /\ ~Exists(<<c.op, c.num>>)
  BY <1>2, <1>5
<1>14. /\ \A b \in Attempts : Exists(b) => Exists(b)' /\ obl'[b[1]][b[2]] = obl[b[1]][b[2]]
       /\ \A b \in Attempts : Exists(b)' =>
             \/ Exists(b)
             \/ /\ c.num > 0 /\ b = <<c.op, c.num>>
                /\ obl'[b[1]][b[2]].resolved => obl'[b[1]][b[2]].phase = "none"
  BY <1>2, <1>12
<1>15. QED
  BY <1>2, <1>7, <1>8, <1>9, <1>10, <1>11, <1>13, <1>14, EnterKeeps

\* The attempts of one operation are counted among all of them.
LEMMA RoomForOne ==
    ASSUME TypeOK, TotalAttempts < MaxAttempts, NEW o \in Ops
    PROVE  Len(att[o]) < MaxAttempts
<1>. DEFINE Used == {a \in Attempts : a[2] <= Len(att[a[1]])}
            f == [k \in Nums |-> <<o, k>>]
<1>1. Len(att[o]) \in Nat /\ Len(att[o]) <= MaxAttempts /\ MaxAttempts \in Nat
  BY LenProperties, DeploymentAssumption DEF TypeOK, DbTypes
<1>2. SUFFICES ASSUME Len(att[o]) = MaxAttempts
               PROVE  FALSE
  BY <1>1
<1>3. IsFiniteSet(Nums) /\ Cardinality(Nums) = MaxAttempts
  BY <1>1, FS_Interval DEF Nums
<1>4. IsFiniteSet(Attempts)
  BY <1>3, DeploymentAssumption, FS_Product DEF Attempts
<1>5. IsFiniteSet(Used) /\ Cardinality(Used) \in Nat
  BY <1>4, FS_Subset, FS_CardinalityType
<1>6. f \in Injection(Nums, Used)
  BY <1>1, <1>2 DEF Injection, IsInjective, Attempts, Nums
<1>7. MaxAttempts <= Cardinality(Used)
  BY <1>3, <1>5, <1>6, FS_Injection
<1>8. QED BY <1>1, <1>5, <1>7 DEF TotalAttempts

\* The attempts as a call of this kind leaves them
Interrupted(o, kind) ==
    [n \in 1 .. Len(att[o]) |-> IF kind # "execute" /\ att[o][n].state = "running"
                                THEN [att[o][n] EXCEPT !.state = "uncertain"]
                                ELSE att[o][n]]

\* Interrupting the attempts that still run keeps their number and their kinds.
LEMMA InterruptedAttempts ==
    ASSUME DbTypes, NEW o \in Ops, NEW kind
    PROVE  LET s == Interrupted(o, kind)
           IN  /\ s \in Seq(AttemptRows) /\ Len(s) = Len(att[o])
               /\ \A m \in 1 .. Len(att[o]) : s[m].kind = att[o][m].kind
<1>1. PICK k, s : k = Len(att[o]) /\ s = Interrupted(o, kind)
  OBVIOUS
<1>2. k \in Nat /\ att[o] \in [1 .. k -> AttemptRows]
  BY <1>1, LenProperties DEF DbTypes
<1>3. \A m \in 1 .. k : s[m] = (IF kind # "execute" /\ att[o][m].state = "running"
                               THEN [att[o][m] EXCEPT !.state = "uncertain"]
                               ELSE att[o][m])
  BY <1>1 DEF Interrupted
<1>4. ASSUME NEW m \in 1 .. k
      PROVE  s[m] \in AttemptRows /\ s[m].kind = att[o][m].kind
  <2>1. att[o][m] \in AttemptRows
    BY <1>2
  <2>2. \A e \in AttemptRows : /\ [e EXCEPT !.state = "uncertain"] \in AttemptRows
                               /\ [e EXCEPT !.state = "uncertain"].kind = e.kind
    BY DEF AttemptRows, OpStates
  <2>3. QED BY <1>3, <2>1, <2>2
<1>5. s \in [1 .. k -> AttemptRows]
  BY <1>1, <1>4 DEF Interrupted
<1>6. s \in Seq(AttemptRows)
  BY <1>2, <1>5
<1>7. Len(s) = k
  BY <1>2, <1>5, <1>6, LenProperties
<1>8. QED BY <1>1, <1>4, <1>6, <1>7

\* A new attempt is numbered after all others of its operation, and is a
\* delivery only if no other delivery is open.
LEMMA BeginStep ==
    ASSUME IInv, NEW w \in Workers, NEW o \in Ops, NEW kind \in Kinds, Begin(w, o, kind)
    PROVE  IInv'
<1>1. /\ TypeOK /\ DbTypes /\ CallTypes /\ EndedInv /\ DeliveryInv
      /\ worker[w] = Idle /\ lock' = w /\ TotalAttempts < MaxAttempts /\ ~Blocked(o)
      /\ kind = "execute" => ~PendingCredentials(o)
      /\ op' = [op EXCEPT ![o] = "running"]
      /\ UNCHANGED <<approved, credVars, clusterVars, outbox, faults>>
  BY DEF IInv, TypeOK, Begin
<1>2. PICK k, n : k = Len(att[o]) /\ n = Len(att[o]) + 1
  OBVIOUS
<1>3. /\ k \in Nat /\ k = Len(obl[o]) /\ obl[o] \in Seq(Obligations) /\ n = k + 1
      /\ n \in Nums /\ n \in 0 .. MaxAttempts /\ 0 \in 0 .. MaxAttempts
  <2>1. Len(att[o]) < MaxAttempts
    BY <1>1, RoomForOne
  <2>2. /\ Len(att[o]) \in Nat /\ Len(att[o]) = Len(obl[o]) /\ obl[o] \in Seq(Obligations)
    BY <1>1, LenProperties DEF DbTypes
  <2>3. QED BY <1>2, <2>1, <2>2, DeploymentAssumption DEF Nums
<1>4. PICK s : s = Interrupted(o, kind)
  OBVIOUS
<1>5. s \in Seq(AttemptRows) /\ Len(s) = k /\ \A m \in 1 .. k : s[m].kind = att[o][m].kind
  BY <1>1, <1>2, <1>4, InterruptedAttempts
<1>6. PICK r, b : /\ r = [kind |-> kind, state |-> "running", ext |-> FALSE]
                  /\ b = IF kind = "recover" THEN NoObligation
                         ELSE [phase |-> "preparing", resolved |-> FALSE]
  OBVIOUS
<1>7. /\ r \in AttemptRows /\ r.kind = kind /\ b \in Obligations
      /\ kind = "recover" => b.phase = "none" /\ b.resolved
      /\ kind # "recover" => b.phase = "preparing" /\ ~b.resolved
  BY <1>6 DEF AttemptRows, OpStates, Kinds, Obligations, NoObligation
<1>8. PICK as, bs : as = Append(s, r) /\ bs = Append(obl[o], b)
  OBVIOUS
<1>9. /\ as \in Seq(AttemptRows) /\ Len(as) = n
      /\ \A m \in 1 .. k : as[m] = s[m]
      /\ as[n] = r
  BY <1>3, <1>5, <1>7, <1>8, AppendProperties
<1>10. /\ bs \in Seq(Obligations) /\ Len(bs) = n
       /\ \A m \in 1 .. k : bs[m] = obl[o][m]
       /\ bs[n] = b
  BY <1>3, <1>7, <1>8, AppendProperties
<1>11. att' = [att EXCEPT ![o] = as] /\ obl' = [obl EXCEPT ![o] = bs]
  BY <1>4, <1>6, <1>8 DEF Begin, Interrupted
<1>12. obl'[o] = bs
  BY <1>1, <1>11 DEF DbTypes
<1>13. PICK c : c = [Idle EXCEPT !.op = o, !.num = n, !.seen = bs,
                        !.pc = CASE kind = "execute" -> "prepare"
                                 [] kind = "observe" -> "sweep"
                                 [] kind = "recover" -> "passive"]
  OBVIOUS
<1>14. /\ c \in Calls /\ c.pc \in {"sweep", "prepare", "passive"} /\ c.op = o /\ c.num = n
       /\ c.tgt = 0 /\ c.seen = bs /\ c.res = "none"
  BY <1>3, <1>10, <1>13, IdleIsCall DEF Calls, Idle, Steps, Kinds
<1>15. worker' = [worker EXCEPT ![w] = c]
  BY <1>2, <1>12, <1>13 DEF Begin
<1>16. Becomes(w, c)
  BY <1>1, <1>14, <1>15, BecomesCall
<1>17. /\ \A p \in Ops : p # o => att'[p] = att[p] /\ obl'[p] = obl[p] /\ op'[p] = op[p]
       /\ att'[o] = as /\ obl'[o] = bs /\ op'[o] = "running"
  BY <1>1, <1>11 DEF DbTypes
<1>18. TypeOK'
  <2>1. DbTypes'
    <3>1. att' \in [Ops -> Seq(AttemptRows)] /\ obl' \in [Ops -> Seq(Obligations)]
      BY <1>1, <1>9, <1>10, <1>11 DEF DbTypes
    <3>2. op' \in [Ops -> OpStates] /\ approved' \in [Ops -> BOOLEAN]
      BY <1>1 DEF DbTypes, OpStates
    <3>3. \A p \in Ops : Len(att'[p]) <= MaxAttempts /\ Len(obl'[p]) = Len(att'[p])
      <4>1. n <= MaxAttempts
        BY <1>3, DeploymentAssumption
      <4>2. ASSUME NEW p \in Ops, p # o
            PROVE  Len(att'[p]) <= MaxAttempts /\ Len(obl'[p]) = Len(att'[p])
        BY <1>1, <1>17, <4>2 DEF DbTypes
      <4>3. QED BY <1>9, <1>10, <1>17, <4>1, <4>2
    <3>4. QED BY <3>1, <3>2, <3>3 DEF DbTypes
  <2>2. CredentialTypes' /\ ClusterTypes' /\ CallTypes'
    BY <1>1, <1>16, SameTypes DEF TypeOK, CallTypes, Becomes
  <2>3. QED BY <2>1, <2>2 DEF TypeOK
<1>19. CallOK(w)'
  <2>1. worker'[w] = c /\ c # Idle /\ Busy(w)'
    BY <1>14, <1>16, IdleFields DEF Becomes, Busy
  <2>2. n > 0 /\ n \in Nat
    BY <1>3
  <2>3. QED BY <1>10, <1>14, <1>17, <2>1, <2>2 DEF CallOK, Revoking
<1>20. \A a \in Attempts : a[1] \in Ops /\ a[2] \in Nat /\ a[2] > 0 /\ a = <<a[1], a[2]>>
  BY DeploymentAssumption DEF Attempts, Nums
<1>21. ASSUME NEW a \in Attempts, Exists(a)
       PROVE  /\ Exists(a)' /\ obl'[a[1]][a[2]] = obl[a[1]][a[2]]
              /\ att'[a[1]][a[2]].kind = att[a[1]][a[2]].kind
  <2>1. CASE a[1] # o
    BY <1>17, <1>20, <1>21, <2>1 DEF Exists
  <2>2. CASE a[1] = o
    <3>1. a[2] \in 1 .. k
      <4>1. a[2] <= k /\ a[2] \in Nat /\ a[2] > 0
        BY <1>2, <1>20, <1>21, <2>2 DEF Exists
      <4>2. QED BY <1>3, <4>1
    <3>2. a[2] <= n
      BY <1>3, <3>1
    <3>3. QED BY <1>5, <1>9, <1>10, <1>17, <1>2, <2>2, <3>1, <3>2 DEF Exists
  <2>3. QED BY <2>1, <2>2
<1>22. ASSUME NEW a \in Attempts, Exists(a)', ~Exists(a)
       PROVE  /\ a = <<o, n>> /\ obl'[a[1]][a[2]] = b /\ att'[a[1]][a[2]] = r
  <2>1. a[1] = o
    BY <1>17, <1>20, <1>22 DEF Exists
  <2>2. a[2] <= n /\ ~(a[2] <= k)
    BY <1>2, <1>9, <1>17, <1>22, <2>1 DEF Exists
  <2>3. a[2] = n
    BY <1>3, <1>20, <2>2
  <2>4. QED BY <1>9, <1>10, <1>17, <1>20, <2>1, <2>3
<1>23. EndedInv'
  <2>1. ASSUME NEW p \in Ops, p # o
        PROVE  PendingCredentials(p)' = PendingCredentials(p)
    BY <1>17, <2>1 DEF PendingCredentials
  <2>2. QED BY <1>1, <1>17, <2>1 DEF EndedInv
<1>24. DeliveryInv'
  <2>1. ASSUME NEW a \in Attempts, Exists(a)'
        PROVE  /\ att'[a[1]][a[2]].kind = "recover" <=> obl'[a[1]][a[2]].phase = "none"
               /\ obl'[a[1]][a[2]].phase = "none" => obl'[a[1]][a[2]].resolved
    <3>1. CASE Exists(a)
      BY <1>1, <1>21, <3>1 DEF DeliveryInv
    <3>2. CASE ~Exists(a)
      BY <1>7, <1>22, <2>1, <3>2
    <3>3. QED BY <3>1, <3>2
  <2>2. ASSUME kind = "execute", NEW a \in Attempts, Exists(a), ~obl[a[1]][a[2]].resolved
        PROVE  FALSE
    <3>1. a[1] \in Ops /\ a[2] \in 1 .. Len(obl[a[1]])
      BY <1>1, <2>2, ExistsFields
    <3>2. PendingCredentials(a[1])
      BY <2>2, <3>1 DEF PendingCredentials
    <3>3. QED BY <1>1, <2>2, <3>1, <3>2 DEF Blocked
  <2>3. ASSUME NEW a \in Attempts, Exists(a)', att'[a[1]][a[2]].kind = "execute",
               ~obl'[a[1]][a[2]].resolved,
               NEW d \in Attempts, Exists(d)', att'[d[1]][d[2]].kind = "execute",
               ~obl'[d[1]][d[2]].resolved
        PROVE  a = d
    <3>1. CASE kind = "execute"
      <4>1. ~Exists(a) /\ ~Exists(d)
        BY <1>21, <2>2, <2>3, <3>1
      <4>2. QED BY <1>22, <2>3, <4>1
    <3>2. CASE kind # "execute"
      <4>1. Exists(a) /\ Exists(d)
        BY <1>7, <1>22, <2>3, <3>2
      <4>2. QED BY <1>1, <1>21, <2>3, <4>1 DEF DeliveryInv
    <3>3. QED BY <3>1, <3>2
  <2>4. QED BY <2>1, <2>3 DEF DeliveryInv
<1>25. \A p \in Ops : Len(obl'[p]) >= Len(obl[p])
  <2>1. \A p \in Ops : Len(obl[p]) \in Nat
    BY <1>1, LenProperties DEF DbTypes
  <2>2. QED BY <1>3, <1>10, <1>17, <2>1
<1>26. /\ c.pc \in {"sweep", "judge", "prepare", "passive"} /\ c.op \in Ops /\ c \in Calls
       /\ c.seen = obl'[c.op] /\ UNCHANGED <<credVars, clusterVars>>
  BY <1>1, <1>14, <1>17
<1>27. c.num > 0 => <<c.op, c.num>> \in Attempts /\ ~Exists(<<c.op, c.num>>)
  <2>1. <<o, n>> \in Attempts
    BY <1>3 DEF Attempts
  <2>2. ~(n <= k)
    BY <1>3
  <2>3. ~Exists(<<o, n>>)
    BY <1>2, <2>2 DEF Exists
  <2>4. QED BY <1>14, <2>1, <2>3
<1>28. /\ \A a \in Attempts : Exists(a) => Exists(a)' /\ obl'[a[1]][a[2]] = obl[a[1]][a[2]]
       /\ \A a \in Attempts : Exists(a)' =>
             \/ Exists(a)
             \/ /\ c.num > 0 /\ a = <<c.op, c.num>>
                /\ obl'[a[1]][a[2]].resolved => obl'[a[1]][a[2]].phase = "none"
  <2>1. c.num > 0 /\ (b.resolved => b.phase = "none")
    BY <1>3, <1>7, <1>14
  <2>2. QED BY <1>14, <1>21, <1>22, <2>1
<1>29. QED
  BY <1>1, <1>16, <1>18, <1>19, <1>23, <1>24, <1>25, <1>26, <1>27, <1>28, EnterKeeps

-----------------------------------------------------------------------------
(* The invariant, and what it says *)

\* Before anything is requested nothing is owed to anybody.
LEMMA InitKeeps == ASSUME Init PROVE IInv
<1>1. TypeOK
  <2>1. NoRow \in Materializations /\ NoJob \in Jobs /\ 0 \in 0 .. MaxFaults
    BY DeploymentAssumption DEF NoRow, Materializations, RowPhases, NoJob, Jobs
  <2>2. CredentialTypes /\ CallTypes
    BY <2>1, IdleIsCall DEF Init, CredentialTypes, CallTypes
  <2>3. <<>> \in Seq(Revisions) /\ <<>> \in Seq(AttemptRows) /\ <<>> \in Seq(Obligations)
        /\ Len(<<>>) = 0
    OBVIOUS
  <2>4. ClusterTypes
    BY <2>1, <2>3 DEF Init, ClusterTypes
  <2>5. DbTypes
    BY <2>3, DeploymentAssumption DEF Init, DbTypes, OpStates
  <2>6. QED BY <2>2, <2>4, <2>5 DEF TypeOK
<1>2. \A w \in Workers : /\ worker[w] = Idle /\ worker[w].pc = "idle" /\ ~Busy(w) /\ ~Owner(w)
                         /\ worker[w].pc \notin Revoking
  BY IdleFields DEF Init, Busy, Owner, Revoking
<1>3. \A a \in Attempts : /\ ~Exists(a) /\ mat[a] = NoRow /\ job[a] = NoJob
                          /\ secret[a] = "none"
  <2>1. \A a \in Attempts : a[1] \in Ops /\ a[2] > 0 /\ a[2] \in Nat
    BY DeploymentAssumption DEF Attempts, Nums
  <2>2. QED BY <2>1 DEF Init, Exists
<1>4. CallInv /\ RevokeInv
  BY <1>2 DEF CallInv, CallOK, RevokeInv, RevokeOK, Revoking
<1>5. OwnerInv /\ CredentialInv /\ SeenInv
  BY <1>2 DEF OwnerInv, CredentialInv, SeenInv
<1>6. RowInv
  BY <1>3 DEF RowInv, RowOK, NoRow
<1>7. JobInv
  BY <1>2, <1>3 DEF JobInv, JobOK, NoJob
<1>8. ResolvedInv /\ DeliveryInv
  BY <1>3 DEF ResolvedInv, DeliveryInv
<1>9. EndedInv
  BY DEF Init, EndedInv
<1>10. QED BY <1>1, <1>4, <1>5, <1>6, <1>7, <1>8, <1>9 DEF IInv

\* A step that changes nothing keeps the invariant.
LEMMA StutterKeeps == ASSUME IInv, UNCHANGED vars PROVE IInv'
<1>1. op' \in [Ops -> OpStates] /\ approved' \in [Ops -> BOOLEAN]
  BY DEF IInv, TypeOK, DbTypes, vars
<1>2. EndedInv'
  BY SameOperations DEF IInv, vars
<1>3. QED BY <1>1, <1>2, OperationKeeps DEF vars

\* Every step keeps it.
LEMMA NextKeeps == ASSUME IInv, [Next]_vars PROVE IInv'
<1>1. ASSUME NEW o \in Ops, Request(o) \/ Approve(o) PROVE IInv'
  BY <1>1, RequestStep, ApproveStep
<1>2. ASSUME NEW w \in Workers, NEW o \in Ops, NEW kind \in Kinds, Begin(w, o, kind) PROVE IInv'
  BY <1>2, BeginStep
<1>3. CASE Clean
  BY <1>3, JanitorStep DEF Clean
<1>4. ASSUME NEW w \in Workers, Continue(w) PROVE IInv'
  <2>1. CASE Sweep(w) \/ Judge(w) \/ Uncovered(w) \/ Prepare(w) \/ Reserve(w) \/ Issue(w)
    BY <2>1, SweepStep, JudgeStep, UncoveredStep, PrepareStep, ReserveStep, IssueStep
  <2>2. CASE MarkCreating(w) \/ CreateSecret(w) \/ RecordSecret(w) \/ MarkDispatching(w)
    BY <2>2, MarkCreatingStep, CreateSecretStep, RecordSecretStep, MarkDispatchingStep
  <2>3. CASE SubmitJob(w) \/ Watch(w) \/ ObserveExisting(w) \/ CloseRow(w)
    BY <2>3, SubmitJobStep, WatchStep, ObserveExistingStep, CloseRowStep
  <2>4. CASE RevokeIssuer(w) \/ RemoveSecret(w) \/ Resolve(w) \/ Finish(w)
    BY <2>4, RevokeIssuerStep, RemoveSecretStep, ResolveStep, FinishStep
  <2>5. QED BY <1>4, <2>1, <2>2, <2>3, <2>4 DEF Continue
<1>5. ASSUME NEW w \in Workers, GiveUp(w) \/ Crash(w) \/ LoseSession(w) PROVE IInv'
  BY <1>5, GiveUpStep, CrashStep, LoseSessionStep
<1>6. ASSUME NEW a \in Attempts, ClusterStep(a) PROVE IInv'
  BY <1>6, LateSecretStep, LateJobStep, HelmCheckStep, HelmUpgradedStep, HelmObserveStep, KilledStep
     DEF ClusterStep
<1>7. ASSUME NEW a \in Attempts, Deadline(a) \/ Publish(a) PROVE IInv'
  BY <1>7, DeadlineStep, PublishStep
<1>8. QED
  BY <1>1, <1>2, <1>3, <1>4, <1>5, <1>6, <1>7, StutterKeeps DEF Next

\* The invariant holds in every reachable state.
LEMMA Invariance == Spec => []IInv
<1>1. Init => IInv
  BY InitKeeps
<1>2. IInv /\ [Next]_vars => IInv'
  BY NextKeeps
<1>3. QED BY <1>1, <1>2, PTL DEF Spec

\* Only the states of types.go are ever stored, and every attempt has its
\* obligation (start inserts both).
THEOREM TypeCorrect == Spec => []TypeOK
<1>1. IInv => TypeOK
  BY DEF IInv
<1>2. QED BY <1>1, Invariance, PTL

\* An attempt whose Job runs, or may still start, has a dispatched obligation
\* that nobody has resolved.
LEMMA WorkingIsOpen ==
    ASSUME IInv, NEW a \in Attempts, Working(a)
    PROVE  Exists(a) /\ ~obl[a[1]][a[2]].resolved
<1>1. Exists(a) /\ obl[a[1]][a[2]].phase = "dispatching"
  BY DEF IInv, JobInv, JobOK, Working
<1>2. ~Quiet(a)
  BY DEF Quiet, Working
<1>3. QED BY <1>1, <1>2 DEF IInv, ResolvedInv

\* At most one delivery Job of the destination runs or may still start, whatever
\* calls outlive their lock and whatever replies are lost (start, run).
THEOREM DeliversAlone == Spec => []OneDeliverer
<1>1. IInv => OneDeliverer
  BY WorkingIsOpen DEF OneDeliverer, IInv, DeliveryInv
<1>2. QED BY <1>1, Invariance, PTL

\* An operation reported failed or succeeded has no Job that runs or may still
\* start (execute, finish).
THEOREM SettledStaysQuiet == Spec => []SettledIsQuiet
<1>1. ASSUME IInv, NEW a \in Attempts, Working(a),
             op[a[1]] \in {"none", "pending", "failed", "succeeded"}
      PROVE  FALSE
  <2>1. Exists(a) /\ ~obl[a[1]][a[2]].resolved
    BY <1>1, WorkingIsOpen
  <2>2. a[1] \in Ops /\ a[2] \in 1 .. Len(att[a[1]]) /\ a[2] \in 1 .. Len(obl[a[1]])
    BY <1>1, <2>1, ExistsFields DEF IInv, TypeOK
  <2>3. PendingCredentials(a[1])
    BY <2>1, <2>2 DEF PendingCredentials
  <2>4. Len(att[a[1]]) = 0
    BY <1>1, <2>2, <2>3 DEF IInv, EndedInv
  <2>5. QED BY <2>2, <2>4
<1>2. IInv => SettledIsQuiet
  BY <1>1 DEF SettledIsQuiet
<1>3. QED BY <1>2, Invariance, PTL

\* A resolved obligation is final: the issuer is fenced and holds nothing, the
\* Secret is gone for good, and no executor runs or may still start
\* (credentialJournal.update after Revoke).
THEOREM ResolvedStaysFenced == Spec => []ResolvedIsFenced
<1>1. ASSUME IInv, NEW o \in Ops, NEW n \in 1 .. Len(obl[o]),
             obl[o][n].resolved, obl[o][n].phase # "none"
      PROVE  /\ fence[<<o, n>>]
             /\ lease[<<o, n>>] \in {"none", "revoked"}
             /\ secret[<<o, n>>] \notin {"present", "inflight"}
             /\ ~Working(<<o, n>>)
  <2>1. Len(obl[o]) = Len(att[o]) /\ Len(att[o]) \in Nat /\ Len(att[o]) <= MaxAttempts
    BY <1>1, LenProperties DEF IInv, TypeOK, DbTypes
  <2>2. n \in Nums /\ n <= Len(att[o])
    BY <2>1, DeploymentAssumption DEF Nums
  <2>3. PICK a \in Attempts : a = <<o, n>>
    BY <2>2 DEF Attempts
  <2>4. IssuerDone(a) /\ SecretDone(a) /\ Quiet(a) /\ RowOK(a)
    BY <1>1, <2>2, <2>3 DEF IInv, ResolvedInv, RowInv, Exists
  <2>5. QED BY <2>3, <2>4 DEF IssuerDone, SecretDone, Quiet, RowOK, Working
<1>2. IInv => ResolvedIsFenced
  BY <1>1 DEF ResolvedIsFenced
<1>3. QED BY <1>2, Invariance, PTL

-----------------------------------------------------------------------------
(* The history of the release *)

Begun(o) == op[o] \notin {"none", "pending"}

\* Whatever began before the newest operation that began has ended.
OrderInv == \A o, p \in Ops : Begun(o) /\ Begun(p) /\ o < p => op[o] \in {"failed", "succeeded"}

\* The first attempt is a delivery, only the last one is unfinished, and a
\* delivery is attempted when all earlier obligations are resolved.
AttemptInv ==
    \A o \in Ops :
        /\ Begun(o) => Len(att[o]) > 0
        /\ Len(att[o]) > 0 => att[o][1].kind = "execute"
        /\ \A n \in 1 .. Len(att[o]) :
              /\ att[o][n].state = "running" =>
                    n = Len(att[o]) /\ ~att[o][n].ext /\ op[o] = "running"
              /\ att[o][n].kind = "execute" => \A m \in 1 .. n - 1 : obl[o][m].resolved

\* A revision of the release is recorded by a delivery whose Job was made, and
\* is pending until that Job ends.
RevisionInv ==
    /\ \A i \in 1 .. Len(history) :
          LET a == history[i].by
          IN  Exists(a) /\ att[a[1]][a[2]].kind = "execute" /\ job[a].st \in {"upgrading", "done"}
    /\ \A a \in Attempts : job[a].st = "upgrading" =>
          /\ Exists(a) /\ att[a[1]][a[2]].kind = "execute"
          /\ history # <<>> /\ history[Len(history)] = [by |-> a, status |-> "pending"]

\* The release carries what attempt n of o is about.
Delivered(o, n) ==
    \E i \in 1 .. Len(history) :
        history[i] = [by |-> <<o, LatestDelivery(o, n)>>, status |-> "deployed"]

EvidenceInv == \A a \in Attempts : job[a].evidence = "succeeded" => Delivered(a[1], a[2])

\* A delivery that follows a revision of its operation knows of it.
RetryInv ==
    \A o \in Ops : \A n \in 1 .. Len(att[o]) : \A i \in 1 .. Len(history) :
        att[o][n].kind = "execute" /\ history[i].by[1] = o /\ history[i].by[2] < n =>
            \E k \in 1 .. n - 1 : att[o][k].ext

\* An operation that failed after it had touched the release says so.
FailedInv ==
    \A o \in Ops : \A i \in 1 .. Len(history) :
        op[o] = "failed" /\ history[i].by[1] = o => \E k \in 1 .. Len(att[o]) : att[o][k].ext

\* The call has its result.
AtEnd(w) ==
    worker[w].pc = "finish" \/ (worker[w].pc \in Revoking /\ worker[w].tgt = worker[w].num)

\* What a call is going to report is true: a success was deployed, and what
\* failed without evidence was never dispatched.
VerdictOK(w) ==
    LET c == worker[w] IN
    /\ c.res = "succeeded" => Delivered(c.op, c.num)
    /\ c.res = "failed" /\ ~c.ext => obl[c.op][LatestDelivery(c.op, c.num)].phase = "preparing"
    /\ c.res # "none" => AtEnd(w)

VerdictInv == \A w \in Workers : Owner(w) => VerdictOK(w)

\* What a call has not announced is not announced, and what it read as not yet
\* announced never is.
PhaseOK(w) ==
    LET c == worker[w] IN
    /\ Owner(w) /\ Early(w) => obl[c.op][c.num].phase = "preparing"
    /\ Owner(w) /\ c.pc = "passive" => obl[c.op][c.num].phase = "none"
    /\ \A m \in 1 .. Len(c.seen) : m # c.num /\ c.seen[m].phase = "preparing" =>
           obl[c.op][m].phase = "preparing"

PhaseInv == \A w \in Workers : Busy(w) => PhaseOK(w)

HInv ==
    /\ OrderInv /\ AttemptInv /\ RevisionInv /\ EvidenceInv /\ RetryInv /\ FailedInv
    /\ VerdictInv /\ PhaseInv /\ NeverRollsBack /\ SuccessIsDeployed

-----------------------------------------------------------------------------
(* Deliveries of an operation *)

\* A bounded set of numbers has a greatest one.
LEMMA MaxExists ==
    ASSUME NEW n \in Nat, NEW S \in SUBSET (1 .. n), S # {}
    PROVE  \E m \in S : \A k \in S : k <= m
<1>. DEFINE T == {n - k : k \in S}
<1>1. T \in SUBSET Nat
  OBVIOUS
<1>2. T # {}
  OBVIOUS
<1>3. PICK t \in T : \A u \in T : t <= u
  BY <1>1, <1>2, MinExists
<1>4. PICK m \in S : t = n - m
  BY <1>3
<1>5. ASSUME NEW k \in S PROVE k <= m
  <2>1. n - k \in T
    OBVIOUS
  <2>2. t <= n - k /\ m \in 1 .. n /\ k \in 1 .. n
    BY <1>3, <2>1
  <2>3. QED BY <1>4, <2>2
<1>6. QED BY <1>5

\* The latest delivery up to attempt n is one, and no later one is.
LEMMA LatestFacts ==
    ASSUME DbTypes, AttemptInv, NEW o \in Ops, NEW n \in 1 .. Len(att[o])
    PROVE  /\ LatestDelivery(o, n) \in 1 .. n
           /\ att[o][LatestDelivery(o, n)].kind = "execute"
           /\ \A m \in 1 .. n : att[o][m].kind = "execute" => m <= LatestDelivery(o, n)
<1>. DEFINE D == {m \in 1 .. n : att[o][m].kind = "execute"}
<1>1. Len(att[o]) \in Nat /\ n \in Nat /\ 1 \in 1 .. n /\ Len(att[o]) > 0
  BY LenProperties DEF DbTypes
<1>2. 1 \in D /\ D \in SUBSET (1 .. n)
  BY <1>1 DEF AttemptInv
<1>3. \E m \in D : \A k \in D : k <= m
  BY <1>1, <1>2, MaxExists
<1>4. PICK m : m = CHOOSE l \in D : \A k \in D : k <= l
  OBVIOUS
<1>5. m \in D /\ \A k \in D : k <= m
  BY <1>3, <1>4
<1>6. LatestDelivery(o, n) = m
  BY <1>2, <1>4 DEF LatestDelivery
<1>7. QED BY <1>5, <1>6

\* A delivery is its own latest one.
LEMMA DeliveryIsLatest ==
    ASSUME DbTypes, AttemptInv, NEW o \in Ops, NEW n \in 1 .. Len(att[o]),
           att[o][n].kind = "execute"
    PROVE  LatestDelivery(o, n) = n
<1>1. LatestDelivery(o, n) \in 1 .. n /\ n <= LatestDelivery(o, n) /\ n \in Nat
  BY LatestFacts, LenProperties DEF DbTypes
<1>2. QED BY <1>1

\* Which delivery is the latest depends on the kinds of attempts only.
LEMMA LatestKept ==
    ASSUME NEW o, NEW n, \A m \in 1 .. n : att'[o][m].kind = att[o][m].kind
    PROVE  LatestDelivery(o, n)' = LatestDelivery(o, n)
<1>1. PICK D : D = {m \in 1 .. n : att[o][m].kind = "execute"}
  OBVIOUS
<1>2. D = {m \in 1 .. n : att'[o][m].kind = "execute"}
  BY <1>1
<1>3. LatestDelivery(o, n) = IF D = {} THEN 0 ELSE CHOOSE m \in D : \A k \in D : k <= m
  BY <1>1 DEF LatestDelivery
<1>4. LatestDelivery(o, n)' = IF D = {} THEN 0 ELSE CHOOSE m \in D : \A k \in D : k <= m
  BY <1>2 DEF LatestDelivery
<1>5. QED BY <1>3, <1>4

\* What belongs to an attempt that exists.
LEMMA RevisionFacts ==
    ASSUME TypeOK, RevisionInv, NEW i \in 1 .. Len(history)
    PROVE  /\ history[i] \in Revisions /\ history[i].by \in Attempts
           /\ history[i].by[1] \in Ops
           /\ Exists(history[i].by)
           /\ history[i].by[2] \in 1 .. Len(att[history[i].by[1]])
           /\ history[i].by = <<history[i].by[1], history[i].by[2]>>
<1>1. history[i] \in Revisions
  BY ElementOfSeq DEF TypeOK, ClusterTypes
<1>2. history[i].by \in Attempts
  BY <1>1 DEF Revisions
<1>3. Exists(history[i].by)
  BY DEF RevisionInv
<1>4. history[i].by = <<history[i].by[1], history[i].by[2]>>
  BY <1>2 DEF Attempts
<1>5. QED BY <1>1, <1>2, <1>3, <1>4, ExistsFields DEF TypeOK

-----------------------------------------------------------------------------
(* What a step of a call may do to the history *)

\* The call announces the Job of its own attempt.
Announces(w) == Owner(w) /\ worker[w].pc = "dispatch" /\ lock = w /\ worker'[w].pc = "submit"

\* No obligation changes its phase unless its call announces the Job, and none
\* is opened again.
PhaseMove(w) ==
    \A o \in Ops : \A n \in 1 .. Len(obl[o]) :
        /\ obl[o][n].resolved => obl'[o][n].resolved
        /\ obl'[o][n].phase = obl[o][n].phase \/ (Announces(w) /\ Own(w) = <<o, n>>)

\* No Job starts an upgrade, leaves one, or comes back, and none succeeds.
JobAdvances ==
    \A a \in Attempts :
        /\ job'[a].evidence = "succeeded" => job[a].evidence = "succeeded"
        /\ job[a].st \in {"upgrading", "done"} => job'[a].st = job[a].st
        /\ job'[a].st = "upgrading" => job[a].st = "upgrading"

\* The call ends, or goes on about the same attempt and finds a result it can
\* vouch for.
Reports(w) ==
    /\ \A v \in Workers : v # w => worker'[v] = worker[v]
    /\ \/ worker'[w] = Idle
       \/ /\ Busy(w)
          /\ worker'[w].op = worker[w].op /\ worker'[w].num = worker[w].num
          /\ Len(worker'[w].seen) = Len(worker[w].seen)
          /\ \A m \in 1 .. Len(worker[w].seen) :
                 worker'[w].seen[m].phase = worker[w].seen[m].phase
          /\ Early(w)' => Early(w)
          /\ worker'[w].pc = "passive" => worker[w].pc = "passive"
          /\ Owner(w) =>
                \/ /\ worker'[w].res = worker[w].res /\ worker'[w].ext = worker[w].ext
                   /\ worker[w].res # "none" => AtEnd(w)'
                \/ worker'[w].res = "uncertain" /\ AtEnd(w)'
                \/ VerdictOK(w)'

\* A step of a call that writes no outcome.
LEMMA CallKeepsHistory ==
    ASSUME IInv, HInv, NEW w \in Workers, PhaseMove(w), JobAdvances, Reports(w),
           UNCHANGED <<op, att, history, outbox>>
    PROVE  HInv'
<1>1. /\ TypeOK /\ DbTypes /\ CallInv /\ OwnerInv
      /\ OrderInv /\ AttemptInv /\ RevisionInv /\ EvidenceInv /\ RetryInv /\ FailedInv
      /\ VerdictInv /\ PhaseInv /\ NeverRollsBack /\ SuccessIsDeployed
  BY DEF IInv, HInv, TypeOK
<1>2. OrderInv' /\ RetryInv' /\ FailedInv' /\ NeverRollsBack' /\ SuccessIsDeployed'
  <2>1. OrderInv'
    BY <1>1 DEF OrderInv, Begun
  <2>2. RetryInv' /\ FailedInv'
    BY <1>1 DEF RetryInv, FailedInv
  <2>3. NeverRollsBack'
    BY <1>1 DEF NeverRollsBack
  <2>4. \A o, n : LatestDelivery(o, n)' = LatestDelivery(o, n)
    BY DEF LatestDelivery
  <2>5. SuccessIsDeployed'
    BY <1>1, <2>4 DEF SuccessIsDeployed
  <2>6. QED BY <2>1, <2>2, <2>3, <2>5
<1>3. \A o \in Ops : Len(obl[o]) = Len(att[o]) /\ Len(att[o]) \in Nat
  BY <1>1, LenProperties DEF DbTypes
<1>4. AttemptInv'
  <2>1. ASSUME NEW o \in Ops, NEW n \in 1 .. Len(att[o]), att[o][n].kind = "execute",
               NEW m \in 1 .. n - 1
        PROVE  obl'[o][m].resolved
    <3>1. obl[o][m].resolved /\ m \in 1 .. Len(obl[o])
      BY <1>1, <1>3, <2>1 DEF AttemptInv
    <3>2. QED BY <3>1 DEF PhaseMove
  <2>2. QED BY <1>1, <2>1 DEF AttemptInv, Begun
<1>5. RevisionInv'
  <2>1. ASSUME NEW i \in 1 .. Len(history)
        PROVE  job'[history[i].by].st \in {"upgrading", "done"}
    <3>1. PICK a \in Attempts : a = history[i].by
      BY <1>1, RevisionFacts
    <3>2. job[a].st \in {"upgrading", "done"}
      BY <1>1, <3>1 DEF RevisionInv
    <3>3. QED BY <3>1, <3>2 DEF JobAdvances
  <2>2. QED BY <1>1, <2>1 DEF RevisionInv, Exists, JobAdvances
<1>6. \A o, n : LatestDelivery(o, n)' = LatestDelivery(o, n)
  BY DEF LatestDelivery
<1>7. \A o, n : Delivered(o, n) => Delivered(o, n)'
  BY <1>6 DEF Delivered
<1>8. EvidenceInv'
  BY <1>1, <1>7 DEF EvidenceInv, JobAdvances
<1>9. ASSUME NEW v \in Workers, Busy(v)'
      PROVE  /\ Busy(v) /\ worker'[v].op = worker[v].op /\ worker'[v].num = worker[v].num
             /\ Len(worker'[v].seen) = Len(worker[v].seen)
             /\ \A m \in 1 .. Len(worker[v].seen) :
                    worker'[v].seen[m].phase = worker[v].seen[m].phase
             /\ Early(v)' => Early(v)
             /\ worker'[v].pc = "passive" => worker[v].pc = "passive"
             /\ Owner(v)' <=> Owner(v)
             /\ v # w => worker'[v] = worker[v]
  BY <1>9, IdleFields DEF Reports, Busy, Owner, Early
\* Nobody announces what another call has read, or is about.
<1>10. ASSUME NEW v \in Workers, Busy(v), NEW m, Own(w) = <<worker[v].op, m>>, Announces(w),
              v # w
       PROVE  m # worker[v].num /\ ~(m <= Len(worker[v].seen))
  BY <1>1, <1>10 DEF OwnerInv, Announces, Own
<1>11. ASSUME NEW v \in Workers, Busy(v)'
       PROVE  PhaseOK(v)'
  <2>1. PhaseOK(v) /\ Busy(v) /\ worker[v].op \in Ops /\ CallOK(v)
    BY <1>1, <1>9, <1>11, TargetExists DEF PhaseInv, CallInv
  <2>2. ASSUME Owner(v), Early(v)' \/ worker'[v].pc = "passive"
        PROVE  obl'[worker[v].op][worker[v].num].phase = obl[worker[v].op][worker[v].num].phase
    <3>1. worker[v].num \in 1 .. Len(obl[worker[v].op])
      BY <1>1, <2>1, <2>2, TargetExists DEF Owner
    <3>2. ~(Announces(w) /\ Own(w) = <<worker[v].op, worker[v].num>>)
      <4>1. CASE v = w
        BY <2>2, <4>1 DEF Announces, Early, Revoking
      <4>2. CASE v # w
        BY <1>10, <2>1, <4>2
      <4>3. QED BY <4>1, <4>2
    <3>3. QED BY <2>1, <3>1, <3>2 DEF PhaseMove
  <2>3. ASSUME NEW m \in 1 .. Len(worker[v].seen), m # worker[v].num,
               worker[v].seen[m].phase = "preparing"
        PROVE  obl'[worker[v].op][m].phase = "preparing"
    <3>1. obl[worker[v].op][m].phase = "preparing"
      BY <2>1, <2>3 DEF PhaseOK
    <3>2. m \in 1 .. Len(obl[worker[v].op])
      BY <1>1, <2>1, <2>3, SeenExists
    <3>3. ~(Announces(w) /\ Own(w) = <<worker[v].op, m>>)
      <4>1. CASE v = w
        BY <2>3, <4>1 DEF Own
      <4>2. CASE v # w
        <5>1. m <= Len(worker[v].seen)
          BY <1>1, <2>1, <2>3, CallFields, LenProperties DEF TypeOK
        <5>2. QED BY <1>10, <2>1, <4>2, <5>1
      <4>3. QED BY <4>1, <4>2
    <3>4. QED BY <2>1, <3>1, <3>2, <3>3 DEF PhaseMove
  <2>4. QED BY <1>9, <1>11, <2>1, <2>2, <2>3 DEF PhaseOK
<1>12. ASSUME NEW v \in Workers, Owner(v)', worker'[v].res = worker[v].res,
              worker'[v].ext = worker[v].ext, worker[v].res # "none" => AtEnd(v)'
       PROVE  VerdictOK(v)'
  <2>1. /\ Busy(v) /\ Owner(v) /\ VerdictOK(v) /\ worker'[v].op = worker[v].op
        /\ worker'[v].num = worker[v].num
        /\ worker[v].op \in Ops /\ worker[v].num \in 1 .. Len(att[worker[v].op]) /\ CallOK(v)
    BY <1>1, <1>3, <1>9, <1>12, TargetExists DEF VerdictInv, Owner, CallInv
  <2>2. PICK d \in 1 .. worker[v].num : d = LatestDelivery(worker[v].op, worker[v].num)
    BY <1>1, <2>1, LatestFacts
  <2>3. ASSUME worker[v].res = "failed", ~worker[v].ext
        PROVE  obl'[worker[v].op][d].phase = "preparing"
    <3>1. obl[worker[v].op][d].phase = "preparing"
      BY <2>1, <2>2, <2>3 DEF VerdictOK
    <3>2. d \in 1 .. Len(obl[worker[v].op])
      BY <1>3, <2>1, <2>2
    <3>3. ~(Announces(w) /\ Own(w) = <<worker[v].op, d>>)
      <4>1. CASE v = w
        BY <2>1, <2>3, <4>1 DEF Announces, VerdictOK, AtEnd, Revoking
      <4>2. CASE v # w
        <5>1. d <= Len(worker[v].seen)
          BY <1>1, <1>3, <2>1, <2>2, CallFields, LenProperties DEF TypeOK, CallOK
        <5>2. QED BY <1>10, <2>1, <4>2, <5>1
      <4>3. QED BY <4>1, <4>2
    <3>4. QED BY <2>1, <3>1, <3>2, <3>3 DEF PhaseMove
  <2>4. QED BY <1>6, <1>7, <1>12, <2>1, <2>2, <2>3 DEF VerdictOK
<1>13. ASSUME NEW v \in Workers, Owner(v)'
       PROVE  VerdictOK(v)'
  <2>1. Owner(v) /\ Busy(v)' /\ VerdictOK(v)
    BY <1>1, <1>9, <1>13 DEF Owner, VerdictInv
  <2>2. CASE v # w
    <3>1. worker'[v] = worker[v]
      BY <2>2 DEF Reports
    <3>2. worker[v].res # "none" => AtEnd(v)'
      BY <2>1, <3>1 DEF VerdictOK, AtEnd
    <3>3. QED BY <1>12, <1>13, <3>1, <3>2
  <2>3. CASE v = w
    <3>1. worker'[w] # Idle
      BY <2>1, <2>3, IdleFields DEF Busy
    <3>2. CASE worker'[w].res = "uncertain" /\ AtEnd(w)'
      BY <2>3, <3>2 DEF VerdictOK
    <3>3. QED BY <1>12, <1>13, <2>1, <2>3, <3>1, <3>2 DEF Reports
  <2>4. QED BY <2>2, <2>3
<1>14. VerdictInv' /\ PhaseInv'
  BY <1>11, <1>13 DEF VerdictInv, PhaseInv
<1>15. QED
  BY <1>2, <1>4, <1>5, <1>8, <1>14 DEF HInv

\* A step that leaves the obligations, or the Jobs, alone.
LEMMA SamePhases == ASSUME UNCHANGED obl, NEW w \in Workers PROVE PhaseMove(w)
BY DEF PhaseMove

\* A step that leaves the Jobs alone.
LEMMA SameEvidence == ASSUME UNCHANGED job PROVE JobAdvances
BY DEF JobAdvances

EarlySteps == {"sweep", "judge", "prepare", "reserve", "issue", "creating",
               "create", "record", "dispatch"}

\* The call goes on as c.
LEMMA BecomesReports ==
    ASSUME NEW w \in Workers, NEW c, Becomes(w, c), Busy(w),
           c.op = worker[w].op, c.num = worker[w].num,
           Len(c.seen) = Len(worker[w].seen),
           \A m \in 1 .. Len(worker[w].seen) : c.seen[m].phase = worker[w].seen[m].phase,
           c.pc # "passive", c.pc \in EarlySteps => Early(w),
           c.pc \in Revoking /\ c.tgt # c.num => Early(w),
           Owner(w) =>
              \/ /\ c.res = worker[w].res /\ c.ext = worker[w].ext
                 /\ worker[w].res # "none" =>
                       c.pc = "finish" \/ (c.pc \in Revoking /\ c.tgt = c.num)
              \/ c.res = "uncertain" /\ (c.pc = "finish" \/ (c.pc \in Revoking /\ c.tgt = c.num))
              \/ VerdictOK(w)'
    PROVE  Reports(w)
<1>1. worker'[w] = c /\ \A v \in Workers : v # w => worker'[v] = worker[v]
  BY DEF Becomes
<1>2. Early(w)' => Early(w)
  BY <1>1 DEF Early, EarlySteps
<1>3. (c.pc = "finish" \/ (c.pc \in Revoking /\ c.tgt = c.num)) => AtEnd(w)'
  BY <1>1 DEF AtEnd
<1>4. QED BY <1>1, <1>2, <1>3 DEF Reports

\* The call goes to another step.
LEMMA GoToReports ==
    ASSUME IInv, HInv, NEW w \in Workers, Busy(w), NEW pc \in Steps, GoTo(w, pc),
           pc # "passive", pc \in EarlySteps => Early(w),
           pc \in Revoking /\ worker[w].tgt # worker[w].num => Early(w),
           worker[w].pc \in Revoking /\ worker[w].tgt = worker[w].num => pc \in Revoking,
           worker[w].pc # "finish"
    PROVE  Reports(w)
<1>1. PICK c : c = [worker[w] EXCEPT !.pc = pc]
  OBVIOUS
<1>2. Becomes(w, c)
  BY <1>1, GoToBecomes DEF IInv, TypeOK
<1>3. /\ c.op = worker[w].op /\ c.num = worker[w].num /\ c.seen = worker[w].seen
      /\ c.pc = pc /\ c.tgt = worker[w].tgt /\ c.res = worker[w].res /\ c.ext = worker[w].ext
  BY <1>1, CallFields, StepFields DEF IInv, TypeOK
<1>4. ASSUME Owner(w), worker[w].res # "none"
      PROVE  c.pc \in Revoking /\ c.tgt = c.num
  BY <1>3, <1>4 DEF HInv, VerdictInv, VerdictOK, AtEnd
<1>5. QED BY <1>2, <1>3, <1>4, BecomesReports

\* A call that has announced nothing may say that it failed.
LEMMA CompensateReports ==
    ASSUME IInv, HInv, NEW w \in Workers, Owner(w), UNCHANGED <<att, obl>>,
           NEW res \in {"failed", "uncertain"}, Compensate(w, res),
           res = "failed" => Early(w)
    PROVE  Reports(w)
<1>1. CallTypes /\ DbTypes /\ TypeOK /\ CallInv /\ AttemptInv /\ PhaseOK(w) /\ Busy(w)
  BY DEF IInv, TypeOK, HInv, PhaseInv, Owner
<1>2. PICK c : c = Compensated(w, res)
  OBVIOUS
<1>3. Becomes(w, c) /\ worker'[w] = c
  BY <1>1, <1>2, CompensateBecomes DEF Becomes
<1>4. /\ c.pc = "close" /\ c.op = worker[w].op /\ c.num = worker[w].num /\ c.tgt = c.num
      /\ c.seen = worker[w].seen
  BY <1>1, <1>2, CompensatedFields
<1>5. /\ worker[w].op \in Ops /\ worker[w].num \in 1 .. Len(att[worker[w].op])
      /\ Own(w) \in Attempts /\ Exists(Own(w))
  BY <1>1, TargetExists DEF Owner, DbTypes
<1>6. c.res = IF att[worker[w].op][worker[w].num].kind = "observe" THEN "uncertain" ELSE res
  BY <1>1, <1>2, CallFields DEF Compensated, Calls
<1>7. CASE c.res = "uncertain"
  BY <1>1, <1>3, <1>4, <1>7, BecomesReports DEF EarlySteps, Revoking
<1>8. CASE c.res # "uncertain"
  <2>1. c.res = "failed" /\ res = "failed" /\ att[worker[w].op][worker[w].num].kind # "observe"
    BY <1>6, <1>8
  <2>2. obl[worker[w].op][worker[w].num].phase = "preparing"
    BY <1>1, <2>1 DEF PhaseOK
  <2>3. att[worker[w].op][worker[w].num].kind # "recover"
    BY <1>5, <2>2 DEF IInv, DeliveryInv, Own
  <2>4. att[worker[w].op][worker[w].num] \in AttemptRows
    BY <1>1, <1>5, ElementOfSeq DEF DbTypes
  <2>5. att[worker[w].op][worker[w].num].kind = "execute"
    BY <2>1, <2>3, <2>4 DEF AttemptRows, Kinds
  <2>6. LatestDelivery(c.op, c.num) = c.num
    BY <1>1, <1>4, <1>5, <2>5, DeliveryIsLatest
  <2>7. LatestDelivery(c.op, c.num)' = LatestDelivery(c.op, c.num)
    BY <1>1 DEF LatestDelivery
  <2>8. VerdictOK(w)'
    BY <1>3, <1>4, <2>1, <2>2, <2>6, <2>7 DEF VerdictOK, AtEnd, Revoking
  <2>9. QED BY <1>1, <1>3, <1>4, <2>8, BecomesReports DEF EarlySteps, Revoking
<1>9. QED BY <1>7, <1>8

\* A call that ends reports nothing.
LEMMA LeaveReports ==
    ASSUME IInv, NEW w \in Workers, Leave(w)
    PROVE  Reports(w)
BY LeaveBecomes DEF IInv, TypeOK, Reports, Becomes

\* A call at a step past its start is about an attempt of its own, or is at
\* somebody else's.
LEMMA OwnerAt ==
    ASSUME IInv, NEW w \in Workers, worker[w].pc \in Steps \ {"idle"}
    PROVE  /\ Busy(w) /\ CallOK(w)
           /\ worker[w].pc \notin {"judge"} \cup Revoking => Owner(w)
BY DEF IInv, CallInv, CallOK, Busy, Owner

\* The steps before the Job is announced.
LEMMA PreparationHistory ==
    ASSUME IInv, HInv, NEW w \in Workers,
           Uncovered(w) \/ Prepare(w) \/ Reserve(w) \/ Issue(w) \/ MarkCreating(w)
               \/ CreateSecret(w) \/ RecordSecret(w)
    PROVE  HInv'
<1>1. /\ worker[w].pc \in {"prepare", "reserve", "issue", "creating", "create", "record"}
      /\ UNCHANGED <<dbVars, clusterVars, outbox>>
  BY DEF Uncovered, Prepare, Reserve, Issue, MarkCreating, CreateSecret, RecordSecret
<1>2. Owner(w) /\ Busy(w) /\ Early(w)
  BY <1>1, OwnerAt DEF Steps, Revoking, Early
<1>3. \/ Compensate(w, "failed") \/ Compensate(w, "uncertain")
      \/ \E pc \in {"reserve", "issue", "creating", "create", "record", "dispatch"} : GoTo(w, pc)
  BY DEF Uncovered, Prepare, Reserve, Issue, MarkCreating, CreateSecret, RecordSecret
<1>4. Reports(w)
  <2>1. ASSUME NEW pc \in {"reserve", "issue", "creating", "create", "record", "dispatch"},
               GoTo(w, pc)
        PROVE  Reports(w)
    BY <1>1, <1>2, <2>1, GoToReports DEF Steps, EarlySteps, Revoking
  <2>2. QED BY <1>1, <1>2, <1>3, <2>1, CompensateReports
<1>5. PhaseMove(w) /\ JobAdvances
  BY <1>1, SamePhases, SameEvidence
<1>6. QED BY <1>1, <1>4, <1>5, CallKeepsHistory

\* The announcement, the Job, and a call that stops watching it.
LEMMA SubmissionHistory ==
    ASSUME IInv, HInv, NEW w \in Workers, MarkDispatching(w) \/ SubmitJob(w) \/ GiveUp(w)
    PROVE  HInv'
<1>1. worker[w].pc \in {"dispatch", "submit", "prepare", "watch"} /\ UNCHANGED <<op, att, history, outbox>>
  BY DEF MarkDispatching, SubmitJob, GiveUp
<1>2. Owner(w) /\ Busy(w) /\ CallOK(w) /\ CallTypes /\ DbTypes /\ TypeOK /\ CallInv
  BY <1>1, OwnerAt DEF Steps, Revoking, IInv, TypeOK
<1>. DEFINE reported == [worker[w] EXCEPT !.pc = "finish", !.res = "uncertain"]
<1>3. ASSUME worker' = [worker EXCEPT ![w] = reported]
      PROVE  Reports(w)
  <2>1. PICK c \in Calls : c = reported
    BY <1>2, CallFields DEF Calls, Steps
  <2>2. /\ c.pc = "finish" /\ c.op = worker[w].op /\ c.num = worker[w].num
        /\ c.seen = worker[w].seen /\ c.res = "uncertain"
    BY <1>2, <2>1, CallFields DEF Calls
  <2>3. Becomes(w, c)
    BY <1>2, <1>3, <2>1, BecomesCall
  <2>4. QED BY <1>2, <2>2, <2>3, BecomesReports DEF EarlySteps, Revoking
<1>. HIDE DEF reported
<1>4. CASE MarkDispatching(w)
  <2>1. JobAdvances /\ worker[w].pc = "dispatch"
    BY <1>4, SameEvidence DEF MarkDispatching
  <2>2. CASE lock = w /\ ~obl[worker[w].op][worker[w].num].resolved
    <3>1. /\ obl' = [obl EXCEPT ![worker[w].op][worker[w].num].phase = "dispatching"]
          /\ GoTo(w, "submit") /\ lock = w
      BY <1>4, <2>2 DEF MarkDispatching
    <3>2. Reports(w)
      BY <1>2, <2>1, <3>1, GoToReports DEF Steps, EarlySteps, Revoking
    <3>3. worker'[w].pc = "submit"
      BY <1>2, <3>1, CallFields DEF GoTo, CallTypes, Calls
    <3>4. Announces(w)
      BY <1>2, <2>1, <3>1, <3>3 DEF Announces
    <3>5. PhaseMove(w)
      <4>1. ASSUME NEW o \in Ops, NEW n \in 1 .. Len(obl[o])
            PROVE  /\ obl[o][n].resolved => obl'[o][n].resolved
                   /\ obl'[o][n].phase = obl[o][n].phase \/ Own(w) = <<o, n>>
        <5>1. PICK p, k : p = worker[w].op /\ k = worker[w].num
          OBVIOUS
        <5>2. obl' = [obl EXCEPT ![p][k].phase = "dispatching"] /\ Own(w) = <<p, k>>
          BY <3>1, <5>1 DEF Own
        <5>3. obl[o] \in Seq(Obligations) /\ obl[o][n] \in Obligations
          BY <1>2, ElementOfSeq DEF DbTypes
        <5>4. CASE <<o, n>> # <<p, k>>
          BY <1>2, <5>2, <5>3, <5>4 DEF DbTypes
        <5>5. CASE o = p /\ n = k
          <6>1. obl'[o][n] = [obl[o][n] EXCEPT !.phase = "dispatching"]
            BY <1>2, <5>2, <5>3, <5>5, LenProperties DEF DbTypes
          <6>2. QED BY <5>2, <5>3, <5>5, <6>1 DEF Obligations
        <5>6. QED BY <5>4, <5>5
      <4>2. QED BY <3>4, <4>1 DEF PhaseMove
    <3>6. QED BY <1>1, <2>1, <3>2, <3>5, CallKeepsHistory
  <2>3. CASE ~(lock = w /\ ~obl[worker[w].op][worker[w].num].resolved)
    <3>1. Compensate(w, "uncertain") /\ UNCHANGED obl
      BY <1>4, <2>3 DEF MarkDispatching
    <3>2. Reports(w) /\ PhaseMove(w)
      BY <1>1, <1>2, <3>1, CompensateReports, SamePhases
    <3>3. QED BY <1>1, <2>1, <3>2, CallKeepsHistory
  <2>4. QED BY <2>2, <2>3
<1>5. CASE SubmitJob(w)
  <2>1. PhaseMove(w) /\ worker[w].pc = "submit"
    BY <1>5, SamePhases DEF SubmitJob
  <2>2. job[Own(w)].st = "none" /\ Own(w) \in Attempts
    BY <1>2, <2>1, TargetExists DEF IInv, JobInv, Owner
  <2>3. PICK a \in Attempts : a = Own(w)
    BY <2>2
  <2>4. PICK st \in {"active", "inflight"} : job' = [job EXCEPT ![a].st = st]
    BY <1>5, <2>3 DEF SubmitJob
  <2>5. job[a].st = "none" /\ job'[a] = [job[a] EXCEPT !.st = st]
        /\ \A b \in Attempts : b # a => job'[b] = job[b]
    BY <1>2, <2>2, <2>3, <2>4 DEF TypeOK, ClusterTypes
  <2>6. job[a] \in Jobs
    BY <1>2 DEF TypeOK, ClusterTypes
  <2>7. JobAdvances
    BY <2>5, <2>6 DEF JobAdvances, Jobs
  <2>8. GoTo(w, "watch") \/ worker' = [worker EXCEPT ![w] = reported]
    BY <1>5 DEF SubmitJob, GoTo, reported
  <2>9. Reports(w)
    BY <1>2, <1>3, <2>1, <2>8, GoToReports DEF Steps, EarlySteps, Revoking
  <2>10. QED BY <1>1, <2>1, <2>7, <2>9, CallKeepsHistory
<1>6. CASE GiveUp(w)
  <2>1. UNCHANGED <<obl, job>> /\ worker' = [worker EXCEPT ![w] = reported]
    BY <1>6 DEF GiveUp, reported
  <2>2. QED BY <1>1, <1>3, <2>1, SamePhases, SameEvidence, CallKeepsHistory
<1>7. QED BY <1>4, <1>5, <1>6

\* What a call read as stopped was never announced.
LEMMA StoppedIsPreparing ==
    ASSUME IInv, HInv, NEW w \in Workers, Owner(w), Early(w) \/ worker[w].pc = "passive",
           PreparationStopped(worker[w].op, worker[w].num, worker[w].seen)
    PROVE  obl[worker[w].op][LatestDelivery(worker[w].op, worker[w].num)].phase = "preparing"
<1>1. /\ TypeOK /\ DbTypes /\ CallTypes /\ CallInv /\ AttemptInv /\ PhaseOK(w) /\ Busy(w)
      /\ CallOK(w)
  BY DEF IInv, TypeOK, HInv, PhaseInv, Owner, CallInv
<1>2. /\ worker[w].op \in Ops /\ worker[w].num \in 1 .. Len(att[worker[w].op])
      /\ Own(w) \in Attempts /\ Exists(Own(w))
  BY <1>1, TargetExists DEF Owner, DbTypes
<1>3. PICK d \in 1 .. worker[w].num : d = LatestDelivery(worker[w].op, worker[w].num)
  BY <1>1, <1>2, LatestFacts
<1>4. worker[w].seen[d].phase = "preparing"
  BY <1>3 DEF PreparationStopped
<1>5. d \in 1 .. Len(worker[w].seen)
  BY <1>1, <1>2, <1>3, CallFields, LenProperties DEF CallOK
<1>6. CASE d # worker[w].num
  BY <1>1, <1>3, <1>4, <1>5, <1>6 DEF PhaseOK
<1>7. CASE d = worker[w].num
  <2>1. att[worker[w].op][worker[w].num].kind = "execute"
    BY <1>1, <1>2, <1>3, <1>7, LatestFacts
  <2>2. obl[worker[w].op][worker[w].num].phase # "none"
    BY <1>2, <2>1 DEF IInv, DeliveryInv, Own
  <2>3. QED BY <1>1, <1>3, <1>7, <2>2 DEF PhaseOK
<1>8. QED BY <1>6, <1>7

\* The sweep over earlier obligations.
LEMMA SweepHistory == ASSUME IInv, HInv, NEW w \in Workers, Sweep(w) PROVE HInv'
<1>1. worker[w].pc = "sweep" /\ UNCHANGED <<dbVars, clusterVars, outbox>>
  BY DEF Sweep
<1>2. Owner(w) /\ Busy(w) /\ Early(w) /\ CallTypes
  BY <1>1, OwnerAt DEF Steps, Revoking, Early, IInv, TypeOK
<1>3. PICK m : m = NextObligation(w)
  OBVIOUS
<1>4. PICK c : worker' = [worker EXCEPT ![w] = c] /\
               \/ m > 0 /\ c = [worker[w] EXCEPT !.pc = "judge", !.tgt = m]
               \/ /\ PreparationStopped(worker[w].op, worker[w].num, worker[w].seen)
                  /\ c = [worker[w] EXCEPT !.pc = "close", !.tgt = worker[w].num, !.res = "failed"]
               \/ c = [worker[w] EXCEPT !.pc = "prepare"]
  BY <1>3 DEF Sweep
<1>5. /\ c.op = worker[w].op /\ c.num = worker[w].num /\ c.seen = worker[w].seen
      /\ c.ext = worker[w].ext
      /\ \/ c.pc \in {"judge", "prepare"} /\ c.res = worker[w].res
         \/ /\ PreparationStopped(worker[w].op, worker[w].num, worker[w].seen)
            /\ c.pc = "close" /\ c.tgt = c.num /\ c.res = "failed"
  <2>1. worker[w] \in Calls
    BY <1>2 DEF CallTypes
  <2>2. CASE c = [worker[w] EXCEPT !.pc = "judge", !.tgt = m]
    BY <2>1, <2>2 DEF Calls
  <2>3. CASE /\ PreparationStopped(worker[w].op, worker[w].num, worker[w].seen)
             /\ c = [worker[w] EXCEPT !.pc = "close", !.tgt = worker[w].num, !.res = "failed"]
    BY <2>1, <2>3 DEF Calls
  <2>4. CASE c = [worker[w] EXCEPT !.pc = "prepare"]
    BY <2>1, <2>4 DEF Calls
  <2>5. QED BY <1>4, <2>2, <2>3, <2>4
<1>6. Becomes(w, c) /\ worker'[w] = c
  <2>1. \A v \in Workers : v # w => worker'[v] = worker[v]
    BY <1>2, <1>4 DEF CallTypes
  <2>2. worker'[w] = c
    BY <1>2, <1>4 DEF CallTypes
  <2>3. worker' \in [Workers -> Calls]
    BY SweepStep DEF IInv, TypeOK, CallTypes
  <2>4. QED BY <2>1, <2>2, <2>3 DEF Becomes
<1>7. ASSUME c.res = worker[w].res PROVE worker[w].res = "none"
  BY <1>1, <1>2 DEF HInv, VerdictInv, VerdictOK, AtEnd, Revoking
<1>8. CASE c.pc \in {"judge", "prepare"} /\ c.res = worker[w].res
  <2>1. Reports(w)
    BY <1>2, <1>5, <1>6, <1>7, <1>8, BecomesReports DEF Revoking, EarlySteps
  <2>2. QED BY <1>1, <2>1, SamePhases, SameEvidence, CallKeepsHistory
<1>9. CASE /\ PreparationStopped(worker[w].op, worker[w].num, worker[w].seen)
           /\ c.pc = "close" /\ c.tgt = c.num /\ c.res = "failed"
  <2>1. LatestDelivery(c.op, c.num)' = LatestDelivery(c.op, c.num)
    BY <1>1 DEF LatestDelivery
  <2>2. VerdictOK(w)'
    BY <1>1, <1>2, <1>5, <1>6, <1>9, <2>1, StoppedIsPreparing DEF VerdictOK, AtEnd, Revoking
  <2>3. Reports(w)
    BY <1>2, <1>5, <1>6, <1>9, <2>2, BecomesReports DEF Revoking, EarlySteps
  <2>4. QED BY <1>1, <2>3, SamePhases, SameEvidence, CallKeepsHistory
<1>10. QED BY <1>5, <1>8, <1>9

\* A Job that is found was announced already, so the mark changes no phase.
LEMMA JudgeHistory == ASSUME IInv, HInv, NEW w \in Workers, Judge(w) PROVE HInv'
<1>1. worker[w].pc = "judge" /\ UNCHANGED <<op, att, history, job, outbox>>
  BY DEF Judge
<1>2. /\ Busy(w) /\ CallOK(w) /\ Early(w) /\ TypeOK /\ DbTypes
      /\ Target(w) \in Attempts /\ Exists(Target(w))
  BY <1>1, OwnerAt, TargetExists DEF Steps, Early, IInv, TypeOK, CallOK, CallInv
<1>3. PICK a \in Attempts : a = Target(w)
  BY <1>2
<1>4. \/ UNCHANGED obl
      \/ JobFound(a) /\ obl' = [obl EXCEPT ![a[1]][a[2]].phase = "dispatching"]
  BY <1>3 DEF Judge
<1>5. PhaseMove(w)
  <2>1. CASE JobFound(a) /\ obl' = [obl EXCEPT ![a[1]][a[2]].phase = "dispatching"]
    <3>1. obl[a[1]][a[2]].phase = "dispatching"
      BY <2>1 DEF IInv, JobInv, JobOK, JobFound
    <3>2. a[1] \in Ops /\ a[2] \in 1 .. Len(obl[a[1]]) /\ obl[a[1]][a[2]] \in Obligations
      BY <1>2, <1>3, ExistsFields
    <3>3. obl' = obl
      <4>1. [obl[a[1]][a[2]] EXCEPT !.phase = "dispatching"] = obl[a[1]][a[2]]
        BY <3>1, <3>2 DEF Obligations
      <4>2. [obl[a[1]] EXCEPT ![a[2]] = obl[a[1]][a[2]]] = obl[a[1]]
        BY <1>2, <3>2, LenProperties DEF DbTypes
      <4>3. [obl EXCEPT ![a[1]] = obl[a[1]]] = obl
        BY <1>2, <3>2 DEF DbTypes
      <4>4. [obl EXCEPT ![a[1]][a[2]].phase = "dispatching"] =
               [obl EXCEPT ![a[1]] = [obl[a[1]] EXCEPT ![a[2]] =
                   [obl[a[1]][a[2]] EXCEPT !.phase = "dispatching"]]]
        OBVIOUS
      <4>5. QED BY <2>1, <4>1, <4>2, <4>3, <4>4
    <3>4. QED BY <3>3, SamePhases
  <2>2. QED BY <1>4, <2>1, SamePhases
<1>6. GoTo(w, "close") \/ GoTo(w, "sweep") \/ Leave(w)
  BY DEF Judge, GoTo
<1>7. Reports(w)
  BY <1>1, <1>2, <1>6, GoToReports, LeaveReports DEF Steps, EarlySteps, Revoking
<1>8. QED BY <1>1, <1>5, <1>7, SameEvidence, CallKeepsHistory

\* A success that a call reads off a Job is one that Helm recorded.
LEMMA WatchHistory == ASSUME IInv, HInv, NEW w \in Workers, Watch(w) PROVE HInv'
<1>1. worker[w].pc = "watch" /\ UNCHANGED <<dbVars, clusterVars, outbox>>
  BY DEF Watch
<1>2. /\ Owner(w) /\ Busy(w) /\ CallTypes /\ Own(w) \in Attempts
      /\ worker[w].op \in Ops
  BY <1>1, OwnerAt, TargetExists DEF Steps, Revoking, IInv, TypeOK, Owner
<1>3. PICK a \in Attempts : a = Own(w) /\ a = <<worker[w].op, worker[w].num>>
  BY <1>2 DEF Own
<1>4. PICK e : /\ e \in {job[a].evidence, "none"}
               /\ worker' = [worker EXCEPT ![w] =
                     [worker[w] EXCEPT !.res = Verdict(e), !.ext = HasExternalID(e),
                                       !.tgt = worker[w].num,
                                       !.pc = IF PodEnded(a) THEN "close" ELSE "finish"]]
  BY <1>3 DEF Watch
<1>5. PICK c : c = [worker[w] EXCEPT !.res = Verdict(e), !.ext = HasExternalID(e),
                                     !.tgt = worker[w].num,
                                     !.pc = IF PodEnded(a) THEN "close" ELSE "finish"]
  OBVIOUS
<1>6. /\ c.op = worker[w].op /\ c.num = worker[w].num /\ c.seen = worker[w].seen
      /\ c.pc \in {"close", "finish"} /\ c.tgt = c.num
      /\ c.res = Verdict(e) /\ c.ext = HasExternalID(e)
  BY <1>2, <1>5, CallFields DEF Calls
<1>7. Becomes(w, c) /\ worker'[w] = c
  <2>1. worker'[w] = c /\ \A v \in Workers : v # w => worker'[v] = worker[v]
    BY <1>2, <1>4, <1>5 DEF CallTypes
  <2>2. worker' \in [Workers -> Calls]
    BY WatchStep DEF IInv, TypeOK, CallTypes
  <2>3. QED BY <2>1, <2>2 DEF Becomes
<1>8. VerdictOK(w)'
  <2>1. ASSUME c.res = "succeeded" PROVE Delivered(c.op, c.num)'
    <3>1. job[a].evidence = "succeeded"
      BY <1>4, <1>6, <2>1 DEF Verdict
    <3>2. Delivered(c.op, c.num)
      BY <1>3, <1>6, <3>1 DEF HInv, EvidenceInv
    <3>3. QED BY <1>1, <3>2 DEF Delivered, LatestDelivery
  <2>2. c.res = "failed" => c.ext
    BY <1>6 DEF Verdict, HasExternalID
  <2>3. QED BY <1>6, <1>7, <2>1, <2>2 DEF VerdictOK, AtEnd, Revoking
<1>9. Reports(w)
  BY <1>2, <1>6, <1>7, <1>8, BecomesReports DEF Revoking, EarlySteps
<1>10. QED BY <1>1, <1>9, SamePhases, SameEvidence, CallKeepsHistory

\* A passive recovery reads the Job of the latest delivery.
LEMMA ObserveExistingHistory ==
    ASSUME IInv, HInv, NEW w \in Workers, ObserveExisting(w) PROVE HInv'
<1>1. worker[w].pc = "passive" /\ UNCHANGED <<dbVars, clusterVars, outbox>>
  BY DEF ObserveExisting
<1>2. /\ Owner(w) /\ Busy(w) /\ CallTypes /\ DbTypes /\ AttemptInv
      /\ worker[w].op \in Ops /\ worker[w].num \in 1 .. Len(att[worker[w].op])
  BY <1>1, OwnerAt, TargetExists DEF Steps, Revoking, IInv, TypeOK, Owner, DbTypes, HInv
<1>3. PICK o, n : o = worker[w].op /\ n = worker[w].num
  OBVIOUS
<1>4. PICK d : d = LatestDelivery(o, n)
  OBVIOUS
<1>5. PICK stopped : stopped = PreparationStopped(o, n, worker[w].seen)
  OBVIOUS
<1>. DEFINE seen == IF PodEnded(<<o, d>>) THEN job[<<o, d>>].evidence ELSE "none"
<1>6. PICK e : e = seen
  OBVIOUS
<1>7. e \in {job[<<o, d>>].evidence, "none"}
  BY <1>6
<1>8. worker' = [worker EXCEPT ![w] =
              [worker[w] EXCEPT !.pc = "finish",
                                !.res = IF stopped THEN "failed" ELSE Verdict(e),
                                !.ext = ~stopped /\ HasExternalID(e)]]
  BY <1>3, <1>4, <1>5, <1>6 DEF ObserveExisting
<1>9. PICK c : c = [worker[w] EXCEPT !.pc = "finish",
                                     !.res = IF stopped THEN "failed" ELSE Verdict(e),
                                     !.ext = ~stopped /\ HasExternalID(e)]
  OBVIOUS
<1>10. /\ c.op = o /\ c.num = n /\ c.seen = worker[w].seen /\ c.pc = "finish"
      /\ c.res = (IF stopped THEN "failed" ELSE Verdict(e))
      /\ c.ext = (~stopped /\ HasExternalID(e))
  BY <1>2, <1>3, <1>9, CallFields DEF Calls
<1>11. Becomes(w, c) /\ worker'[w] = c
  <2>1. worker'[w] = c /\ \A v \in Workers : v # w => worker'[v] = worker[v]
    BY <1>2, <1>8, <1>9 DEF CallTypes
  <2>2. worker' \in [Workers -> Calls]
    BY ObserveExistingStep DEF IInv, TypeOK, CallTypes
  <2>3. QED BY <2>1, <2>2 DEF Becomes
<1>12. d \in 1 .. n /\ d \in 1 .. Len(att[o]) /\ LatestDelivery(o, d) = d
  <2>1. d \in 1 .. n /\ att[o][d].kind = "execute" /\ Len(att[o]) \in Nat
    BY <1>2, <1>3, <1>4, LatestFacts, LenProperties DEF DbTypes
  <2>2. d \in 1 .. Len(att[o])
    BY <1>2, <1>3, <2>1
  <2>3. QED BY <1>2, <1>3, <2>1, <2>2, DeliveryIsLatest
<1>13. VerdictOK(w)'
  <2>1. ASSUME c.res = "succeeded" PROVE Delivered(o, n)'
    <3>1. job[<<o, d>>].evidence = "succeeded"
      BY <1>7, <1>10, <2>1 DEF Verdict
    <3>2. <<o, d>> \in Attempts
      <4>1. Len(att[o]) \in Nat /\ Len(att[o]) <= MaxAttempts
        BY <1>2, <1>3, LenProperties DEF DbTypes
      <4>2. QED BY <1>2, <1>3, <1>12, <4>1, DeploymentAssumption DEF Attempts, Nums
    <3>3. Delivered(o, d)
      BY <3>1, <3>2 DEF HInv, EvidenceInv
    <3>4. Delivered(o, n)
      BY <1>4, <1>12, <3>3 DEF Delivered
    <3>5. QED BY <1>1, <3>4 DEF Delivered, LatestDelivery
  <2>2. ASSUME c.res = "failed", ~c.ext PROVE obl'[o][LatestDelivery(o, n)'].phase = "preparing"
    <3>1. stopped
      BY <1>10, <2>2 DEF Verdict, HasExternalID
    <3>2. obl[o][LatestDelivery(o, n)].phase = "preparing"
      BY <1>1, <1>2, <1>3, <1>5, <3>1, StoppedIsPreparing
    <3>3. QED BY <1>1, <3>2 DEF LatestDelivery
  <2>3. QED BY <1>10, <1>11, <2>1, <2>2 DEF VerdictOK, AtEnd
<1>14. Reports(w)
  BY <1>2, <1>3, <1>10, <1>11, <1>13, BecomesReports DEF Revoking, EarlySteps
<1>15. QED BY <1>1, <1>14, SamePhases, SameEvidence, CallKeepsHistory

-----------------------------------------------------------------------------
(* Revocations report nothing new *)

\* A call that goes on with its revocation.
LEMMA RevocationReports ==
    ASSUME IInv, HInv, NEW w \in Workers, worker[w].pc \in Revoking, NEW c \in Calls,
           worker' = [worker EXCEPT ![w] = c], c.pc \in Revoking, c.op = worker[w].op,
           c.num = worker[w].num, c.tgt = worker[w].tgt, c.seen = worker[w].seen,
           c.res = worker[w].res, c.ext = worker[w].ext
    PROVE  Reports(w)
<1>1. Busy(w) /\ CallTypes
  BY DEF Busy, Revoking, IInv, TypeOK
<1>2. Becomes(w, c)
  BY <1>1, BecomesCall
<1>3. Owner(w) /\ worker[w].res # "none" => c.tgt = c.num
  BY DEF HInv, VerdictInv, VerdictOK, AtEnd, Revoking
<1>4. c.tgt # c.num => Early(w)
  BY DEF Early
<1>5. c.pc # "passive" /\ c.pc \notin EarlySteps
  BY DEF Revoking, EarlySteps
<1>6. QED BY <1>1, <1>2, <1>3, <1>4, <1>5, BecomesReports

\* A revocation that ends, well or not.
LEMMA AfterRevokeReports ==
    ASSUME IInv, HInv, NEW w \in Workers, worker[w].pc \in Revoking, NEW done \in BOOLEAN,
           AfterRevoke(w, done)
    PROVE  Reports(w)
<1>1. Busy(w) /\ CallTypes /\ TypeOK
  BY DEF Busy, Revoking, IInv, TypeOK
<1>2. CASE done
  <2>1. GoTo(w, "resolve")
    BY <1>2 DEF AfterRevoke
  <2>2. worker[w].tgt # worker[w].num => Early(w)
    BY DEF Early
  <2>3. QED BY <1>1, <2>1, <2>2, GoToReports DEF Steps, EarlySteps, Revoking
<1>3. CASE ~done /\ worker[w].num = 0
  BY <1>3, LeaveReports DEF AfterRevoke
<1>4. CASE ~done /\ worker[w].num # 0 /\ RevokesOwn(w)
  <2>1. PICK c \in Calls : c = [worker[w] EXCEPT !.pc = "finish", !.res = "uncertain", !.ext = FALSE]
    BY <1>1, CallFields DEF Calls, Steps
  <2>2. /\ c.pc = "finish" /\ c.op = worker[w].op /\ c.num = worker[w].num
        /\ c.seen = worker[w].seen /\ c.res = "uncertain"
    BY <1>1, <2>1, CallFields DEF Calls
  <2>3. Becomes(w, c)
    BY <1>1, <1>4, <2>1, BecomesCall DEF AfterRevoke
  <2>4. QED BY <1>1, <2>2, <2>3, BecomesReports DEF EarlySteps, Revoking
<1>5. CASE ~done /\ worker[w].num # 0 /\ ~RevokesOwn(w)
  <2>1. GoTo(w, "sweep")
    BY <1>5 DEF AfterRevoke, GoTo
  <2>2. Early(w) /\ worker[w].tgt # worker[w].num
    BY <1>5 DEF Early, RevokesOwn
  <2>3. QED BY <1>1, <2>1, <2>2, GoToReports DEF Steps, EarlySteps, Revoking
<1>6. QED BY <1>2, <1>3, <1>4, <1>5

\* The row is closed, the issuer and the Secret are asked.
LEMMA RevocationHistory ==
    ASSUME IInv, HInv, NEW w \in Workers, CloseRow(w) \/ RevokeIssuer(w) \/ RemoveSecret(w)
    PROVE  HInv'
<1>1. worker[w].pc \in {"close", "issuer", "remove"} /\ worker[w].pc \in Revoking
      /\ UNCHANGED <<dbVars, clusterVars, outbox>>
  BY DEF CloseRow, RevokeIssuer, RemoveSecret, Revoking
<1>2. CallTypes /\ CallTypes' /\ Busy(w)
  BY <1>1, CloseRowStep, RevokeIssuerStep, RemoveSecretStep DEF IInv, TypeOK, Busy, Revoking
<1>3. CASE CloseRow(w)
  <2>1. PICK row : worker' = [worker EXCEPT ![w] = [worker[w] EXCEPT !.pc = "issuer", !.row = row]]
    BY <1>3 DEF CloseRow
  <2>2. PICK c : c = [worker[w] EXCEPT !.pc = "issuer", !.row = row]
    OBVIOUS
  <2>3. worker' = [worker EXCEPT ![w] = c] /\ worker'[w] = c /\ c \in Calls
    BY <1>2, <2>1, <2>2 DEF CallTypes
  <2>4. /\ c.pc \in Revoking /\ c.op = worker[w].op /\ c.num = worker[w].num
        /\ c.tgt = worker[w].tgt /\ c.seen = worker[w].seen /\ c.res = worker[w].res
        /\ c.ext = worker[w].ext
    BY <1>2, <2>2, CallFields DEF Calls, Revoking
  <2>5. QED BY <1>1, <2>3, <2>4, RevocationReports, SamePhases, SameEvidence, CallKeepsHistory
<1>4. CASE RevokeIssuer(w)
  <2>1. \E i : worker' = [worker EXCEPT ![w] = [worker[w] EXCEPT !.pc = "remove", !.issuer = i]]
    BY <1>4 DEF RevokeIssuer
  <2>2. PICK i : worker' = [worker EXCEPT ![w] = [worker[w] EXCEPT !.pc = "remove", !.issuer = i]]
    BY <2>1
  <2>3. PICK c : c = [worker[w] EXCEPT !.pc = "remove", !.issuer = i]
    OBVIOUS
  <2>4. worker' = [worker EXCEPT ![w] = c] /\ worker'[w] = c /\ c \in Calls
    BY <1>2, <2>2, <2>3 DEF CallTypes
  <2>5. /\ c.pc \in Revoking /\ c.op = worker[w].op /\ c.num = worker[w].num
        /\ c.tgt = worker[w].tgt /\ c.seen = worker[w].seen /\ c.res = worker[w].res
        /\ c.ext = worker[w].ext
    BY <1>2, <2>3, CallFields DEF Calls, Revoking
  <2>6. QED BY <1>1, <2>4, <2>5, RevocationReports, SamePhases, SameEvidence, CallKeepsHistory
<1>5. CASE RemoveSecret(w)
  <2>1. AfterRevoke(w, worker[w].issuer) \/ AfterRevoke(w, FALSE)
    BY <1>5 DEF RemoveSecret
  <2>2. PICK done \in BOOLEAN : AfterRevoke(w, done)
    BY <1>2, <2>1, CallFields
  <2>3. Reports(w)
    BY <1>1, <2>2, AfterRevokeReports
  <2>4. QED BY <1>1, <2>3, SamePhases, SameEvidence, CallKeepsHistory
<1>6. QED BY <1>3, <1>4, <1>5

\* A call that dies, or loses its session, reports nothing.
LEMMA FaultHistory ==
    ASSUME IInv, HInv, NEW w \in Workers, Crash(w) \/ LoseSession(w)
    PROVE  HInv'
<1>1. UNCHANGED <<dbVars, clusterVars, outbox>>
  BY DEF Crash, LoseSession
<1>2. CASE Crash(w)
  <2>1. Reports(w)
    BY <1>2, LeaveReports DEF Crash
  <2>2. QED BY <1>1, <2>1, SamePhases, SameEvidence, CallKeepsHistory
<1>3. CASE LoseSession(w) /\ worker[w] # Idle
  <2>1. UNCHANGED worker /\ Busy(w)
    BY <1>3 DEF LoseSession, Busy, IInv, CallInv, CallOK
  <2>2. Owner(w) => VerdictOK(w)
    BY DEF HInv, VerdictInv
  <2>3. worker'[w].res = worker[w].res /\ worker'[w].ext = worker[w].ext
        /\ (Owner(w) /\ worker[w].res # "none" => AtEnd(w)')
    BY <2>1, <2>2 DEF VerdictOK, AtEnd
  <2>4. Reports(w)
    BY <2>1, <2>3 DEF Reports, Early
  <2>5. QED BY <1>1, <2>4, SamePhases, SameEvidence, CallKeepsHistory
<1>4. CASE LoseSession(w) /\ worker[w] = Idle
  <2>1. Reports(w)
    BY <1>4 DEF LoseSession, Reports
  <2>2. QED BY <1>1, <2>1, SamePhases, SameEvidence, CallKeepsHistory
<1>5. QED BY <1>2, <1>3, <1>4

\* A resolved obligation keeps its phase.
LEMMA ResolveHistory == ASSUME IInv, HInv, NEW w \in Workers, Resolve(w) PROVE HInv'
<1>1. worker[w].pc = "resolve" /\ worker[w].pc \in Revoking
      /\ UNCHANGED <<op, att, history, job, outbox>>
  BY DEF Resolve, Revoking
<1>2. /\ TypeOK /\ CallInv /\ CallOK(w) /\ Busy(w) /\ CallTypes /\ DbTypes
      /\ worker[w].op \in Ops /\ worker[w].tgt \in 1 .. Len(obl[worker[w].op])
  BY <1>1, RevokingFacts, TargetExists DEF TypeOK, CallOK
<1>3. CASE AfterRevoke(w, FALSE) /\ UNCHANGED obl
  <2>1. Reports(w)
    BY <1>1, <1>3, AfterRevokeReports
  <2>2. QED BY <1>1, <1>3, <2>1, SamePhases, SameEvidence, CallKeepsHistory
<1>4. CASE /\ obl' = [obl EXCEPT ![worker[w].op][worker[w].tgt].resolved = TRUE]
           /\ IF worker[w].num = 0 THEN Leave(w)
              ELSE /\ worker' = [worker EXCEPT ![w] =
                         [@ EXCEPT !.pc = IF RevokesOwn(w) THEN "finish" ELSE "sweep",
                                   !.seen = [worker[w].seen EXCEPT ![worker[w].tgt].resolved = TRUE]]]
                   /\ UNCHANGED lock
  <2>1. PICK o, n, x, s : /\ o = worker[w].op /\ n = worker[w].tgt
                          /\ x = [obl[o][n] EXCEPT !.resolved = TRUE]
                          /\ s = [obl[o] EXCEPT ![n] = x]
    OBVIOUS
  <2>2. /\ o \in Ops /\ n \in 1 .. Len(obl[o]) /\ obl[o] \in Seq(Obligations)
        /\ obl[o][n] \in Obligations
    BY <1>2, <2>1, ElementOfSeq DEF DbTypes
  <2>3. x \in Obligations /\ x.resolved /\ x.phase = obl[o][n].phase
    BY <2>1, <2>2 DEF Obligations
  <2>4. \A j \in 1 .. Len(obl[o]) : s[j] = IF j = n THEN x ELSE obl[o][j]
    BY <2>1, <2>2, <2>3, ExceptSeq
  <2>5. obl' = [obl EXCEPT ![o] = s]
    BY <1>4, <2>1
  <2>6. obl'[o] = s /\ \A p \in Ops : p # o => obl'[p] = obl[p]
    BY <1>2, <2>2, <2>5 DEF DbTypes
  <2>7. PhaseMove(w)
    BY <2>2, <2>3, <2>4, <2>6 DEF PhaseMove
  <2>8. Reports(w)
    <3>1. CASE worker[w].num = 0
      BY <1>4, <3>1, LeaveReports
    <3>2. CASE worker[w].num # 0
      <4>1. PICK seen, y : /\ y = [worker[w].seen[n] EXCEPT !.resolved = TRUE]
                           /\ seen = [worker[w].seen EXCEPT ![n] = y]
        OBVIOUS
      <4>2. /\ worker[w].seen \in Seq(Obligations) /\ n \in 1 .. Len(worker[w].seen)
            /\ worker[w].seen[n] \in Obligations
        <5>1. worker[w].seen \in Seq(Obligations) /\ n <= Len(worker[w].seen)
          BY <1>2, <2>1, CallFields DEF CallOK
        <5>2. n \in 1 .. Len(worker[w].seen)
          BY <1>2, <2>1, <5>1, LenProperties, DeploymentAssumption
        <5>3. QED BY <5>1, <5>2, ElementOfSeq
      <4>3. y \in Obligations /\ y.phase = worker[w].seen[n].phase
        BY <4>1, <4>2 DEF Obligations
      <4>4. /\ seen \in Seq(Obligations) /\ Len(seen) = Len(worker[w].seen)
            /\ \A j \in 1 .. Len(worker[w].seen) :
                   seen[j] = IF j = n THEN y ELSE worker[w].seen[j]
        BY <4>1, <4>2, <4>3, ExceptSeq
      <4>5. PICK pc \in Steps : pc = IF RevokesOwn(w) THEN "finish" ELSE "sweep"
        BY DEF Steps
      <4>6. PICK c : c = [worker[w] EXCEPT !.pc = pc, !.seen = seen]
        OBVIOUS
      <4>7. worker' = [worker EXCEPT ![w] = c]
        BY <1>4, <2>1, <3>2, <4>1, <4>5, <4>6
      <4>8. /\ c \in Calls /\ c.pc = pc /\ c.op = worker[w].op /\ c.num = worker[w].num
            /\ c.tgt = worker[w].tgt /\ c.seen = seen /\ c.res = worker[w].res
            /\ c.ext = worker[w].ext
        BY <1>2, <4>4, <4>6, CallFields DEF Calls
      <4>9. Becomes(w, c)
        BY <1>2, <4>7, <4>8, BecomesCall
      <4>10. \A j \in 1 .. Len(worker[w].seen) : c.seen[j].phase = worker[w].seen[j].phase
        BY <4>3, <4>4, <4>8
      <4>11. Owner(w) /\ worker[w].res # "none" => c.pc = "finish"
        BY <1>1, <4>5, <4>8 DEF HInv, VerdictInv, VerdictOK, AtEnd, RevokesOwn
      <4>12. c.pc = "sweep" => Early(w)
        BY <1>1, <4>5, <4>8 DEF Early, RevokesOwn
      <4>13. c.pc \in {"finish", "sweep"} /\ Len(c.seen) = Len(worker[w].seen)
        BY <4>4, <4>5, <4>8
      <4>14. QED
        BY <1>2, <4>8, <4>9, <4>10, <4>11, <4>12, <4>13, BecomesReports DEF EarlySteps, Revoking
    <3>3. QED BY <3>1, <3>2
  <2>9. QED BY <1>1, <2>7, <2>8, SameEvidence, CallKeepsHistory
<1>5. QED BY <1>3, <1>4 DEF Resolve

-----------------------------------------------------------------------------
(* The outcome of an operation *)

\* The newest revision is the one that was deployed, unless something followed
\* it: an operation that has nothing newer is what is deployed.
LEMMA DeployedIsNewest ==
    ASSUME TypeOK, EndedInv, RevisionInv, NeverRollsBack, NEW o \in Ops,
           \A p \in Ops : p > o => ~Begun(p),
           NEW i \in 1 .. Len(history), history[i].by[1] = o, history[i].status = "deployed"
    PROVE  i = Len(history) /\ history # <<>>
<1>1. Len(history) \in Nat /\ i \in Nat /\ 1 <= i /\ i <= Len(history)
  BY LenProperties DEF TypeOK, ClusterTypes
<1>2. history # <<>>
  BY <1>1, EmptySeq
<1>3. ASSUME i # Len(history) PROVE FALSE
  <2>1. i \in 1 .. Len(history) - 1 /\ i + 1 \in 1 .. Len(history)
    BY <1>1, <1>3
  <2>2. PICK p : p = history[i + 1].by[1]
    OBVIOUS
  <2>3. o <= p /\ (o = p => history[i].status = "failed")
    BY <2>1, <2>2 DEF NeverRollsBack
  <2>4. p \in Ops /\ Len(att[p]) > 0 /\ o \in Nat /\ p \in Nat
    <3>1. p \in Ops /\ history[i + 1].by[2] \in 1 .. Len(att[p])
      BY <2>1, <2>2, RevisionFacts
    <3>2. Len(att[p]) \in Nat
      BY <3>1, LenProperties DEF TypeOK, DbTypes
    <3>3. QED BY <3>1, <3>2, DeploymentAssumption
  <2>5. Begun(p)
    <3>1. op[p] \in {"none", "pending"} => Len(att[p]) = 0
      BY <2>4 DEF EndedInv
    <3>2. QED BY <2>4, <3>1 DEF Begun
  <2>6. QED BY <2>3, <2>4, <2>5
<1>4. QED BY <1>2, <1>3

\* The latest delivery of all attempts, when there are n of them after a step.
LEMMA LatestOfAll ==
    ASSUME NEW o, NEW n, n = Len(att'[o])
    PROVE  LatestDelivery(o, Len(att[o]))' = LatestDelivery(o, n)'
<1>1. PICK D : D = {m \in 1 .. n : att'[o][m].kind = "execute"}
  OBVIOUS
<1>2. D = {m \in 1 .. Len(att'[o]) : att'[o][m].kind = "execute"}
  BY <1>1
<1>3. LatestDelivery(o, n)' = IF D = {} THEN 0 ELSE CHOOSE m \in D : \A k \in D : k <= m
  BY <1>1 DEF LatestDelivery
<1>4. LatestDelivery(o, Len(att[o]))' =
        IF D = {} THEN 0 ELSE CHOOSE m \in D : \A k \in D : k <= m
  BY <1>2 DEF LatestDelivery
<1>5. QED BY <1>3, <1>4

\* A call writes an outcome that is true.
LEMMA FinishHistory == ASSUME IInv, HInv, NEW w \in Workers, Finish(w) PROVE HInv'
<1>1. /\ worker[w].pc = "finish" /\ TypeOK /\ CallInv /\ CallOK(w) /\ Owner(w)
      /\ CallTypes /\ DbTypes
      /\ OrderInv /\ AttemptInv /\ RevisionInv /\ EvidenceInv /\ RetryInv /\ FailedInv
      /\ VerdictInv /\ PhaseInv /\ NeverRollsBack /\ SuccessIsDeployed /\ VerdictOK(w)
  BY DEF Finish, IInv, CallInv, CallOK, Owner, Busy, Revoking, TypeOK, HInv, VerdictInv
<1>2. /\ worker[w].op \in Ops /\ worker[w].num \in 1 .. Len(att[worker[w].op])
      /\ worker[w].res \in {"succeeded", "failed", "uncertain"}
      /\ worker[w].ext \in BOOLEAN
  BY <1>1, TargetExists, CallFields DEF CallOK, Owner, DbTypes
<1>3. UNCHANGED <<obl, clusterVars>> /\ Leave(w)
  BY DEF Finish
<1>4. /\ worker'[w] = Idle /\ ~Busy(w)'
      /\ \A v \in Workers : v # w => worker'[v] = worker[v]
  BY <1>1, <1>3, LeaveBecomes, IdleFields DEF Becomes, Busy
<1>5. CASE UNCHANGED <<att, op, outbox>>
  <2>1. Reports(w)
    BY <1>3, LeaveReports
  <2>2. QED BY <1>3, <1>5, <2>1, SamePhases, SameEvidence, CallKeepsHistory
<1>6. CASE /\ att[worker[w].op][worker[w].num].state = "running"
           /\ op[worker[w].op] = "running"
           /\ att' = [att EXCEPT ![worker[w].op][worker[w].num] =
                        [@ EXCEPT !.state = FinalState(w), !.ext = worker[w].ext]]
           /\ op' = [op EXCEPT ![worker[w].op] = FinalState(w)]
           /\ IF FinalState(w) = "succeeded" THEN EnqueueSuccess(worker[w].op, worker[w].num)
              ELSE UNCHANGED outbox
  <2>1. PICK o, n, f, x, s : /\ o = worker[w].op /\ n = worker[w].num /\ f = FinalState(w)
                             /\ x = [att[o][n] EXCEPT !.state = f, !.ext = worker[w].ext]
                             /\ s = [att[o] EXCEPT ![n] = x]
    OBVIOUS
  <2>2. /\ o \in Ops /\ n \in 1 .. Len(att[o]) /\ att[o] \in Seq(AttemptRows)
        /\ att[o][n] \in AttemptRows
        /\ f \in {"succeeded", "failed", "uncertain"}
        /\ f # "uncertain" => worker[w].res = f
    BY <1>1, <1>2, <2>1, ElementOfSeq DEF DbTypes, FinalState
  <2>3. x \in AttemptRows /\ x.kind = att[o][n].kind /\ x.state = f /\ x.ext = worker[w].ext
    BY <1>2, <2>1, <2>2 DEF AttemptRows, OpStates
  <2>4. /\ s \in Seq(AttemptRows)
        /\ Len(s) = Len(att[o])
        /\ \A j \in 1 .. Len(att[o]) : s[j] = IF j = n THEN x ELSE att[o][j]
    BY <2>1, <2>2, <2>3, ExceptSeq
  <2>5. att' = [att EXCEPT ![o] = s] /\ op' = [op EXCEPT ![o] = f]
    BY <1>6, <2>1
  <2>6. /\ att'[o] = s /\ op'[o] = f
        /\ \A p \in Ops : p # o => att'[p] = att[p] /\ op'[p] = op[p]
    BY <1>1, <2>2, <2>5 DEF DbTypes
  <2>7. att[o][n].state = "running" /\ op[o] = "running" /\ n = Len(att[o]) /\ ~att[o][n].ext
    BY <1>1, <1>6, <2>1, <2>2 DEF AttemptInv
  <2>8. \A p \in Ops : /\ Len(att'[p]) = Len(att[p])
                       /\ \A m \in 1 .. Len(att[p]) :
                             /\ att'[p][m].kind = att[p][m].kind
                             /\ att[p][m].ext => att'[p][m].ext
    BY <2>2, <2>3, <2>4, <2>6, <2>7
  <2>9. \A p \in Ops : \A m \in 1 .. Len(att[p]) :
          LatestDelivery(p, m)' = LatestDelivery(p, m)
    <3>1. ASSUME NEW p \in Ops, NEW m \in 1 .. Len(att[p])
          PROVE  LatestDelivery(p, m)' = LatestDelivery(p, m)
      <4>1. Len(att[p]) \in Nat
        BY <1>1, LenProperties DEF DbTypes
      <4>2. \A k \in 1 .. m : att'[p][k].kind = att[p][k].kind
        BY <2>8, <4>1
      <4>3. QED BY <4>2, LatestKept
    <3>2. QED BY <3>1
  <2>10. \A p \in Ops : \A m \in 1 .. Len(att[p]) : Delivered(p, m) => Delivered(p, m)'
    BY <1>3, <2>9 DEF Delivered
  <2>11. Begun(o) /\ \A p \in Ops : Begun(p)' <=> Begun(p)
    BY <2>2, <2>6, <2>7 DEF Begun
  <2>12. OrderInv'
    BY <1>1, <2>2, <2>6, <2>7, <2>11 DEF OrderInv
  <2>13. AttemptInv'
    <3>1. ASSUME NEW p \in Ops, NEW m \in 1 .. Len(att[p]), att'[p][m].state = "running"
          PROVE  m = Len(att[p]) /\ ~att'[p][m].ext /\ op'[p] = "running"
      <4>1. p # o
        BY <1>1, <2>2, <2>3, <2>4, <2>6, <2>7, <3>1 DEF AttemptInv
      <4>2. QED BY <1>1, <2>6, <3>1, <4>1 DEF AttemptInv
    <3>2. ASSUME NEW p \in Ops, Len(att[p]) > 0
          PROVE  att'[p][1].kind = "execute"
      <4>1. Len(att[p]) \in Nat
        BY <1>1, LenProperties DEF DbTypes
      <4>2. QED BY <1>1, <2>8, <3>2, <4>1 DEF AttemptInv
    <3>3. QED BY <1>1, <1>3, <2>8, <2>11, <3>1, <3>2 DEF AttemptInv
  <2>14. RevisionInv'
    <3>1. ASSUME NEW a \in Attempts, Exists(a)
          PROVE  Exists(a)' /\ att'[a[1]][a[2]].kind = att[a[1]][a[2]].kind
      BY <1>1, <2>8, <3>1, ExistsFields DEF Exists
    <3>2. \A i \in 1 .. Len(history) : history[i].by \in Attempts
      BY <1>1, RevisionFacts
    <3>3. QED BY <1>1, <1>3, <3>1, <3>2 DEF RevisionInv
  <2>15. EvidenceInv'
    <3>1. ASSUME NEW a \in Attempts, job[a].evidence = "succeeded" PROVE Delivered(a[1], a[2])'
      <4>1. Exists(a)
        BY <3>1 DEF IInv, JobInv, JobOK, NoJob
      <4>2. Delivered(a[1], a[2])
        BY <1>1, <3>1 DEF EvidenceInv
      <4>3. QED BY <1>1, <2>10, <4>1, <4>2, ExistsFields
    <3>2. QED BY <1>3, <3>1 DEF EvidenceInv
  <2>16. RetryInv'
    <3>1. ASSUME NEW p \in Ops, NEW m \in 1 .. Len(att[p]), NEW i \in 1 .. Len(history),
                 att[p][m].kind = "execute", history[i].by[1] = p, history[i].by[2] < m
          PROVE  \E k \in 1 .. m - 1 : att'[p][k].ext
      <4>1. PICK k \in 1 .. m - 1 : att[p][k].ext
        BY <1>1, <3>1 DEF RetryInv
      <4>2. Len(att[p]) \in Nat
        BY <1>1, LenProperties DEF DbTypes
      <4>3. QED BY <2>8, <4>1, <4>2
    <3>2. QED BY <1>3, <2>8, <3>1 DEF RetryInv
  <2>17. FailedInv'
    <3>1. ASSUME NEW p \in Ops, NEW i \in 1 .. Len(history), op'[p] = "failed",
                 history[i].by[1] = p
          PROVE  \E k \in 1 .. Len(att[p]) : att'[p][k].ext
      <4>1. CASE p # o
        BY <1>1, <2>6, <3>1, <4>1 DEF FailedInv
      <4>2. CASE p = o /\ worker[w].ext
        <5>1. att'[o][n].ext
          BY <2>2, <2>3, <2>4, <2>6, <4>2
        <5>2. QED BY <2>2, <4>2, <5>1
      <4>3. CASE p = o /\ ~worker[w].ext
        <5>1. PICK d \in 1 .. n : /\ d = LatestDelivery(o, n) /\ att[o][d].kind = "execute"
                                  /\ \A m \in 1 .. n : att[o][m].kind = "execute" => m <= d
          BY <1>1, <2>2, LatestFacts
        <5>2. obl[o][d].phase = "preparing"
          BY <1>1, <2>1, <2>2, <2>6, <3>1, <4>3, <5>1 DEF VerdictOK
        <5>3. PICK m \in 1 .. Len(att[o]) : m = history[i].by[2] /\ history[i].by = <<o, m>>
          BY <1>1, <3>1, <4>3, RevisionFacts
        <5>4. PICK a \in Attempts : a = history[i].by /\ a = <<o, m>> /\ a[1] = o /\ a[2] = m
          BY <1>1, <5>3, RevisionFacts
        <5>5. att[a[1]][a[2]].kind = "execute" /\ job[a].st \in {"upgrading", "done"}
          BY <1>1, <5>4 DEF RevisionInv
        <5>6. job[a].st # "none" /\ att[o][m].kind = "execute"
          BY <5>5, <5>4
        <5>7. obl[o][m].phase = "dispatching"
          BY <5>4, <5>6 DEF IInv, JobInv, JobOK
        <5>8. m # d /\ m <= d
          BY <2>7, <5>1, <5>2, <5>3, <5>6, <5>7
        <5>9. Len(att[o]) \in Nat /\ d \in 1 .. Len(att[o]) /\ m < d
          BY <2>2, <5>1, <5>8, LenProperties
        <5>10. PICK k \in 1 .. d - 1 : att[o][k].ext
          BY <1>1, <2>2, <3>1, <4>3, <5>1, <5>3, <5>9 DEF RetryInv
        <5>11. k \in 1 .. Len(att[o]) /\ att'[o][k].ext
          BY <2>2, <2>8, <5>9, <5>10
        <5>12. QED BY <4>3, <5>11
      <4>4. QED BY <4>1, <4>2, <4>3
    <3>2. QED BY <1>3, <2>8, <3>1 DEF FailedInv
  <2>18. VerdictInv'
    <3>1. ASSUME NEW v \in Workers, Owner(v)' PROVE VerdictOK(v)'
      <4>1. v # w /\ worker'[v] = worker[v] /\ Owner(v) /\ VerdictOK(v)
        BY <1>1, <1>4, <3>1 DEF Owner, Busy, VerdictInv
      <4>2. worker[v].op \in Ops /\ worker[v].num \in 1 .. Len(att[worker[v].op])
        BY <1>1, <4>1, TargetExists DEF Owner, DbTypes
      <4>3. LatestDelivery(worker[v].op, worker[v].num)' = LatestDelivery(worker[v].op, worker[v].num)
        BY <2>9, <4>1, <4>2
      <4>4. Delivered(worker[v].op, worker[v].num) => Delivered(worker[v].op, worker[v].num)'
        BY <2>10, <4>1, <4>2
      <4>5. QED BY <1>3, <4>1, <4>3, <4>4 DEF VerdictOK, AtEnd
    <3>2. QED BY <3>1 DEF VerdictInv
  <2>19. PhaseInv'
    <3>1. ASSUME NEW v \in Workers, Busy(v)' PROVE PhaseOK(v)'
      <4>1. worker'[v] = worker[v] /\ Busy(v) /\ PhaseOK(v)
        BY <1>1, <1>4, <3>1 DEF Busy, PhaseInv
      <4>2. QED BY <1>3, <4>1 DEF PhaseOK, Owner, Busy, Early
    <3>2. QED BY <3>1 DEF PhaseInv
  <2>20. NeverRollsBack'
    BY <1>1, <1>3 DEF NeverRollsBack
  <2>21. f = "succeeded" => Delivered(o, n)
    BY <1>1, <2>1, <2>2 DEF VerdictOK
  <2>22. SuccessIsDeployed'
    <3>1. ASSUME NEW a \in Attempts, outbox'[a] # "none"
          PROVE  /\ op'[a[1]] = "succeeded"
                 /\ \E i \in 1 .. Len(history) : history[i] = [by |-> a, status |-> "deployed"]
      <4>1. CASE outbox[a] # "none"
        <5>1. /\ op[a[1]] = "succeeded"
              /\ \E i \in 1 .. Len(history) : history[i] = [by |-> a, status |-> "deployed"]
          BY <1>1, <4>1 DEF SuccessIsDeployed
        <5>2. a[1] # o /\ a[1] \in Ops
          BY <2>7, <5>1 DEF Attempts
        <5>3. QED BY <2>6, <5>1, <5>2
      <4>2. CASE outbox[a] = "none"
        <5>1. f = "succeeded" /\ EnqueueSuccess(o, n)
          BY <1>6, <2>1, <3>1, <4>2
        <5>2. a = <<o, LatestDelivery(o, n)>>
          BY <1>1, <3>1, <4>2, <5>1 DEF EnqueueSuccess, TypeOK, ClusterTypes
        <5>3. Delivered(o, n) /\ op'[o] = "succeeded"
          BY <2>6, <2>21, <5>1
        <5>4. QED BY <5>2, <5>3 DEF Delivered
      <4>3. QED BY <4>1, <4>2
    <3>2. ASSUME NEW p \in Ops, op'[p] = "succeeded",
                 \A q \in Ops : q > p => op'[q] \in {"none", "pending"}
          PROVE  /\ history # <<>>
                 /\ history[Len(history)] =
                       [by |-> <<p, LatestDelivery(p, Len(att[p]))'>>, status |-> "deployed"]
      <4>1. \A q \in Ops : q > p => ~Begun(q)
        BY <2>11, <3>2 DEF Begun
      <4>2. p \in Ops /\ Len(att[p]) > 0 /\ Len(att'[p]) = Len(att[p])
            /\ Len(att[p]) \in 1 .. Len(att[p])
        <5>1. Begun(p) /\ Len(att[p]) \in Nat
          BY <1>1, <2>11, <3>2, LenProperties DEF Begun, DbTypes
        <5>2. QED BY <1>1, <2>8, <5>1 DEF AttemptInv
      <4>3. LatestDelivery(p, Len(att[p]))' = LatestDelivery(p, Len(att[p]))
        <5>1. PICK m \in 1 .. Len(att[p]) : m = Len(att[p]) /\ m = Len(att'[p])
          BY <4>2
        <5>2. LatestDelivery(p, m)' = LatestDelivery(p, m)
          BY <2>9, <5>1
        <5>3. LatestDelivery(p, Len(att[p]))' = LatestDelivery(p, m)'
          BY <5>1, LatestOfAll
        <5>4. QED BY <5>1, <5>2, <5>3
      <4>4. CASE p # o
        <5>1. op[p] = "succeeded" /\ \A q \in Ops : q > p => op[q] \in {"none", "pending"}
          BY <2>6, <3>2, <4>1, <4>4 DEF Begun
        <5>2. QED BY <1>1, <4>3, <5>1 DEF SuccessIsDeployed
      <4>5. CASE p = o
        <5>1. PICK i \in 1 .. Len(history) :
                history[i] = [by |-> <<o, LatestDelivery(o, n)>>, status |-> "deployed"]
          BY <2>6, <2>21, <3>2, <4>5 DEF Delivered
        <5>2. history[i].by[1] = o /\ history[i].status = "deployed"
          BY <5>1
        <5>3. i = Len(history) /\ history # <<>>
          BY <1>1, <2>2, <4>1, <4>5, <5>2, DeployedIsNewest DEF IInv
        <5>4. QED BY <2>7, <4>3, <4>5, <5>1, <5>3
      <4>6. QED BY <4>4, <4>5
    <3>3. \A a \in Attempts : outbox'[a] # "none" =>
            /\ op'[a[1]] = "succeeded"
            /\ \E i \in 1 .. Len(history') : history'[i] = [by |-> a, status |-> "deployed"]
      BY <1>3, <3>1
    <3>4. \A p \in Ops :
            /\ op'[p] = "succeeded"
            /\ \A q \in Ops : q > p => op'[q] \in {"none", "pending"}
            => /\ history' # <<>>
               /\ history'[Len(history')] =
                     [by |-> <<p, LatestDelivery(p, Len(att[p]))'>>, status |-> "deployed"]
      BY <1>3, <3>2
    <3>5. QED BY <3>3, <3>4 DEF SuccessIsDeployed
  <2>23. QED
    BY <2>12, <2>13, <2>14, <2>15, <2>16, <2>17, <2>18, <2>19, <2>20, <2>22 DEF HInv
<1>7. QED
  BY <1>5, <1>6 DEF Finish

-----------------------------------------------------------------------------
(* Requests, and calls that begin *)

\* The same attempts and the same revisions are about the same deliveries.
LEMMA SameDeliveries ==
    ASSUME UNCHANGED <<att, history>>
    PROVE  \A o, n : /\ LatestDelivery(o, n)' = LatestDelivery(o, n)
                     /\ Delivered(o, n)' <=> Delivered(o, n)
<1>1. \A o, n : LatestDelivery(o, n)' = LatestDelivery(o, n)
  BY DEF LatestDelivery
<1>2. QED BY <1>1 DEF Delivered

\* A step that touches neither attempts nor Jobs, and begins and ends no
\* operation.
LEMMA QuietHistory ==
    ASSUME HInv, UNCHANGED <<att, obl, clusterVars, worker>>,
           \A p \in Ops : op'[p] = op[p] \/ (op[p] = "none" /\ op'[p] = "pending"),
           \A a \in Attempts : outbox'[a] # "none" => outbox[a] # "none"
    PROVE  HInv'
<1>1. /\ OrderInv /\ AttemptInv /\ RevisionInv /\ EvidenceInv /\ RetryInv /\ FailedInv
      /\ VerdictInv /\ PhaseInv /\ NeverRollsBack /\ SuccessIsDeployed
  BY DEF HInv
<1>2. \A p \in Ops : Begun(p)' <=> Begun(p)
  BY DEF Begun
<1>3. \A p \in Ops : Begun(p) => op'[p] = op[p]
  BY DEF Begun
<1>4. OrderInv'
  BY <1>1, <1>2, <1>3 DEF OrderInv
<1>5. AttemptInv'
  BY <1>1, <1>2 DEF AttemptInv
<1>6. RevisionInv' /\ RetryInv' /\ FailedInv' /\ NeverRollsBack'
  BY <1>1 DEF RevisionInv, RetryInv, FailedInv, NeverRollsBack, Exists
<1>7. EvidenceInv' /\ VerdictInv'
  <2>1. \A o, n : /\ LatestDelivery(o, n)' = LatestDelivery(o, n)
                  /\ Delivered(o, n)' <=> Delivered(o, n)
    BY SameDeliveries
  <2>2. ASSUME NEW w \in Workers, Owner(w)' PROVE VerdictOK(w)'
    <3>1. VerdictOK(w)
      BY <1>1, <2>2 DEF VerdictInv, Owner, Busy
    <3>2. QED BY <2>1, <3>1 DEF VerdictOK, AtEnd
  <2>3. QED BY <1>1, <2>1, <2>2 DEF EvidenceInv, VerdictInv
<1>8. PhaseInv'
  BY <1>1 DEF PhaseInv, PhaseOK, Owner, Busy, Early
<1>9. SuccessIsDeployed'
  <2>1. ASSUME NEW a \in Attempts, outbox'[a] # "none"
        PROVE  /\ op'[a[1]] = "succeeded"
               /\ \E i \in 1 .. Len(history) : history[i] = [by |-> a, status |-> "deployed"]
    <3>1. a[1] \in Ops /\ outbox[a] # "none"
      BY <2>1 DEF Attempts
    <3>2. op[a[1]] = "succeeded"
      BY <1>1, <3>1 DEF SuccessIsDeployed
    <3>3. QED BY <1>1, <3>1, <3>2 DEF SuccessIsDeployed
  <2>2. ASSUME NEW p \in Ops, op'[p] = "succeeded",
               \A q \in Ops : q > p => op'[q] \in {"none", "pending"}
        PROVE  op[p] = "succeeded" /\ \A q \in Ops : q > p => op[q] \in {"none", "pending"}
    BY <2>2
  <2>3. QED BY <1>1, <2>1, <2>2 DEF SuccessIsDeployed, LatestDelivery
<1>10. QED BY <1>4, <1>5, <1>6, <1>7, <1>8, <1>9, <1>1 DEF HInv

\* A request, or an approval.
LEMMA RequestHistory ==
    ASSUME HInv, NEW o \in Ops, Request(o) \/ Approve(o), TypeOK
    PROVE  HInv'
BY QuietHistory DEF Request, Approve, TypeOK, DbTypes

\* A publication, or a Secret that appears late.
LEMMA PublishHistory ==
    ASSUME HInv, NEW a \in Attempts, Publish(a) \/ LateSecret(a), TypeOK
    PROVE  HInv'
BY QuietHistory DEF Publish, LateSecret, TypeOK, ClusterTypes

\* The janitor reads the obligations as they are.
LEMMA JanitorHistory ==
    ASSUME IInv, HInv, NEW w \in Workers, NEW a \in Attempts, Janitor(w, a[1], a[2])
    PROVE  HInv'
<1>1. PICK o, n : o = a[1] /\ n = a[2]
  OBVIOUS
<1>2. UNCHANGED <<dbVars, clusterVars, outbox>> /\ CallTypes /\ o \in Ops
  BY <1>1 DEF Janitor, IInv, TypeOK, Attempts
<1>3. PICK c : c = [Idle EXCEPT !.op = o, !.tgt = n, !.seen = obl[o], !.pc = "judge"]
  OBVIOUS
<1>4. c.pc = "judge" /\ c.op = o /\ c.num = 0 /\ c.seen = obl[o]
  BY <1>3 DEF Idle
<1>5. worker'[w] = c /\ \A v \in Workers : v # w => worker'[v] = worker[v]
  BY <1>1, <1>2, <1>3 DEF Janitor, CallTypes
<1>6. /\ OrderInv' /\ AttemptInv' /\ RevisionInv' /\ EvidenceInv' /\ RetryInv' /\ FailedInv'
      /\ NeverRollsBack' /\ SuccessIsDeployed'
  <2>1. /\ OrderInv /\ AttemptInv /\ RevisionInv /\ EvidenceInv /\ RetryInv /\ FailedInv
        /\ NeverRollsBack /\ SuccessIsDeployed
    BY DEF HInv
  <2>2. OrderInv'
    BY <1>2, <2>1 DEF OrderInv, Begun
  <2>3. AttemptInv'
    BY <1>2, <2>1 DEF AttemptInv, Begun
  <2>4. RevisionInv' /\ RetryInv' /\ FailedInv'
    BY <1>2, <2>1 DEF RevisionInv, Exists, RetryInv, FailedInv
  <2>5. NeverRollsBack'
    BY <1>2, <2>1 DEF NeverRollsBack
  <2>6. EvidenceInv'
    BY <1>2, <2>1, SameDeliveries DEF EvidenceInv
  <2>7. \A p, k : LatestDelivery(p, k)' = LatestDelivery(p, k)
    BY <1>2, SameDeliveries
  <2>8. SuccessIsDeployed'
    BY <1>2, <2>1, <2>7 DEF SuccessIsDeployed
  <2>9. QED BY <2>2, <2>3, <2>4, <2>5, <2>6, <2>8
<1>7. VerdictInv'
  <2>1. ASSUME NEW v \in Workers, Owner(v)' PROVE VerdictOK(v)'
    <3>1. v # w /\ worker'[v] = worker[v]
      BY <1>4, <1>5, <2>1 DEF Owner
    <3>2. VerdictOK(v)
      BY <2>1, <3>1 DEF HInv, VerdictInv, Owner, Busy
    <3>3. \A p, k : /\ LatestDelivery(p, k)' = LatestDelivery(p, k)
                    /\ Delivered(p, k)' <=> Delivered(p, k)
      BY <1>2, SameDeliveries
    <3>4. QED BY <1>2, <3>1, <3>2, <3>3 DEF VerdictOK, AtEnd
  <2>2. QED BY <2>1 DEF VerdictInv
<1>8. PhaseInv'
  <2>1. ASSUME NEW v \in Workers, Busy(v)' PROVE PhaseOK(v)'
    <3>1. CASE v = w
      <4>1. ~Owner(w)' /\ worker'[w].seen = obl'[worker'[w].op]
        BY <1>2, <1>4, <1>5 DEF Owner
      <4>2. QED BY <3>1, <4>1 DEF PhaseOK
    <3>2. CASE v # w
      <4>1. worker'[v] = worker[v]
        BY <1>5, <3>2
      <4>2. QED BY <1>2, <2>1, <4>1 DEF HInv, PhaseInv, PhaseOK, Owner, Busy, Early
    <3>3. QED BY <3>1, <3>2
  <2>2. QED BY <2>1 DEF PhaseInv
<1>9. QED BY <1>6, <1>7, <1>8 DEF HInv

\* What an interrupted attempt keeps.
LEMMA InterruptedRows ==
    ASSUME DbTypes, NEW o \in Ops, NEW kind, NEW m \in 1 .. Len(att[o])
    PROVE  LET r == Interrupted(o, kind)[m]
           IN  /\ r.ext = att[o][m].ext
               /\ r.state = "running" => att[o][m].state = "running" /\ kind = "execute"
<1>1. PICK r : r = Interrupted(o, kind)[m]
  OBVIOUS
<1>2. r = IF kind # "execute" /\ att[o][m].state = "running"
          THEN [att[o][m] EXCEPT !.state = "uncertain"] ELSE att[o][m]
  BY <1>1 DEF Interrupted
<1>3. att[o][m] \in AttemptRows
  BY ElementOfSeq DEF DbTypes
<1>4. QED BY <1>1, <1>2, <1>3 DEF AttemptRows

\* An attempt that begins: the ones before it keep what they say, and nothing
\* that began is left open behind it.
LEMMA BeginHistory ==
    ASSUME IInv, HInv, NEW w \in Workers, NEW o \in Ops, NEW kind \in Kinds, Begin(w, o, kind)
    PROVE  HInv'
<1>1. /\ TypeOK /\ DbTypes /\ CallTypes /\ EndedInv /\ CallInv
      /\ OrderInv /\ AttemptInv /\ RevisionInv /\ EvidenceInv /\ RetryInv /\ FailedInv
      /\ VerdictInv /\ PhaseInv /\ NeverRollsBack /\ SuccessIsDeployed
      /\ worker[w] = Idle /\ TotalAttempts < MaxAttempts /\ ~Blocked(o)
      /\ IF kind = "execute" THEN op[o] \in {"pending", "failed"} /\ ~PendingCredentials(o)
         ELSE op[o] \in {"running", "uncertain"}
      /\ op' = [op EXCEPT ![o] = "running"]
      /\ UNCHANGED <<clusterVars, outbox>>
  BY DEF IInv, HInv, TypeOK, Begin
<1>2. PICK k, n : k = Len(att[o]) /\ n = Len(att[o]) + 1
  OBVIOUS
<1>3. /\ k \in Nat /\ k = Len(obl[o]) /\ obl[o] \in Seq(Obligations) /\ n = k + 1
  <2>1. /\ Len(att[o]) \in Nat /\ Len(att[o]) = Len(obl[o]) /\ obl[o] \in Seq(Obligations)
    BY <1>1, LenProperties DEF DbTypes
  <2>2. QED BY <1>2, <2>1
<1>4. PICK s : s = Interrupted(o, kind)
  OBVIOUS
<1>5. /\ s \in Seq(AttemptRows) /\ Len(s) = k
      /\ \A m \in 1 .. k : /\ s[m].kind = att[o][m].kind /\ s[m].ext = att[o][m].ext
                           /\ s[m].state = "running" => att[o][m].state = "running" /\ kind = "execute"
  BY <1>1, <1>2, <1>4, InterruptedAttempts, InterruptedRows
<1>6. PICK r, b : /\ r = [kind |-> kind, state |-> "running", ext |-> FALSE]
                  /\ b = IF kind = "recover" THEN NoObligation
                         ELSE [phase |-> "preparing", resolved |-> FALSE]
  OBVIOUS
<1>7. /\ r \in AttemptRows /\ r.kind = kind /\ ~r.ext /\ b \in Obligations
      /\ kind = "recover" => b.phase = "none" /\ b.resolved
      /\ kind # "recover" => b.phase = "preparing" /\ ~b.resolved
  BY <1>6 DEF AttemptRows, OpStates, Kinds, Obligations, NoObligation
<1>8. PICK as, bs : as = Append(s, r) /\ bs = Append(obl[o], b)
  OBVIOUS
<1>9. /\ as \in Seq(AttemptRows) /\ Len(as) = n
      /\ \A m \in 1 .. k : as[m] = s[m]
      /\ as[n] = r
  BY <1>3, <1>5, <1>7, <1>8, AppendProperties
<1>10. /\ bs \in Seq(Obligations) /\ Len(bs) = n
       /\ \A m \in 1 .. k : bs[m] = obl[o][m]
       /\ bs[n] = b
  BY <1>3, <1>7, <1>8, AppendProperties
<1>11. att' = [att EXCEPT ![o] = as] /\ obl' = [obl EXCEPT ![o] = bs]
  BY <1>4, <1>6, <1>8 DEF Begin, Interrupted
<1>12. obl'[o] = bs
  BY <1>1, <1>11 DEF DbTypes
<1>13. PICK c : c = [Idle EXCEPT !.op = o, !.num = n, !.seen = bs,
                        !.pc = CASE kind = "execute" -> "prepare"
                                 [] kind = "observe" -> "sweep"
                                 [] kind = "recover" -> "passive"]
  OBVIOUS
<1>14. /\ c.pc \in {"sweep", "prepare"} => kind # "recover"
       /\ c.pc = "passive" => kind = "recover"
       /\ c.pc \in {"sweep", "prepare", "passive"} /\ c.op = o /\ c.num = n
       /\ c.seen = bs /\ c.res = "none"
  BY <1>13 DEF Idle, Kinds
<1>15. worker'[w] = c /\ \A v \in Workers : v # w => worker'[v] = worker[v]
  BY <1>1, <1>2, <1>12, <1>13 DEF Begin, CallTypes
<1>16. /\ \A p \in Ops : p # o => att'[p] = att[p] /\ obl'[p] = obl[p] /\ op'[p] = op[p]
       /\ att'[o] = as /\ obl'[o] = bs /\ op'[o] = "running"
  BY <1>1, <1>11 DEF DbTypes
<1>17. /\ \A m \in 1 .. k : /\ as[m].kind = att[o][m].kind /\ as[m].ext = att[o][m].ext
                            /\ as[m].state = "running" => att[o][m].state = "running" /\ kind = "execute"
  BY <1>5, <1>9
<1>18. /\ \A m \in 1 .. k : m \in 1 .. n
       /\ \A m \in 1 .. n : m \in 1 .. k \/ m = n
       /\ n \notin 1 .. k /\ n \in 1 .. n
  BY <1>3
\* The attempts and the obligations that were there before.
<1>19. \A p \in Ops : Len(att[p]) \in Nat /\ Len(obl[p]) = Len(att[p])
  BY <1>1, LenProperties DEF DbTypes
<1>20. ASSUME NEW p \in Ops, NEW m \in 1 .. Len(att[p])
       PROVE  /\ m \in 1 .. Len(att'[p])
              /\ att'[p][m].kind = att[p][m].kind /\ att'[p][m].ext = att[p][m].ext
              /\ obl'[p][m] = obl[p][m]
  <2>1. CASE p # o
    BY <1>16, <1>20, <2>1
  <2>2. CASE p = o
    BY <1>2, <1>9, <1>10, <1>16, <1>17, <1>20, <1>18, <2>2
  <2>3. QED BY <2>1, <2>2
<1>21. \A p \in Ops : \A m \in 1 .. Len(att[p]) :
          LatestDelivery(p, m)' = LatestDelivery(p, m)
  <2>1. ASSUME NEW p \in Ops, NEW m \in 1 .. Len(att[p])
        PROVE  LatestDelivery(p, m)' = LatestDelivery(p, m)
    <3>1. \A j \in 1 .. m : att'[p][j].kind = att[p][j].kind
      BY <1>19, <1>20
    <3>2. QED BY <3>1, LatestKept
  <2>2. QED BY <2>1
<1>22. \A p \in Ops : \A m \in 1 .. Len(att[p]) : Delivered(p, m) => Delivered(p, m)'
  BY <1>1, <1>21 DEF Delivered
<1>23. ASSUME NEW a \in Attempts, Exists(a)
       PROVE  Exists(a)' /\ att'[a[1]][a[2]].kind = att[a[1]][a[2]].kind
  <2>1. a[1] \in Ops /\ a[2] \in 1 .. Len(att[a[1]])
    BY <1>1, <1>23, ExistsFields
  <2>2. a[2] \in 1 .. Len(att'[a[1]]) /\ att'[a[1]][a[2]].kind = att[a[1]][a[2]].kind
    BY <1>20, <2>1
  <2>3. Len(att'[a[1]]) \in Nat
    BY <1>3, <1>9, <1>16, <1>19, <2>1
  <2>4. QED BY <2>2, <2>3 DEF Exists
<1>24. OrderInv'
  <2>1. ASSUME NEW p \in Ops, NEW q \in Ops, Begun(p)', Begun(q)', p < q
        PROVE  op'[p] \in {"failed", "succeeded"}
    <3>1. p \in Nat /\ q \in Nat /\ o \in Nat
      BY DeploymentAssumption
    <3>2. CASE p = o
      BY <1>1, <1>16, <2>1, <3>1, <3>2 DEF Blocked, Begun
    <3>3. CASE q = o
      <4>1. p # o /\ op'[p] = op[p] /\ op[p] \in OpStates
        BY <1>1, <1>16, <2>1, <3>1, <3>3 DEF DbTypes
      <4>2. op[p] \notin {"running", "uncertain"} /\ op[p] \notin {"none", "pending"}
        BY <1>1, <2>1, <4>1 DEF Blocked, Begun
      <4>3. QED BY <4>1, <4>2 DEF OpStates
    <3>4. CASE p # o /\ q # o
      BY <1>1, <1>16, <2>1, <3>4 DEF OrderInv, Begun
    <3>5. QED BY <3>2, <3>3, <3>4
  <2>2. QED BY <2>1 DEF OrderInv
<1>25. AttemptInv'
  <2>1. ASSUME NEW p \in Ops, p # o
        PROVE  /\ Begun(p)' => Len(att'[p]) > 0
               /\ Len(att'[p]) > 0 => att'[p][1].kind = "execute"
               /\ \A m \in 1 .. Len(att'[p]) :
                     /\ att'[p][m].state = "running" =>
                           m = Len(att'[p]) /\ ~att'[p][m].ext /\ op'[p] = "running"
                     /\ att'[p][m].kind = "execute" => \A j \in 1 .. m - 1 : obl'[p][j].resolved
    BY <1>1, <1>16, <2>1 DEF AttemptInv, Begun
  <2>2. as[1].kind = "execute"
    <3>1. CASE k = 0
      <4>1. ~Begun(o)
        <5>1. Begun(o) => Len(att[o]) > 0
          BY <1>1 DEF AttemptInv
        <5>2. QED BY <1>2, <3>1, <5>1
      <4>2. kind = "execute"
        BY <1>1, <4>1 DEF Begun
      <4>3. n = 1
        BY <1>3, <3>1
      <4>4. QED BY <1>7, <1>9, <4>2, <4>3
    <3>2. CASE k # 0
      <4>1. k > 0 /\ 1 \in 1 .. k
        BY <1>3, <3>2
      <4>2. att[o][1].kind = "execute"
        BY <1>1, <1>2, <4>1 DEF AttemptInv
      <4>3. QED BY <1>17, <4>1, <4>2
    <3>3. QED BY <3>1, <3>2
  <2>3. ASSUME NEW m \in 1 .. n, as[m].state = "running" PROVE m = n /\ ~as[m].ext
    <3>1. m \notin 1 .. k
      BY <1>1, <1>2, <1>17, <2>3 DEF AttemptInv
    <3>2. QED BY <1>7, <1>9, <1>18, <2>3, <3>1
  <2>4. ASSUME NEW m \in 1 .. n, as[m].kind = "execute", NEW j \in 1 .. m - 1
        PROVE  bs[j].resolved
    <3>1. j \in 1 .. k /\ bs[j] = obl[o][j]
      BY <1>3, <1>10, <2>4
    <3>2. CASE m \in 1 .. k
      BY <1>1, <1>2, <1>17, <2>4, <3>1, <3>2 DEF AttemptInv
    <3>3. CASE m = n
      <4>1. kind = "execute"
        BY <1>7, <1>9, <2>4, <3>3
      <4>2. QED BY <1>1, <1>3, <3>1, <4>1 DEF PendingCredentials
    <3>4. QED BY <1>18, <2>4, <3>2, <3>3
  <2>5. Len(as) > 0 /\ Len(as) = n
    BY <1>3, <1>9
  <2>6. /\ Begun(o)' => Len(att'[o]) > 0
        /\ Len(att'[o]) > 0 => att'[o][1].kind = "execute"
        /\ \A m \in 1 .. Len(att'[o]) :
              /\ att'[o][m].state = "running" =>
                    m = Len(att'[o]) /\ ~att'[o][m].ext /\ op'[o] = "running"
              /\ att'[o][m].kind = "execute" => \A j \in 1 .. m - 1 : obl'[o][j].resolved
    BY <1>16, <2>2, <2>3, <2>4, <2>5
  <2>7. QED BY <2>1, <2>6 DEF AttemptInv
<1>26. RevisionInv'
  <2>1. \A i \in 1 .. Len(history) : history[i].by \in Attempts
    BY <1>1, RevisionFacts
  <2>2. QED BY <1>1, <1>23, <2>1 DEF RevisionInv
<1>27. EvidenceInv'
  <2>1. ASSUME NEW a \in Attempts, job[a].evidence = "succeeded" PROVE Delivered(a[1], a[2])'
    <3>1. Exists(a)
      BY <2>1 DEF IInv, JobInv, JobOK, NoJob
    <3>2. a[1] \in Ops /\ a[2] \in 1 .. Len(att[a[1]]) /\ Delivered(a[1], a[2])
      BY <1>1, <2>1, <3>1, ExistsFields DEF EvidenceInv
    <3>3. QED BY <1>22, <3>2
  <2>2. QED BY <1>1, <2>1 DEF EvidenceInv
<1>28. RetryInv'
  <2>1. ASSUME NEW p \in Ops, NEW m \in 1 .. Len(att'[p]), NEW i \in 1 .. Len(history),
               att'[p][m].kind = "execute", history[i].by[1] = p, history[i].by[2] < m
        PROVE  \E j \in 1 .. m - 1 : att'[p][j].ext
    <3>1. CASE m \in 1 .. Len(att[p])
      <4>1. att[p][m].kind = "execute"
        BY <1>20, <2>1, <3>1
      <4>2. PICK j \in 1 .. m - 1 : att[p][j].ext
        BY <1>1, <2>1, <3>1, <4>1 DEF RetryInv
      <4>3. j \in 1 .. Len(att[p])
        BY <1>19, <3>1, <4>2
      <4>4. QED BY <1>20, <4>2, <4>3
    <3>2. CASE m \notin 1 .. Len(att[p])
      <4>1. p = o
        BY <1>16, <2>1, <3>2
      <4>2. m = n /\ kind = "execute"
        <5>1. m \in 1 .. n /\ m \notin 1 .. k /\ as[m].kind = "execute"
          BY <1>2, <1>9, <1>16, <2>1, <3>2, <4>1
        <5>2. m = n
          BY <1>18, <5>1
        <5>3. QED BY <1>7, <1>9, <5>1, <5>2
      <4>3. history[i].by[2] \in 1 .. Len(att[o])
        BY <1>1, <2>1, <4>1, RevisionFacts
      <4>4. Len(att[o]) # 0
        BY <1>3, <1>2, <4>3
      <4>5. op[o] = "failed"
        BY <1>1, <4>2, <4>4 DEF EndedInv
      <4>6. PICK j \in 1 .. Len(att[o]) : att[o][j].ext
        BY <1>1, <2>1, <4>1, <4>5 DEF FailedInv
      <4>7. j \in 1 .. m - 1 /\ att'[o][j].ext
        <5>1. m - 1 = Len(att[o])
          BY <1>2, <1>3, <4>2
        <5>2. QED BY <1>20, <4>6, <5>1
      <4>8. QED BY <4>1, <4>7
    <3>3. QED BY <3>1, <3>2
  <2>2. QED BY <1>1, <2>1 DEF RetryInv
<1>29. FailedInv'
  <2>1. ASSUME NEW p \in Ops, NEW i \in 1 .. Len(history), op'[p] = "failed",
               history[i].by[1] = p
        PROVE  \E j \in 1 .. Len(att'[p]) : att'[p][j].ext
    BY <1>1, <1>16, <2>1 DEF FailedInv
  <2>2. QED BY <1>1, <2>1 DEF FailedInv
<1>30. VerdictInv'
  <2>1. ASSUME NEW v \in Workers, Owner(v)' PROVE VerdictOK(v)'
    <3>1. CASE v = w
      BY <1>14, <1>15, <3>1 DEF VerdictOK
    <3>2. CASE v # w
      <4>1. worker'[v] = worker[v] /\ Owner(v) /\ Busy(v) /\ VerdictOK(v)
        BY <1>1, <1>15, <2>1, <3>2 DEF VerdictInv, Owner, Busy
      <4>2. PICK p, m : p = worker[v].op /\ m = worker[v].num
        OBVIOUS
      <4>3. p \in Ops /\ m \in 1 .. Len(att[p])
        BY <1>1, <4>1, <4>2, TargetExists DEF Owner, DbTypes
      <4>4. PICK d \in 1 .. m : d = LatestDelivery(p, m)
        BY <1>1, <4>3, LatestFacts
      <4>5. d = LatestDelivery(p, m)' /\ (Delivered(p, m) => Delivered(p, m)')
        BY <1>21, <1>22, <4>4, <4>3
      <4>6. d \in 1 .. Len(att[p]) /\ obl'[p][d] = obl[p][d]
        BY <1>19, <1>20, <4>3, <4>4
      <4>7. /\ worker[v].res = "succeeded" => Delivered(p, m)
            /\ worker[v].res = "failed" /\ ~worker[v].ext => obl[p][d].phase = "preparing"
            /\ worker[v].res # "none" => AtEnd(v)
        BY <4>1, <4>2, <4>4 DEF VerdictOK
      <4>8. QED BY <4>1, <4>2, <4>5, <4>6, <4>7 DEF VerdictOK, AtEnd
    <3>3. QED BY <3>1, <3>2
  <2>2. QED BY <2>1 DEF VerdictInv
<1>31. PhaseInv'
  <2>1. ASSUME NEW v \in Workers, Busy(v)' PROVE PhaseOK(v)'
    <3>1. CASE v = w
      <4>1. /\ c.pc \in {"sweep", "prepare"} => bs[n].phase = "preparing"
            /\ c.pc = "passive" => bs[n].phase = "none"
        BY <1>7, <1>10, <1>14
      <4>2. Early(w)' => c.pc \in {"sweep", "prepare"}
        BY <1>14, <1>15 DEF Early, Revoking
      <4>3. obl'[o] = bs
        BY <1>16
      <4>4. QED BY <1>14, <1>15, <3>1, <4>1, <4>2, <4>3 DEF PhaseOK
    <3>2. CASE v # w
      <4>1. worker'[v] = worker[v] /\ Busy(v) /\ PhaseOK(v) /\ worker[v].op \in Ops
        BY <1>1, <1>15, <2>1, <3>2, TargetExists DEF PhaseInv, Busy
      <4>2. Owner(v) => obl'[worker[v].op][worker[v].num] = obl[worker[v].op][worker[v].num]
        <5>1. ASSUME Owner(v) PROVE worker[v].num \in 1 .. Len(att[worker[v].op])
          BY <1>1, <4>1, <5>1, TargetExists DEF Owner, DbTypes
        <5>2. QED BY <1>20, <4>1, <5>1
      <4>3. ASSUME NEW m \in 1 .. Len(worker[v].seen)
            PROVE  obl'[worker[v].op][m] = obl[worker[v].op][m]
        <5>1. m \in 1 .. Len(att[worker[v].op])
          BY <1>1, <1>19, <4>1, <4>3, SeenExists
        <5>2. QED BY <1>20, <4>1, <5>1
      <4>4. QED BY <4>1, <4>2, <4>3 DEF PhaseOK, Owner, Busy, Early
    <3>3. QED BY <3>1, <3>2
  <2>2. QED BY <2>1 DEF PhaseInv
<1>32. NeverRollsBack'
  BY <1>1 DEF NeverRollsBack
<1>33. SuccessIsDeployed'
  <2>1. ASSUME NEW a \in Attempts, outbox'[a] # "none"
        PROVE  /\ op'[a[1]] = "succeeded"
               /\ \E i \in 1 .. Len(history) : history[i] = [by |-> a, status |-> "deployed"]
    <3>1. a[1] \in Ops /\ outbox[a] # "none"
      BY <1>1, <2>1 DEF Attempts
    <3>2. op[a[1]] = "succeeded"
      BY <1>1, <3>1 DEF SuccessIsDeployed
    <3>3. a[1] # o
      BY <1>1, <3>2
    <3>4. QED BY <1>1, <1>16, <3>1, <3>2, <3>3 DEF SuccessIsDeployed
  <2>2. ASSUME NEW p \in Ops, op'[p] = "succeeded",
               \A q \in Ops : q > p => op'[q] \in {"none", "pending"}
        PROVE  /\ history # <<>>
               /\ history[Len(history)] =
                     [by |-> <<p, LatestDelivery(p, Len(att[p]))'>>, status |-> "deployed"]
    <3>1. p # o /\ op[p] = "succeeded" /\ att'[p] = att[p]
      BY <1>16, <2>2
    <3>2. ASSUME NEW q \in Ops, q > p PROVE op[q] \in {"none", "pending"}
      BY <1>16, <2>2, <3>2
    <3>3. /\ history # <<>>
          /\ history[Len(history)] =
                [by |-> <<p, LatestDelivery(p, Len(att[p]))>>, status |-> "deployed"]
      BY <1>1, <3>1, <3>2 DEF SuccessIsDeployed
    <3>4. Len(att[p]) > 0 /\ Len(att[p]) \in 1 .. Len(att[p])
      BY <1>1, <1>19, <3>1 DEF AttemptInv, Begun
    <3>5. PICK m \in 1 .. Len(att[p]) : m = Len(att[p]) /\ m = Len(att'[p])
      BY <3>1, <3>4
    <3>6. LatestDelivery(p, m)' = LatestDelivery(p, m)
      BY <1>21
    <3>7. LatestDelivery(p, Len(att[p]))' = LatestDelivery(p, m)'
      BY <3>5, LatestOfAll
    <3>8. QED BY <3>3, <3>5, <3>6, <3>7
  <2>3. QED BY <1>1, <2>1, <2>2 DEF SuccessIsDeployed
<1>34. QED
  BY <1>24, <1>25, <1>26, <1>27, <1>28, <1>29, <1>30, <1>31, <1>32, <1>33 DEF HInv

-----------------------------------------------------------------------------
(* The cluster changes the release *)

\* While an executor runs, or may still start, its operation is the newest that
\* began, and has not ended.
LEMMA WorkingIsNewest ==
    ASSUME IInv, OrderInv, NEW a \in Attempts, Working(a)
    PROVE  /\ a[1] \in Ops /\ a[2] \in 1 .. Len(att[a[1]])
           /\ op[a[1]] \notin {"failed", "succeeded"} /\ Begun(a[1])
           /\ \A p \in Ops : Begun(p) => p <= a[1]
<1>1. Exists(a) /\ ~obl[a[1]][a[2]].resolved
  BY WorkingIsOpen
<1>2. /\ a[1] \in Ops /\ a[2] \in 1 .. Len(att[a[1]]) /\ a[2] \in 1 .. Len(obl[a[1]])
      /\ Len(att[a[1]]) \in Nat
  BY <1>1, ExistsFields, LenProperties DEF IInv, TypeOK, DbTypes
<1>3. op[a[1]] \notin {"failed", "succeeded"}
  BY <1>1, <1>2 DEF IInv, EndedInv, PendingCredentials
<1>4. Begun(a[1])
  <2>1. Len(att[a[1]]) # 0
    BY <1>2
  <2>2. QED BY <1>2, <2>1 DEF IInv, EndedInv, Begun
<1>5. \A p \in Ops : Begun(p) => p <= a[1]
  <2>1. ASSUME NEW p \in Ops, Begun(p), ~(p <= a[1]) PROVE FALSE
    <3>1. PICK o \in Ops : o = a[1]
      BY <1>2
    <3>2. p \in Nat /\ o \in Nat /\ o < p
      BY <2>1, <3>1, DeploymentAssumption
    <3>3. op[o] \in {"failed", "succeeded"}
      BY <1>4, <2>1, <3>1, <3>2 DEF OrderInv
    <3>4. QED BY <1>3, <3>1, <3>3
  <2>2. QED BY <2>1
<1>6. QED BY <1>2, <1>3, <1>4, <1>5

\* A step of the cluster: what was deployed stays deployed, and a revision is
\* added or changed only by an executor at work.
LEMMA ReleaseHistory ==
    ASSUME IInv, HInv, UNCHANGED <<dbVars, outbox, worker>>,
           RevisionInv', NeverRollsBack',
           \A i \in 1 .. Len(history) : history[i].status = "deployed" =>
               i \in 1 .. Len(history') /\ history'[i] = history[i],
           \A i \in 1 .. Len(history') :
               \/ \E j \in 1 .. Len(history) : history[j].by = history'[i].by
               \/ history'[i].by \in Attempts /\ Working(history'[i].by),
           history' = history \/ \E a \in Attempts : Working(a),
           \A a \in Attempts : job'[a].evidence = "succeeded" =>
               job[a].evidence = "succeeded" \/ Delivered(a[1], a[2])'
    PROVE  HInv'
<1>1. /\ TypeOK /\ DbTypes /\ OrderInv /\ AttemptInv /\ EvidenceInv /\ RetryInv /\ FailedInv
      /\ VerdictInv /\ PhaseInv /\ SuccessIsDeployed
  BY DEF IInv, HInv, TypeOK
<1>2. OrderInv' /\ AttemptInv'
  BY <1>1 DEF OrderInv, Begun, AttemptInv
<1>3. \A o, n : LatestDelivery(o, n)' = LatestDelivery(o, n)
  BY DEF LatestDelivery
<1>4. ASSUME NEW o, NEW n, Delivered(o, n) PROVE Delivered(o, n)'
  <2>1. PICK i \in 1 .. Len(history) :
           history[i] = [by |-> <<o, LatestDelivery(o, n)>>, status |-> "deployed"]
    BY <1>4 DEF Delivered
  <2>2. i \in 1 .. Len(history') /\ history'[i] = history[i]
    BY <2>1
  <2>3. QED BY <1>3, <2>1, <2>2 DEF Delivered
<1>5. EvidenceInv'
  BY <1>1, <1>4 DEF EvidenceInv
<1>6. VerdictInv'
  <2>1. ASSUME NEW w \in Workers, Owner(w)' PROVE VerdictOK(w)'
    <3>1. VerdictOK(w)
      BY <1>1, <2>1 DEF VerdictInv, Owner, Busy
    <3>2. QED BY <1>3, <1>4, <3>1 DEF VerdictOK, AtEnd
  <2>2. QED BY <2>1 DEF VerdictInv
<1>7. PhaseInv'
  BY <1>1 DEF PhaseInv, PhaseOK, Owner, Busy, Early
<1>8. RetryInv'
  <2>1. ASSUME NEW o \in Ops, NEW n \in 1 .. Len(att[o]), NEW i \in 1 .. Len(history'),
               att[o][n].kind = "execute", history'[i].by[1] = o, history'[i].by[2] < n
        PROVE  \E k \in 1 .. n - 1 : att[o][k].ext
    <3>1. CASE \E j \in 1 .. Len(history) : history[j].by = history'[i].by
      BY <1>1, <2>1, <3>1 DEF RetryInv
    <3>2. CASE history'[i].by \in Attempts /\ Working(history'[i].by)
      <4>1. PICK a \in Attempts : a = history'[i].by /\ Working(a)
        BY <3>2
      <4>2. a[1] = o /\ a[2] \in 1 .. Len(att[o]) /\ ~obl[o][a[2]].resolved /\ a[2] < n
        BY <1>1, <2>1, <4>1, WorkingIsOpen, WorkingIsNewest
      <4>3. a[2] \in 1 .. n - 1
        BY <4>2
      <4>4. QED BY <1>1, <2>1, <4>2, <4>3 DEF AttemptInv
    <3>3. QED BY <3>1, <3>2
  <2>2. QED BY <2>1 DEF RetryInv
<1>9. FailedInv'
  <2>1. ASSUME NEW o \in Ops, NEW i \in 1 .. Len(history'), op[o] = "failed",
               history'[i].by[1] = o
        PROVE  \E k \in 1 .. Len(att[o]) : att[o][k].ext
    <3>1. CASE \E j \in 1 .. Len(history) : history[j].by = history'[i].by
      BY <1>1, <2>1, <3>1 DEF FailedInv
    <3>2. CASE history'[i].by \in Attempts /\ Working(history'[i].by)
      BY <1>1, <2>1, <3>2, WorkingIsNewest
    <3>3. QED BY <3>1, <3>2
  <2>2. QED BY <2>1 DEF FailedInv
<1>10. SuccessIsDeployed'
  <2>1. ASSUME NEW a \in Attempts, outbox[a] # "none"
        PROVE  /\ op[a[1]] = "succeeded"
               /\ \E i \in 1 .. Len(history') : history'[i] = [by |-> a, status |-> "deployed"]
    <3>1. PICK i \in 1 .. Len(history) : history[i] = [by |-> a, status |-> "deployed"]
      BY <1>1, <2>1 DEF SuccessIsDeployed
    <3>2. i \in 1 .. Len(history') /\ history'[i] = history[i]
      BY <3>1
    <3>3. QED BY <1>1, <2>1, <3>1, <3>2 DEF SuccessIsDeployed
  <2>2. ASSUME NEW o \in Ops, op[o] = "succeeded",
               \A p \in Ops : p > o => op[p] \in {"none", "pending"}
        PROVE  history' = history
    <3>1. ASSUME NEW a \in Attempts, Working(a) PROVE FALSE
      <4>1. /\ a[1] \in Ops /\ op[a[1]] \notin {"failed", "succeeded"} /\ Begun(a[1])
            /\ \A p \in Ops : Begun(p) => p <= a[1]
        BY <1>1, <3>1, WorkingIsNewest
      <4>2. Begun(o) /\ ~(a[1] > o) /\ a[1] # o
        BY <2>2, <4>1 DEF Begun
      <4>3. QED BY <4>1, <4>2, DeploymentAssumption
    <3>2. QED BY <3>1
  <2>3. ASSUME NEW o \in Ops, op[o] = "succeeded",
               \A p \in Ops : p > o => op[p] \in {"none", "pending"}
        PROVE  /\ history' # <<>>
               /\ history'[Len(history')] =
                     [by |-> <<o, LatestDelivery(o, Len(att[o]))>>, status |-> "deployed"]
    <3>1. history' = history
      BY <2>2, <2>3
    <3>2. QED BY <1>1, <2>3, <3>1 DEF SuccessIsDeployed
  <2>4. \A o : LatestDelivery(o, Len(att[o]))' = LatestDelivery(o, Len(att[o]))
    BY DEF LatestDelivery
  <2>5. QED BY <2>1, <2>3, <2>4 DEF SuccessIsDeployed
<1>11. QED
  BY <1>2, <1>5, <1>6, <1>7, <1>8, <1>9, <1>10 DEF HInv

\* A Job goes on, or ends, without a change of the release.
LEMMA JobHistory ==
    ASSUME IInv, HInv, NEW a \in Attempts, NEW j, job' = [job EXCEPT ![a] = j],
           UNCHANGED <<dbVars, history, outbox, worker>>,
           job[a].st \in {"upgrading", "done"} => j.st \in {"upgrading", "done"},
           j.st = "upgrading" => job[a].st = "upgrading",
           j.evidence = "succeeded" => job[a].evidence = "succeeded" \/ Delivered(a[1], a[2])
    PROVE  HInv'
<1>1. TypeOK /\ RevisionInv /\ NeverRollsBack
  BY DEF IInv, HInv
<1>2. job'[a] = j /\ \A b \in Attempts : b # a => job'[b] = job[b]
  BY <1>1 DEF TypeOK, ClusterTypes
<1>3. RevisionInv'
  <2>1. ASSUME NEW i \in 1 .. Len(history) PROVE job'[history[i].by].st \in {"upgrading", "done"}
    <3>1. PICK b \in Attempts : b = history[i].by
      BY <1>1, RevisionFacts
    <3>2. job[b].st \in {"upgrading", "done"}
      BY <1>1, <3>1 DEF RevisionInv
    <3>3. QED BY <1>2, <3>1, <3>2
  <2>2. ASSUME NEW b \in Attempts, job'[b].st = "upgrading" PROVE job[b].st = "upgrading"
    BY <1>2, <2>2
  <2>3. QED BY <1>1, <2>1, <2>2 DEF RevisionInv, Exists
<1>4. NeverRollsBack'
  BY <1>1 DEF NeverRollsBack
<1>5. \A b \in Attempts : job'[b].evidence = "succeeded" =>
         job[b].evidence = "succeeded" \/ Delivered(b[1], b[2])'
  BY <1>2, SameDeliveries
<1>6. QED BY <1>3, <1>4, <1>5, ReleaseHistory

\* What `helm status` calls a success was delivered.
LEMMA StatusIsDelivered ==
    ASSUME TypeOK, NEW o, NEW n, StatusOf(<<o, LatestDelivery(o, n)>>) = "succeeded"
    PROVE  Delivered(o, n)
<1>1. PICK k, d : k = Len(history) /\ d = LatestDelivery(o, n)
  OBVIOUS
<1>2. history \in Seq(Revisions) /\ history # <<>> /\ history[k].by = <<o, d>>
      /\ history[k].status = "deployed"
  BY <1>1 DEF StatusOf, TypeOK, ClusterTypes
<1>3. k \in 1 .. Len(history)
  BY <1>1, <1>2, EmptySeq, LenProperties
<1>4. history[k] \in Revisions
  BY <1>2, <1>3, ElementOfSeq
<1>5. history[k] = [by |-> <<o, d>>, status |-> "deployed"]
  BY <1>2, <1>4 DEF Revisions
<1>6. QED BY <1>1, <1>3, <1>5 DEF Delivered

\* A Job that arrives late, observes, passes its deadline or is refused.
LEMMA WithoutUpgradeHistory ==
    ASSUME IInv, HInv, NEW a \in Attempts,
           \/ LateJob(a) \/ HelmObserve(a) \/ Deadline(a)
           \/ HelmCheck(a) /\ UNCHANGED history
           \/ Killed(a) /\ UNCHANGED history
    PROVE  HInv'
<1>1. TypeOK /\ job[a] \in Jobs /\ UNCHANGED <<dbVars, history, outbox, worker>>
  BY DEF IInv, TypeOK, ClusterTypes, LateJob, HelmObserve, Deadline, HelmCheck, Killed
<1>2. CASE LateJob(a)
  <2>1. PICK st \in {"active", "none"} : job' = [job EXCEPT ![a].st = st]
    BY <1>2 DEF LateJob
  <2>2. PICK j : j = [job[a] EXCEPT !.st = st]
    OBVIOUS
  <2>3. job' = [job EXCEPT ![a] = j] /\ j.st = st /\ j.evidence = job[a].evidence
        /\ job[a].st = "inflight"
    BY <1>1, <1>2, <2>1, <2>2 DEF LateJob, Jobs
  <2>4. QED BY <1>1, <2>3, JobHistory
<1>3. CASE HelmObserve(a)
  <2>1. PICK e : e = StatusOf(<<a[1], LatestDelivery(a[1], a[2])>>)
    OBVIOUS
  <2>2. job' = [job EXCEPT ![a] = Ended(e)] /\ job[a].st = "active"
    BY <1>3, <2>1 DEF HelmObserve
  <2>3. Ended(e).st = "done" /\ Ended(e).evidence = e
    BY DEF Ended
  <2>4. e = "succeeded" => Delivered(a[1], a[2])
    BY <1>1, <2>1, StatusIsDelivered
  <2>5. QED BY <1>1, <2>2, <2>3, <2>4, JobHistory
<1>4. CASE Deadline(a)
  <2>1. PICK j : j = [job[a] EXCEPT !.terminal = TRUE]
    OBVIOUS
  <2>2. job' = [job EXCEPT ![a] = j] /\ j.st = job[a].st /\ j.evidence = job[a].evidence
    BY <1>1, <1>4, <2>1 DEF Deadline, Jobs
  <2>3. QED BY <1>1, <2>2, JobHistory
<1>5. CASE HelmCheck(a) /\ UNCHANGED history
  <2>1. job' = [job EXCEPT ![a] = Ended("none")] /\ job[a].st = "active"
    <3>1. Len(Append(history, [by |-> a, status |-> "pending"])) # Len(history)
      BY <1>1, LenProperties, AppendProperties DEF TypeOK, ClusterTypes, Revisions
    <3>2. QED BY <1>5, <3>1 DEF HelmCheck
  <2>2. Ended("none").st = "done" /\ Ended("none").evidence = "none"
    BY DEF Ended
  <2>3. QED BY <1>1, <2>1, <2>2, JobHistory
<1>6. CASE Killed(a) /\ UNCHANGED history
  <2>1. job' = [job EXCEPT ![a] = Ended("none")]
    BY <1>6 DEF Killed
  <2>2. Ended("none").st = "done" /\ Ended("none").evidence = "none"
    BY DEF Ended
  <2>3. QED BY <1>1, <2>1, <2>2, JobHistory
<1>7. QED BY <1>2, <1>3, <1>4, <1>5, <1>6

\* A delivery that follows a revision of its own operation goes on only over a
\* failed release.
LEMMA RetryFollowsFailure ==
    ASSUME IInv, HInv, NEW o \in Ops, NEW n \in 1 .. Len(att[o]), att[o][n].kind = "execute",
           MayUpgrade(o, n), NEW i \in 1 .. Len(history), history[i].by[1] = o,
           history[i].by[2] < n
    PROVE  history[Len(history)].status = "failed"
<1>1. TypeOK /\ DbTypes /\ AttemptInv /\ RetryInv /\ Len(att[o]) \in Nat
  BY LenProperties DEF IInv, HInv, TypeOK, DbTypes
<1>2. PICK k \in 1 .. n - 1 : att[o][k].ext
  BY <1>1 DEF RetryInv
<1>3. PICK E : E = {m \in 1 .. n - 1 : /\ att[o][m].ext
                                       /\ LatestDelivery(o, m) # LatestDelivery(o, n)}
  OBVIOUS
<1>4. k \in E
  <2>1. k \in 1 .. Len(att[o]) /\ k < n
    BY <1>1, <1>2
  <2>2. LatestDelivery(o, n) = n /\ LatestDelivery(o, k) \in 1 .. k
    BY <1>1, <2>1, DeliveryIsLatest, LatestFacts
  <2>3. LatestDelivery(o, k) # LatestDelivery(o, n)
    BY <2>1, <2>2
  <2>4. QED BY <1>2, <1>3, <2>3
<1>5. PICK m : m = CHOOSE l \in E : \A j \in E : j <= l
  OBVIOUS
<1>6. m \in E
  <2>1. E \in SUBSET (1 .. n - 1) /\ E # {} /\ n - 1 \in Nat
    BY <1>1, <1>3, <1>4
  <2>2. \E l \in E : \A j \in E : j <= l
    BY <2>1, MaxExists
  <2>3. QED BY <1>5, <2>2
<1>7. PreviousDelivery(o, n) = LatestDelivery(o, m)
  BY <1>3, <1>4, <1>5 DEF PreviousDelivery
<1>8. PICK p : p = PreviousDelivery(o, n)
  OBVIOUS
<1>9. p # 0
  <2>1. m \in 1 .. Len(att[o])
    BY <1>1, <1>3, <1>6
  <2>2. LatestDelivery(o, m) \in 1 .. m
    BY <1>1, <2>1, LatestFacts
  <2>3. QED BY <1>7, <1>8, <2>2
<1>10. StatusOf(<<o, p>>) = "failed"
  BY <1>8, <1>9 DEF MayUpgrade
<1>11. QED BY <1>10 DEF StatusOf

\* An upgrade begins: Helm records it after everything that came before.
LEMMA UpgradeHistory ==
    ASSUME IInv, HInv, NEW a \in Attempts, HelmCheck(a),
           history' = Append(history, [by |-> a, status |-> "pending"])
    PROVE  HInv'
<1>1. /\ TypeOK /\ DbTypes /\ OrderInv /\ AttemptInv /\ RevisionInv /\ NeverRollsBack
      /\ UNCHANGED <<dbVars, outbox, worker>> /\ job[a].st = "active" /\ job[a] \in Jobs
      /\ att[a[1]][a[2]].kind = "execute" /\ history \in Seq(Revisions)
  BY DEF IInv, HInv, TypeOK, ClusterTypes, HelmCheck
<1>2. PICK o, n, r, k : o = a[1] /\ n = a[2] /\ r = [by |-> a, status |-> "pending"] /\ k = Len(history)
  OBVIOUS
<1>3. r \in Revisions /\ r.by = a /\ r.status = "pending"
  BY <1>2 DEF Revisions
<1>4. /\ k \in Nat /\ Len(history') = k + 1 /\ history'[k + 1] = r
      /\ \A i \in 1 .. k : history'[i] = history[i]
  BY <1>1, <1>2, <1>3, LenProperties, AppendProperties
<1>5. /\ Working(a) /\ o \in Ops /\ n \in 1 .. Len(att[o]) /\ ~obl[o][n].resolved
      /\ \A p \in Ops : Begun(p) => p <= o
      /\ Exists(a) /\ a = <<o, n>>
  <2>1. Working(a)
    BY <1>1 DEF Working
  <2>2. QED BY <1>1, <1>2, <2>1, WorkingIsOpen, WorkingIsNewest DEF Attempts
<1>6. MayUpgrade(o, n) /\ job' = [job EXCEPT ![a].st = "upgrading"]
  <2>1. history' # history
    BY <1>2, <1>4
  <2>2. QED BY <1>2, <2>1 DEF HelmCheck
<1>7. /\ job'[a] = [job[a] EXCEPT !.st = "upgrading"]
      /\ \A b \in Attempts : b # a => job'[b] = job[b]
  BY <1>1, <1>6 DEF TypeOK, ClusterTypes
<1>8. job'[a].st = "upgrading" /\ job'[a].evidence = job[a].evidence
  BY <1>1, <1>7 DEF Jobs
<1>9. RevisionInv'
  <2>1. ASSUME NEW i \in 1 .. k
        PROVE  LET b == history[i].by
               IN  Exists(b) /\ att[b[1]][b[2]].kind = "execute" /\ job'[b].st \in {"upgrading", "done"}
    <3>1. PICK b \in Attempts : b = history[i].by
      BY <1>1, <1>2, <2>1, RevisionFacts
    <3>2. Exists(b) /\ att[b[1]][b[2]].kind = "execute" /\ job[b].st \in {"upgrading", "done"}
      BY <1>1, <1>2, <2>1, <3>1 DEF RevisionInv
    <3>3. b # a
      BY <1>1, <3>2
    <3>4. QED BY <1>7, <3>1, <3>2, <3>3
  <2>2. ASSUME NEW b \in Attempts, job'[b].st = "upgrading" PROVE b = a
    <3>1. ASSUME b # a PROVE FALSE
      <4>1. job[b].st = "upgrading"
        BY <1>7, <2>2, <3>1
      <4>2. att[b[1]][b[2]].kind = "execute" /\ Working(b)
        BY <1>1, <4>1 DEF RevisionInv, Working
      <4>3. Exists(b) /\ ~obl[b[1]][b[2]].resolved
        BY <4>2, WorkingIsOpen
      <4>4. QED BY <1>1, <1>2, <1>5, <3>1, <4>2, <4>3 DEF IInv, DeliveryInv
    <3>2. QED BY <3>1
  <2>3. \A i \in 1 .. k + 1 : i \in 1 .. k \/ i = k + 1
    BY <1>4
  <2>4. \A i \in 1 .. Len(history') :
          LET b == history'[i].by
          IN  Exists(b) /\ att[b[1]][b[2]].kind = "execute" /\ job'[b].st \in {"upgrading", "done"}
    BY <1>1, <1>3, <1>4, <1>5, <1>8, <2>1, <2>3
  <2>5. history' # <<>>
    BY <1>4, EmptySeq
  <2>6. \A b \in Attempts : job'[b].st = "upgrading" =>
          /\ Exists(b) /\ att[b[1]][b[2]].kind = "execute"
          /\ history' # <<>> /\ history'[Len(history')] = [by |-> b, status |-> "pending"]
    BY <1>1, <1>2, <1>4, <1>5, <2>2, <2>5
  <2>7. QED BY <1>1, <2>4, <2>6 DEF RevisionInv, Exists
\* The revision it follows is of an older operation, or a failed one of its own.
<1>10. ASSUME k > 0
       PROVE  /\ history[k].by[1] <= o
              /\ history[k].by[1] = o => history[k].by[2] < n /\ history[k].status = "failed"
  <2>1. k \in 1 .. Len(history)
    BY <1>2, <1>4, <1>10
  <2>2. PICK b \in Attempts : b = history[k].by
    BY <1>1, <2>1, RevisionFacts
  <2>3. /\ Exists(b) /\ att[b[1]][b[2]].kind = "execute" /\ job[b].st \in {"upgrading", "done"}
        /\ b[1] \in Ops /\ b[2] \in 1 .. Len(att[b[1]]) /\ b = <<b[1], b[2]>>
    BY <1>1, <2>1, <2>2, RevisionFacts DEF RevisionInv
  <2>4. Begun(b[1])
    <3>1. Len(att[b[1]]) # 0
      BY <1>1, <2>3, LenProperties DEF DbTypes
    <3>2. QED BY <2>3, <3>1 DEF IInv, EndedInv, Begun
  <2>5. b[1] <= o
    BY <1>5, <2>3, <2>4
  <2>6. ASSUME b[1] = o PROVE b[2] < n
    <3>1. b[2] \in 1 .. Len(att[o]) /\ Len(att[o]) \in Nat
      BY <1>1, <1>5, <2>3, <2>6, LenProperties DEF DbTypes
    <3>2. b[2] # n
      BY <1>1, <1>5, <2>3, <2>6
    <3>3. ~(n < b[2])
      <4>1. n < b[2] => n \in 1 .. b[2] - 1
        BY <1>5, <3>1
      <4>2. QED BY <1>1, <1>5, <2>3, <2>6, <3>1, <4>1 DEF AttemptInv
    <3>4. QED BY <1>5, <3>1, <3>2, <3>3
  <2>7. ASSUME b[1] = o PROVE history[k].status = "failed"
    BY <1>1, <1>2, <1>5, <1>6, <2>1, <2>2, <2>6, <2>7, RetryFollowsFailure
  <2>8. QED BY <2>2, <2>5, <2>6, <2>7
<1>11. NeverRollsBack'
  <2>1. ASSUME NEW i \in 1 .. Len(history') - 1
        PROVE  LET b == history'[i].by
                   c == history'[i + 1].by
               IN  /\ b[1] <= c[1]
                   /\ b[1] = c[1] => b[2] < c[2] /\ history'[i].status = "failed"
    <3>1. i \in 1 .. k /\ history'[i] = history[i]
      BY <1>4, <2>1
    <3>2. CASE i = k
      BY <1>2, <1>3, <1>4, <1>10, <3>1, <3>2
    <3>3. CASE i # k
      <4>1. i \in 1 .. k - 1 /\ i + 1 \in 1 .. k
        BY <1>4, <3>1, <3>3
      <4>2. history'[i + 1] = history[i + 1]
        BY <1>4, <4>1
      <4>3. QED BY <1>1, <1>2, <3>1, <4>1, <4>2 DEF NeverRollsBack
    <3>4. QED BY <3>2, <3>3
  <2>2. QED BY <2>1 DEF NeverRollsBack
<1>12. \A i \in 1 .. Len(history) : history[i].status = "deployed" =>
          i \in 1 .. Len(history') /\ history'[i] = history[i]
  BY <1>2, <1>4
<1>13. \A i \in 1 .. Len(history') :
          \/ \E j \in 1 .. Len(history) : history[j].by = history'[i].by
          \/ history'[i].by \in Attempts /\ Working(history'[i].by)
  <2>1. \A i \in 1 .. k + 1 : i \in 1 .. k \/ i = k + 1
    BY <1>4
  <2>2. QED BY <1>2, <1>3, <1>4, <1>5, <2>1
<1>14. \A b \in Attempts : job'[b].evidence = "succeeded" => job[b].evidence = "succeeded"
  BY <1>7, <1>8
<1>15. QED
  BY <1>1, <1>5, <1>9, <1>11, <1>12, <1>13, <1>14, ReleaseHistory

\* An upgrade ends: its own revision, which is the last, gets its status.
LEMMA StatusHistory ==
    ASSUME IInv, HInv, NEW a \in Attempts, job[a].st = "upgrading",
           NEW s \in {"deployed", "failed"}, SetStatus(s),
           NEW e, job' = [job EXCEPT ![a] = Ended(e)], e = "succeeded" => s = "deployed",
           UNCHANGED <<dbVars, outbox, worker>>
    PROVE  HInv'
<1>1. /\ TypeOK /\ DbTypes /\ AttemptInv /\ RevisionInv /\ NeverRollsBack
      /\ history \in Seq(Revisions)
  BY DEF IInv, HInv, TypeOK, ClusterTypes
<1>2. PICK k : k = Len(history)
  OBVIOUS
<1>3. /\ history # <<>> /\ history[k] = [by |-> a, status |-> "pending"]
      /\ Exists(a) /\ att[a[1]][a[2]].kind = "execute" /\ Working(a)
  BY <1>1, <1>2 DEF RevisionInv, Working
<1>4. k \in Nat /\ k \in 1 .. k /\ history \in [1 .. k -> Revisions]
  BY <1>1, <1>2, <1>3, EmptySeq, LenProperties
<1>5. /\ Len(history') = k
      /\ \A i \in 1 .. k : i # k => history'[i] = history[i]
      /\ history'[k] = [by |-> a, status |-> s]
  <2>1. history' = [history EXCEPT ![k] = [history[k] EXCEPT !.status = s]]
    BY <1>2 DEF SetStatus
  <2>2. [history[k] EXCEPT !.status = s] = [by |-> a, status |-> s]
    BY <1>3
  <2>3. [by |-> a, status |-> s] \in Revisions
    BY DEF Revisions
  <2>4. QED BY <1>1, <1>2, <1>4, <2>1, <2>2, <2>3, ExceptSeq
<1>6. \A i \in 1 .. k : history'[i].by = history[i].by
  BY <1>3, <1>5
<1>7. job'[a] = Ended(e) /\ \A b \in Attempts : b # a => job'[b] = job[b]
  BY <1>1 DEF TypeOK, ClusterTypes
<1>8. Ended(e).st = "done" /\ Ended(e).evidence = e
  BY DEF Ended
<1>9. RevisionInv'
  <2>1. ASSUME NEW i \in 1 .. k
        PROVE  LET b == history'[i].by
               IN  Exists(b) /\ att[b[1]][b[2]].kind = "execute" /\ job'[b].st \in {"upgrading", "done"}
    <3>1. PICK b \in Attempts : b = history[i].by
      BY <1>1, <1>2, <2>1, RevisionFacts
    <3>2. Exists(b) /\ att[b[1]][b[2]].kind = "execute" /\ job[b].st \in {"upgrading", "done"}
      BY <1>1, <1>2, <2>1, <3>1 DEF RevisionInv
    <3>3. QED BY <1>6, <1>7, <1>8, <2>1, <3>1, <3>2
  <2>2. ASSUME NEW b \in Attempts, job'[b].st = "upgrading" PROVE FALSE
    <3>1. b # a /\ job[b].st = "upgrading"
      BY <1>7, <1>8, <2>2
    <3>2. history[k] = [by |-> b, status |-> "pending"]
      BY <1>1, <1>2, <3>1 DEF RevisionInv
    <3>3. QED BY <1>3, <3>1, <3>2
  <2>3. QED BY <1>1, <1>5, <2>1, <2>2 DEF RevisionInv, Exists
<1>10. NeverRollsBack'
  <2>1. ASSUME NEW i \in 1 .. k - 1
        PROVE  LET b == history'[i].by
                   c == history'[i + 1].by
               IN  /\ b[1] <= c[1]
                   /\ b[1] = c[1] => b[2] < c[2] /\ history'[i].status = "failed"
    <3>1. i \in 1 .. k /\ i + 1 \in 1 .. k /\ i # k
      BY <1>4, <2>1
    <3>2. history'[i] = history[i] /\ history'[i + 1].by = history[i + 1].by
      BY <1>5, <1>6, <3>1
    <3>3. QED BY <1>1, <1>2, <2>1, <3>2 DEF NeverRollsBack
  <2>2. QED BY <1>5, <2>1 DEF NeverRollsBack
<1>11. \A i \in 1 .. Len(history) : history[i].status = "deployed" =>
          i \in 1 .. Len(history') /\ history'[i] = history[i]
  BY <1>2, <1>3, <1>5
<1>12. \A i \in 1 .. Len(history') :
          \/ \E j \in 1 .. Len(history) : history[j].by = history'[i].by
          \/ history'[i].by \in Attempts /\ Working(history'[i].by)
  BY <1>2, <1>5, <1>6
<1>13. e = "succeeded" => Delivered(a[1], a[2])'
  <2>1. a = <<a[1], a[2]>> /\ LatestDelivery(a[1], a[2]) = a[2]
    <3>1. a[1] \in Ops /\ a[2] \in 1 .. Len(att[a[1]])
      BY <1>1, <1>3, ExistsFields
    <3>2. QED BY <1>1, <1>3, <3>1, DeliveryIsLatest DEF Attempts
  <2>2. LatestDelivery(a[1], a[2])' = LatestDelivery(a[1], a[2])
    BY DEF LatestDelivery
  <2>3. QED BY <1>4, <1>5, <2>1, <2>2 DEF Delivered
<1>14. \A b \in Attempts : job'[b].evidence = "succeeded" =>
          job[b].evidence = "succeeded" \/ Delivered(b[1], b[2])'
  BY <1>7, <1>8, <1>13
<1>15. QED
  BY <1>3, <1>9, <1>10, <1>11, <1>12, <1>14, ReleaseHistory

\* The steps of the cluster.
LEMMA ClusterHistory ==
    ASSUME IInv, HInv, NEW a \in Attempts, ClusterStep(a) \/ Deadline(a)
    PROVE  HInv'
<1>1. CASE LateSecret(a)
  BY <1>1, PublishHistory DEF IInv
<1>2. CASE LateJob(a) \/ HelmObserve(a) \/ Deadline(a)
  BY <1>2, WithoutUpgradeHistory
<1>3. CASE HelmCheck(a)
  <2>1. UNCHANGED history \/ history' = Append(history, [by |-> a, status |-> "pending"])
    BY <1>3 DEF HelmCheck
  <2>2. QED BY <1>3, <2>1, UpgradeHistory, WithoutUpgradeHistory
<1>4. CASE HelmUpgraded(a)
  <2>1. job[a].st = "upgrading" /\ UNCHANGED <<dbVars, outbox, worker>>
    BY <1>4 DEF HelmUpgraded
  <2>2. CASE SetStatus("deployed") /\ job' = [job EXCEPT ![a] = Ended("succeeded")]
    BY <2>1, <2>2, StatusHistory
  <2>3. CASE SetStatus("failed") /\ job' = [job EXCEPT ![a] = Ended("failed")]
    BY <2>1, <2>3, StatusHistory
  <2>4. QED BY <1>4, <2>2, <2>3 DEF HelmUpgraded
<1>5. CASE Killed(a)
  <2>1. job' = [job EXCEPT ![a] = Ended("none")] /\ UNCHANGED <<dbVars, outbox, worker>>
    BY <1>5 DEF Killed
  <2>2. UNCHANGED history \/ (job[a].st = "upgrading" /\ SetStatus("deployed"))
    BY <1>5 DEF Killed
  <2>3. CASE job[a].st = "upgrading" /\ SetStatus("deployed")
    BY <2>1, <2>3, StatusHistory
  <2>4. QED BY <1>5, <2>2, <2>3, WithoutUpgradeHistory
<1>6. QED BY <1>1, <1>2, <1>3, <1>4, <1>5 DEF ClusterStep

\* At first there is no release.
LEMMA InitHistory == ASSUME Init PROVE HInv
<1>1. /\ \A o \in Ops : ~Begun(o) /\ op[o] = "none" /\ att[o] = <<>>
      /\ history = <<>> /\ Len(history) = 0
      /\ \A a \in Attempts : job[a].st = "none" /\ job[a].evidence = "none" /\ outbox[a] = "none"
      /\ \A w \in Workers : ~Busy(w) /\ ~Owner(w)
  BY EmptySeq DEF Init, Begun, NoJob, Busy, Owner, Idle
<1>2. \A o \in Ops : Len(att[o]) = 0
  BY <1>1, EmptySeq
<1>3. OrderInv /\ AttemptInv /\ RevisionInv /\ EvidenceInv
  BY <1>1, <1>2 DEF OrderInv, AttemptInv, RevisionInv, EvidenceInv
<1>4. RetryInv /\ FailedInv /\ VerdictInv /\ PhaseInv
  BY <1>1, <1>2 DEF RetryInv, FailedInv, VerdictInv, PhaseInv
<1>5. NeverRollsBack /\ SuccessIsDeployed
  BY <1>1 DEF NeverRollsBack, SuccessIsDeployed
<1>6. QED BY <1>3, <1>4, <1>5 DEF HInv

\* A step that changes nothing changes no history.
LEMMA StutterHistory == ASSUME HInv, UNCHANGED vars PROVE HInv'
BY QuietHistory DEF vars

\* Every step keeps what is said of the history.
LEMMA NextHistory == ASSUME IInv, HInv, [Next]_vars PROVE HInv'
<1>1. ASSUME NEW o \in Ops, Request(o) \/ Approve(o) PROVE HInv'
  BY <1>1, RequestHistory DEF IInv
<1>2. ASSUME NEW w \in Workers, NEW o \in Ops, NEW kind \in Kinds, Begin(w, o, kind) PROVE HInv'
  BY <1>2, BeginHistory
<1>3. CASE Clean
  BY <1>3, JanitorHistory DEF Clean
<1>4. ASSUME NEW w \in Workers, Continue(w) PROVE HInv'
  <2>1. CASE Sweep(w) \/ Judge(w) \/ Watch(w) \/ ObserveExisting(w)
    BY <2>1, SweepHistory, JudgeHistory, WatchHistory, ObserveExistingHistory
  <2>2. CASE Uncovered(w) \/ Prepare(w) \/ Reserve(w) \/ Issue(w) \/ MarkCreating(w)
               \/ CreateSecret(w) \/ RecordSecret(w)
    BY <2>2, PreparationHistory
  <2>3. CASE MarkDispatching(w) \/ SubmitJob(w)
    BY <2>3, SubmissionHistory
  <2>4. CASE CloseRow(w) \/ RevokeIssuer(w) \/ RemoveSecret(w) \/ Resolve(w) \/ Finish(w)
    BY <2>4, RevocationHistory, ResolveHistory, FinishHistory
  <2>5. QED BY <1>4, <2>1, <2>2, <2>3, <2>4 DEF Continue
<1>5. ASSUME NEW w \in Workers, GiveUp(w) \/ Crash(w) \/ LoseSession(w) PROVE HInv'
  BY <1>5, SubmissionHistory, FaultHistory
<1>6. ASSUME NEW a \in Attempts, ClusterStep(a) \/ Deadline(a) \/ Publish(a) PROVE HInv'
  BY <1>6, ClusterHistory, PublishHistory DEF IInv
<1>7. QED
  BY <1>1, <1>2, <1>3, <1>4, <1>5, <1>6, StutterHistory DEF Next

\* The history says this in every reachable state.
LEMMA HistoryInvariance == Spec => []HInv
<1>1. Init => HInv
  BY InitHistory
<1>2. IInv /\ HInv /\ [Next]_vars => HInv'
  BY NextHistory
<1>3. QED BY <1>1, <1>2, Invariance, PTL DEF Spec

\* The release never goes back: revisions follow the order of the operations, and
\* an operation's own retry follows only a failed revision of it (start's
\* comparison of created_at, RunHelmJob's previous).
THEOREM ReleaseNeverGoesBack == Spec => []NeverRollsBack
<1>1. HInv => NeverRollsBack
  BY DEF HInv
<1>2. QED BY <1>1, HistoryInvariance, PTL

\* A success and its event are about a delivery that Helm recorded as deployed,
\* and as long as no newer operation has begun it is what is deployed (evidence,
\* enqueueSuccess).
THEOREM SuccessIsTrue == Spec => []SuccessIsDeployed
<1>1. HInv => SuccessIsDeployed
  BY DEF HInv
<1>2. QED BY <1>1, HistoryInvariance, PTL
=============================================================================
