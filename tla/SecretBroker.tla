---------------------------- MODULE SecretBroker ----------------------------
(***************************************************************************)
(* Dynamic credentials of one run (internal/secrets): a row reserved under *)
(* the scope's fence, the call to the provider, the handle, publication,   *)
(* single redemption, and revocation by whoever asks for it.               *)
(*                                                                         *)
(* Every issuance is one actor, with its own call to Revoke when it fails. *)
(* Revokers are the calls of RevokeRunLeases and the retry worker's        *)
(* passes.  No lock spans a call to the provider: between any two steps    *)
(* below another actor may act, and any actor may die.                     *)
(*                                                                         *)
(* Legacy rows without a provider are left out: nothing issues them.       *)
(***************************************************************************)
EXTENDS Naturals, FiniteSets

CONSTANTS
    Leases,     \* issuances
    AttemptOf,  \* the attempt of the run each one is made under
    Run,        \* the scope of the whole run (attempt nil)
    Revokers,   \* concurrent RevokeRunLeases calls and worker passes
    Redeemers,  \* concurrent calls of Redeem
    None,
    MaxFaults   \* bound: crashes, lost replies, failed writes, outages

ASSUME BrokerAssumption ==
    /\ Run \notin {AttemptOf[l] : l \in Leases}
    /\ Leases \cap Revokers = {}
    /\ MaxFaults \in Nat

Scopes == {AttemptOf[l] : l \in Leases} \cup {Run}
InScope(l, s) == s = Run \/ s = AttemptOf[l]
Actors == Leases \cup Revokers

VARIABLES
    closed,    \* credential_scopes and credential_attempts
    row,       \* secret_leases
    provider,  \* the provider's lease
    issuer,    \* where issueDynamic is
    revoke,    \* where an actor's call of Revoke is
    pass,      \* the pass of a revoker: what is left, and the scope to report
    redeem,    \* calls of Redeem between their check and their update
    clean,     \* scopes reported fenced with nothing pending, or purged
    faults

vars == <<closed, row, provider, issuer, revoke, pass, redeem, clean, faults>>

NoRow == [there |-> FALSE, handle |-> FALSE, ready |-> FALSE, requested |-> FALSE,
          revoked |-> FALSE, redeemed |-> 0]
NoRevoke == [pc |-> "idle", lease |-> None]
NoPass == [todo |-> {}, scope |-> None, busy |-> FALSE]

\* Every variable keeps its shape; a lease is redeemed at most once, although two
\* calls of Redeem may both pass its first check.
TypeOK ==
    /\ closed \subseteq Scopes
    /\ row \in [Leases -> [there : BOOLEAN, handle : BOOLEAN, ready : BOOLEAN,
                           requested : BOOLEAN, revoked : BOOLEAN, redeemed : 0 .. 1]]
    /\ provider \in [Leases -> {"none", "inflight", "live", "dead"}]
    /\ issuer \in [Leases -> {"idle", "call", "record", "restore", "compensate",
                              "publish", "issued", "ended"}]
    /\ revoke \in [Actors -> [pc : {"idle", "provider", "mark"}, lease : Leases \cup {None}]]
    /\ pass \in [Revokers -> [todo : SUBSET Leases, scope : Scopes \cup {None},
                              busy : BOOLEAN]]
    /\ redeem \in [Redeemers -> Leases \cup {None}]
    /\ clean \subseteq Scopes
    /\ faults \in 0 .. MaxFaults

Init ==
    /\ closed = {}
    /\ row = [l \in Leases |-> NoRow]
    /\ provider = [l \in Leases |-> "none"]
    /\ issuer = [l \in Leases |-> "idle"]
    /\ revoke = [p \in Actors |-> NoRevoke]
    /\ pass = [p \in Revokers |-> NoPass]
    /\ redeem = [d \in Redeemers |-> None]
    /\ clean = {}
    /\ faults = 0

-----------------------------------------------------------------------------
(* Rows *)

\* revoked_at IS NULL: what counts as pending and what a retry looks for
Open(l) == row[l].there /\ ~row[l].revoked

\* revocation_requested=true, provider_ready=false
Requested(l) == [row[l] EXCEPT !.requested = TRUE, !.ready = FALSE]

Fault ==
    /\ faults < MaxFaults
    /\ faults' = faults + 1

-----------------------------------------------------------------------------
(* issueDynamic *)

\* Mutant of Admitted: the attempt's own fence is not looked at.
AdmittedByRun(l) == Run \notin closed

\* lockScope: neither the run nor the attempt is closed
Admitted(l) == \A s \in closed : ~InScope(l, s)

\* The reservation commits before anything is asked of the provider.
Reserve(l) ==
    /\ issuer[l] = "idle"
    /\ Admitted(l)
    /\ row' = [row EXCEPT ![l] = [NoRow EXCEPT !.there = TRUE]]
    /\ issuer' = [issuer EXCEPT ![l] = "call"]
    /\ UNCHANGED <<closed, provider, revoke, pass, redeem, clean, faults>>

\* The provider's answer: a lease; an answer without a lease; or none, and then
\* the request may still be carried out.
CallProvider(l) ==
    /\ issuer[l] = "call"
    /\ \/ /\ provider' = [provider EXCEPT ![l] = "live"]
          /\ issuer' = [issuer EXCEPT ![l] = "record"]
          /\ UNCHANGED <<row, faults>>
       \/ /\ Fault
          /\ \E q \in {"none", "inflight"} : provider' = [provider EXCEPT ![l] = q]
          /\ row' = [row EXCEPT ![l].requested = TRUE]
          /\ issuer' = [issuer EXCEPT ![l] = "ended"]
    /\ UNCHANGED <<closed, revoke, pass, redeem, clean>>

\* The handle is stored before any other call.  A write that reports an error may
\* have failed, or have committed with its reply lost: then the row can already be
\* revoked and purged when the issuer tries again.
RecordHandle(l) ==
    /\ issuer[l] = "record"
    /\ \/ /\ row[l].there
          /\ row' = [row EXCEPT ![l].handle = TRUE]
          /\ issuer' = [issuer EXCEPT ![l] = "publish"]
          /\ UNCHANGED faults
       \/ /\ Fault
          /\ issuer' = [issuer EXCEPT ![l] = "restore"]
          /\ \/ UNCHANGED row
             \/ row[l].there /\ row' = [row EXCEPT ![l].handle = TRUE]
    /\ UNCHANGED <<closed, provider, revoke, pass, redeem, clean>>

\* What the second write leaves: a row that only awaits revocation.  A row that is
\* there keeps its revoked_at; one that is gone comes back without.
Restored(l) ==
    [IF row[l].there THEN Requested(l) ELSE [NoRow EXCEPT !.there = TRUE, !.requested = TRUE]
        EXCEPT !.handle = TRUE]

\* The second try to store the handle (INSERT ... ON CONFLICT DO UPDATE)
RestoreHandle(l) ==
    /\ issuer[l] = "restore"
    /\ \/ /\ row' = [row EXCEPT ![l] = Restored(l)]
          /\ UNCHANGED faults
       \/ /\ Fault
          /\ UNCHANGED row
    /\ issuer' = [issuer EXCEPT ![l] = "compensate"]
    /\ UNCHANGED <<closed, provider, revoke, pass, redeem, clean>>

\* revokeProvider with the handle of the response, stored or not: the provider's
\* revocation, then revoked_at.  Either may fail.
Compensate(l) ==
    /\ issuer[l] = "compensate"
    /\ issuer' = [issuer EXCEPT ![l] = "ended"]
    /\ \/ /\ provider' = [provider EXCEPT ![l] = "dead"]
          /\ row' = [row EXCEPT ![l].revoked = @ \/ row[l].there]
          /\ UNCHANGED faults
       \/ /\ Fault
          /\ \E q \in {provider[l], "dead"} : provider' = [provider EXCEPT ![l] = q]
          /\ UNCHANGED row
    /\ UNCHANGED <<closed, revoke, pass, redeem, clean>>

\* Mutant of RequestRevocation: without a handle there is nothing to revoke.
RequestRevocationOfUnknown(p, l) ==
    /\ row' = [row EXCEPT ![l] = IF row[l].there
                                 THEN [Requested(l) EXCEPT !.revoked = @ \/ ~row[l].handle]
                                 ELSE @]
    /\ revoke' = [revoke EXCEPT ![p] =
                     IF Open(l) /\ row[l].handle
                     THEN [pc |-> "provider", lease |-> l] ELSE NoRevoke]

\* A step of Revoke that makes the request durable and takes the handle.  A row
\* without one cannot be revoked: issuance outcome unknown.
RequestRevocation(p, l) ==
    /\ row' = [row EXCEPT ![l] = IF row[l].there THEN Requested(l) ELSE @]
    /\ revoke' = [revoke EXCEPT ![p] =
                     IF Open(l) /\ row[l].handle
                     THEN [pc |-> "provider", lease |-> l] ELSE NoRevoke]

\* The credential is valid and the row is still wanted: publish it.  Otherwise
\* (also for a lease the provider cannot confirm) revoke it.
Publish(l) ==
    /\ issuer[l] = "publish"
    /\ \/ /\ provider[l] = "live"
          /\ Open(l) /\ ~row[l].requested
          /\ row' = [row EXCEPT ![l].ready = TRUE]
          /\ issuer' = [issuer EXCEPT ![l] = "issued"]
          /\ UNCHANGED <<revoke, faults>>
       \/ /\ provider[l] # "live" \/ ~Open(l) \/ row[l].requested
          /\ RequestRevocation(l, l)
          /\ issuer' = [issuer EXCEPT ![l] = "ended"]
          /\ UNCHANGED faults
       \/ /\ Fault
          /\ RequestRevocation(l, l)
          /\ issuer' = [issuer EXCEPT ![l] = "ended"]
    /\ UNCHANGED <<closed, provider, pass, redeem, clean>>

-----------------------------------------------------------------------------
(* Redeem *)

\* The row is checked in a transaction, the lease with the provider after it.
RedeemCheck(d, l) ==
    /\ redeem[d] = None
    /\ issuer[l] = "issued"
    /\ Open(l) /\ row[l].ready /\ row[l].handle /\ row[l].redeemed = 0
    /\ provider[l] = "live"
    /\ redeem' = [redeem EXCEPT ![d] = l]
    /\ UNCHANGED <<closed, row, provider, issuer, revoke, pass, clean, faults>>

\* Mutant of Redeemable: only the row's own revocation is looked at.
RedeemableUnrevoked(l) == Open(l) /\ row[l].redeemed = 0

\* The condition of the final update
Redeemable(l) == Open(l) /\ ~row[l].requested /\ row[l].ready /\ row[l].redeemed = 0

\* The update that hands the value out, or refuses it.
RedeemCommit(d) ==
    /\ redeem[d] # None
    /\ LET l == redeem[d] IN
        row' = IF Redeemable(l) THEN [row EXCEPT ![l].redeemed = @ + 1] ELSE row
    /\ redeem' = [redeem EXCEPT ![d] = None]
    /\ UNCHANGED <<closed, provider, issuer, revoke, pass, clean, faults>>

-----------------------------------------------------------------------------
(* Revocation *)

\* revocation_requested AND revoked_at IS NULL
Due == {l \in Leases : Open(l) /\ row[l].requested}

\* RevokeRunLeases: close the scope and ask for every row in it, in one
\* transaction; then a pass over everything due.
CloseScope(p, s) ==
    /\ ~pass[p].busy
    /\ closed' = closed \cup {s}
    /\ row' = [l \in Leases |-> IF InScope(l, s) /\ Open(l) THEN Requested(l) ELSE row[l]]
    /\ pass' = [pass EXCEPT ![p] =
                   [todo |-> {l \in Leases : Open(l) /\ (row[l].requested \/ InScope(l, s))},
                    scope |-> s, busy |-> TRUE]]
    /\ UNCHANGED <<provider, issuer, revoke, redeem, clean, faults>>

\* Mutant of RetryDue: a row whose issuance is not over is left to its issuer.
RetryDueAfterIssue == {l \in Due : issuer[l] = "issued"}

\* What a pass of RunRevocationWorker finds to do
RetryDue == Due

RetryPass(p) ==
    /\ ~pass[p].busy
    /\ RetryDue # {}
    /\ pass' = [pass EXCEPT ![p] = [todo |-> RetryDue, scope |-> None, busy |-> TRUE]]
    /\ UNCHANGED <<closed, row, provider, issuer, revoke, redeem, clean, faults>>

\* RetryRevocations: Revoke, one row after the other
RevokeNext(p) ==
    /\ pass[p].busy
    /\ revoke[p].pc = "idle"
    /\ \E l \in pass[p].todo :
        /\ RequestRevocation(p, l)
        /\ pass' = [pass EXCEPT ![p].todo = @ \ {l}]
    /\ UNCHANGED <<closed, provider, issuer, redeem, clean, faults>>

\* The provider revokes, also what has expired, or cannot be reached.
RevokeAtProvider(p) ==
    /\ revoke[p].pc = "provider"
    /\ \/ /\ provider' = [provider EXCEPT ![revoke[p].lease] = "dead"]
          /\ revoke' = [revoke EXCEPT ![p].pc = "mark"]
          /\ UNCHANGED faults
       \/ /\ Fault
          /\ revoke' = [revoke EXCEPT ![p] = NoRevoke]
          /\ UNCHANGED provider
    /\ UNCHANGED <<closed, row, issuer, pass, redeem, clean>>

\* revoked_at=now(), if the row is still there
MarkRevoked(p) ==
    /\ revoke[p].pc = "mark"
    /\ row' = [row EXCEPT ![revoke[p].lease].revoked = @ \/ row[revoke[p].lease].there]
    /\ revoke' = [revoke EXCEPT ![p] = NoRevoke]
    /\ UNCHANGED <<closed, provider, issuer, pass, redeem, clean, faults>>

\* Mutant of Pending: a row without a handle has nothing to revoke.
PendingWithHandle(s) == {l \in Leases : InScope(l, s) /\ Open(l) /\ row[l].handle}

\* The rows that RevokeRunLeases counts
Pending(s) == {l \in Leases : InScope(l, s) /\ Open(l)}

\* The pass is over.  A call of RevokeRunLeases reports what is pending.
EndPass(p) ==
    /\ pass[p].busy
    /\ pass[p].todo = {}
    /\ revoke[p].pc = "idle"
    /\ pass' = [pass EXCEPT ![p] = NoPass]
    /\ LET s == pass[p].scope IN
        clean' = IF s # None /\ Pending(s) = {} THEN clean \cup {s} ELSE clean
    /\ UNCHANGED <<closed, row, provider, issuer, revoke, redeem, faults>>

\* PurgeCredentials of the run, in one transaction: close, request, delete what
\* is revoked, and succeed only when nothing is left.
Purge ==
    /\ closed' = closed \cup {Run}
    /\ row' = [l \in Leases |-> IF Open(l) THEN Requested(l)
                                ELSE [row[l] EXCEPT !.there = FALSE]]
    /\ clean' = IF Pending(Run) = {} THEN clean \cup {Run} ELSE clean
    /\ UNCHANGED <<provider, issuer, revoke, pass, redeem, faults>>

-----------------------------------------------------------------------------
(* The provider, external, and crashes *)

LateLease(l) ==
    /\ provider[l] = "inflight"
    /\ \E q \in {"live", "none"} : provider' = [provider EXCEPT ![l] = q]
    /\ UNCHANGED <<closed, row, issuer, revoke, pass, redeem, clean, faults>>

Expire(l) ==
    /\ provider[l] = "live"
    /\ provider' = [provider EXCEPT ![l] = "dead"]
    /\ UNCHANGED <<closed, row, issuer, revoke, pass, redeem, clean, faults>>

\* The issuing process dies; what it asked of the provider may still happen.
CrashIssuer(l) ==
    /\ Fault
    /\ issuer[l] \notin {"idle", "issued", "ended"} \/ revoke[l].pc # "idle"
    /\ issuer' = [issuer EXCEPT ![l] = IF @ = "issued" THEN @ ELSE "ended"]
    /\ provider' = [provider EXCEPT ![l] = IF issuer[l] = "call" THEN "inflight" ELSE @]
    /\ revoke' = [revoke EXCEPT ![l] = NoRevoke]
    /\ UNCHANGED <<closed, row, pass, redeem, clean>>

CrashRevoker(p) ==
    /\ pass[p].busy
    /\ Fault
    /\ pass' = [pass EXCEPT ![p] = NoPass]
    /\ revoke' = [revoke EXCEPT ![p] = NoRevoke]
    /\ UNCHANGED <<closed, row, provider, issuer, redeem, clean>>

-----------------------------------------------------------------------------

IssuerStep(l) ==
    CallProvider(l) \/ RecordHandle(l) \/ RestoreHandle(l) \/ Compensate(l) \/ Publish(l)

RevokeStep(p) == RevokeAtProvider(p) \/ MarkRevoked(p)

RevokerStep(p) == RevokeNext(p) \/ RevokeStep(p) \/ EndPass(p)

Next ==
    \/ \E l \in Leases : Reserve(l) \/ IssuerStep(l) \/ RevokeStep(l) \/ LateLease(l)
                         \/ Expire(l) \/ CrashIssuer(l)
    \/ \E d \in Redeemers : RedeemCommit(d) \/ \E l \in Leases : RedeemCheck(d, l)
    \/ \E p \in Revokers : RevokerStep(p) \/ RetryPass(p) \/ CrashRevoker(p)
                           \/ \E s \in Scopes : CloseScope(p, s)
    \/ Purge

Spec == Init /\ [][Next]_vars

\* Calls in progress go on and the retry worker's ticker starts pass after pass
\* (each revoker is free again and again).  Nobody has to issue, redeem or close.
FairSpec ==
    /\ Spec
    /\ \A l \in Leases : WF_vars(IssuerStep(l)) /\ WF_vars(RevokeStep(l))
    /\ \A p \in Revokers : WF_vars(RevokerStep(p)) /\ SF_vars(RetryPass(p))

-----------------------------------------------------------------------------
(* Properties *)

\* What may be, or may become, a credential: a lease of the provider, or a
\* request that may still make one.
MayLive(l) == provider[l] \in {"inflight", "live"} \/ issuer[l] = "call"

\* No credential is ever out of sight: whatever died or was lost on the way, a
\* row that is not revoked stands for everything that may still be live, so it is
\* counted as pending (the reservation before the call in issueDynamic).
LiveIsPending == \A l \in Leases : MayLive(l) => Open(l)

\* A scope that was reported clean, or purged, has no credential and will never
\* have one (RevokeRunLeases, PurgeCredentials).
CleanIsFinal == \A s \in clean, l \in Leases : InScope(l, s) => ~MayLive(l)

\* A value is handed out once, and only while its scope is open, however long the
\* redemption took between its check and its update (Redeem against another Redeem
\* and against RevokeRunLeases).
RedeemedInScope ==
    [][\A l \in Leases :
        row'[l].redeemed > row[l].redeemed =>
            row[l].redeemed = 0 /\ \A s \in closed : ~InScope(l, s)]_vars

\* The broker implements the fence that the CI dispatcher and deployments use.  A
\* lease is outstanding as long as it may be, or become, a credential, whatever its
\* row says: the row of a dead credential may come back (RestoreHandle).
Fence == INSTANCE CredentialFence WITH
    lot <- [l \in Leases |->
               IF issuer[l] = "idle" THEN "none"
               ELSE IF MayLive(l) THEN "outstanding" ELSE "ended"]

\* Every step of the broker is a step of CredentialFence, or changes nothing
\* there: lockScope's serialisation of reservations and fences, and a report that
\* reads rows only (RevokeRunLeases, PurgeCredentials) never misses a credential.
ImplementsFence == Fence!Spec

\* A revocation that was asked for and can be named is eventually carried out
\* (RunRevocationWorker).
RevocationsComplete ==
    \A l \in Leases : (l \in Due /\ row[l].handle) ~> ~Open(l)
=============================================================================
