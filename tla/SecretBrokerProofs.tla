------------------------- MODULE SecretBrokerProofs -------------------------
(***************************************************************************)
(* Proofs about SecretBroker, for every set of issuances, revokers and     *)
(* redeemers.                                                              *)
(***************************************************************************)
EXTENDS SecretBroker, TLAPS

\* How far an issuance has come bounds what its row and the provider hold: the
\* row exists, or was revoked and purged, as soon as the provider may be asked;
\* a handle names a lease that the provider really made.
IssuerInv ==
  \A l \in Leases :
    /\ issuer[l] = "idle" => ~row[l].there /\ provider[l] = "none"
    /\ issuer[l] = "call" => provider[l] = "none"
    /\ issuer[l] \in {"record", "restore", "compensate", "publish", "issued"} =>
         provider[l] \in {"live", "dead"}
    /\ row[l].handle => provider[l] \in {"live", "dead"} /\ issuer[l] \notin {"idle", "call"}
    /\ issuer[l] # "idle" /\ ~row[l].there => row[l].revoked

\* A call of Revoke past its first transaction has a lease with a handle, and
\* the lease is dead once the provider has answered.  An issuance calls Revoke
\* when it has failed.
RevokeInv ==
  /\ \A p \in Actors : revoke[p].pc # "idle" =>
       /\ revoke[p].lease \in Leases
       /\ row[revoke[p].lease].handle
       /\ revoke[p].pc = "mark" => provider[revoke[p].lease] = "dead"
  /\ \A l \in Leases : revoke[l].pc # "idle" => issuer[l] = "ended"

\* Every row of a closed scope that is not revoked awaits its revocation.
ClosedInv ==
  \A s \in closed, l \in Leases : InScope(l, s) /\ Open(l) => row[l].requested

\* A pass reports the scope it closed, and a clean scope has no credential.  It may
\* have an open row: RestoreHandle brings back the row of a dead credential.
CleanInv ==
  /\ \A p \in Revokers : pass[p].scope # None => pass[p].scope \in closed
  /\ \A s \in clean : s \in closed /\ \A l \in Leases : InScope(l, s) => ~MayLive(l)

IInv == TypeOK /\ IssuerInv /\ RevokeInv /\ LiveIsPending /\ ClosedInv /\ CleanInv

USE BrokerAssumption

\* Nothing is issued, closed or reported at the start.
LEMMA InitIInv == Init => IInv
BY DEF Init, IInv, TypeOK, IssuerInv, RevokeInv, LiveIsPending, ClosedInv, CleanInv,
       NoRow, NoRevoke, NoPass, Open, MayLive, Actors, Scopes
-----------------------------------------------------------------------------
(***************************************************************************)
(* The life of one lease: whatever step is taken, a lease makes one of the *)
(* following moves.  The invariants of a lease are proved from them.       *)
(***************************************************************************)

\* The row of a lease may only be asked for, or handed out.
RowAsked(k) ==
  /\ row'[k].there = row[k].there
  /\ row'[k].handle = row[k].handle
  /\ row'[k].revoked = row[k].revoked
  /\ row[k].requested => row'[k].requested

Reserved(k) ==
  /\ issuer[k] = "idle" /\ issuer'[k] = "call"
  /\ provider'[k] = provider[k]
  /\ row'[k] = [NoRow EXCEPT !.there = TRUE]
  /\ Admitted(k)

Called(k) ==
  /\ issuer[k] = "call"
  /\ \/ provider'[k] = "live" /\ issuer'[k] = "record"
     \/ provider'[k] \in {"none", "inflight"} /\ issuer'[k] = "ended"
  /\ RowAsked(k)

Named(k) ==
  /\ issuer[k] \in {"record", "restore"}
  /\ issuer'[k] \in {"restore", "publish", "compensate"}
  /\ provider'[k] = provider[k]
  /\ row'[k].there /\ row'[k].handle
  /\ row'[k].revoked = (row[k].revoked /\ row[k].there)
  /\ row[k].requested \/ ~row[k].there => row'[k].requested

GoesOn(k) ==
  /\ \/ issuer'[k] = issuer[k]
     \/ issuer[k] \notin {"idle", "call", "ended"} /\ issuer'[k] \notin {"idle", "call"}
  /\ provider'[k] = provider[k]
  /\ RowAsked(k)

Dies(k) ==
  /\ \/ issuer'[k] = issuer[k]
     \/ issuer[k] = "compensate" /\ issuer'[k] = "ended"
  /\ row[k].handle \/ provider[k] = "live" \/ issuer[k] = "compensate"
  /\ provider'[k] = "dead"
  /\ row'[k] = row[k]

Revoked(k) ==
  /\ issuer'[k] = issuer[k] \/ issuer'[k] = "ended"
  /\ provider[k] = "dead" \/ issuer[k] = "compensate"
  /\ provider'[k] = "dead"
  /\ row'[k].revoked = (row[k].revoked \/ row[k].there)
  /\ row'[k].there = row[k].there
  /\ row'[k].handle = row[k].handle
  /\ row[k].requested => row'[k].requested

Purged(k) ==
  /\ ~Open(k) /\ ~row'[k].there
  /\ issuer'[k] = issuer[k]
  /\ provider'[k] = provider[k]
  /\ row'[k].handle = row[k].handle
  /\ row'[k].revoked = row[k].revoked

ArrivesLate(k) ==
  /\ provider[k] = "inflight"
  /\ provider'[k] \in {"live", "none"}
  /\ issuer'[k] = issuer[k]
  /\ row'[k] = row[k]

Move(k) ==
  \/ Reserved(k) \/ Called(k) \/ Named(k) \/ GoesOn(k)
  \/ Dies(k) \/ Revoked(k) \/ Purged(k) \/ ArrivesLate(k)

Moves == \A k \in Leases : Move(k)

Row == [there : BOOLEAN, handle : BOOLEAN, ready : BOOLEAN, requested : BOOLEAN,
        revoked : BOOLEAN, redeemed : 0 .. 1]

LeaseTypes ==
  /\ row \in [Leases -> Row]
  /\ provider \in [Leases -> {"none", "inflight", "live", "dead"}]
  /\ issuer \in [Leases -> {"idle", "call", "record", "restore", "compensate",
                            "publish", "issued", "ended"}]
  /\ revoke \in [Actors -> [pc : {"idle", "provider", "mark"}, lease : Leases \cup {None}]]

\* The first transaction of Revoke only asks.
LEMMA RequestEffect ==
  ASSUME LeaseTypes, NEW p, NEW l, RequestRevocation(p, l)
  PROVE  \A k \in Leases : RowAsked(k)
BY DEF RequestRevocation, Requested, RowAsked, LeaseTypes, Row

\* The restored row has the handle and awaits revocation; it is revoked only if it
\* was there and revoked.
LEMMA RestoredRow ==
  ASSUME LeaseTypes, NEW l \in Leases
  PROVE  /\ Restored(l) \in Row
         /\ Restored(l).there /\ Restored(l).handle /\ Restored(l).requested
         /\ Restored(l).revoked = (row[l].revoked /\ row[l].there)
         /\ Restored(l).redeemed \in {0, row[l].redeemed}
<1>1. row[l] \in Row
  BY DEF LeaseTypes
<1>2. CASE row[l].there
  BY <1>1, <1>2 DEF Restored, Requested, Row
<1>3. CASE ~row[l].there
  <2> DEFINE back == [NoRow EXCEPT !.there = TRUE, !.requested = TRUE]
  <2>1. back \in Row /\ back.there /\ back.requested /\ ~back.revoked /\ back.redeemed = 0
    <3>1. NoRow \in Row /\ ~NoRow.revoked /\ NoRow.redeemed = 0
      BY DEF Row, NoRow
    <3>2. \A r \in Row : LET b == [r EXCEPT !.there = TRUE, !.requested = TRUE]
                        IN  /\ b \in Row /\ b.there /\ b.requested
                            /\ b.revoked = r.revoked /\ b.redeemed = r.redeemed
      BY DEF Row
    <3> QED
      BY <3>1, <3>2
  <2>2. Restored(l) = [back EXCEPT !.handle = TRUE]
    BY <1>3 DEF Restored
  <2> HIDE DEF back
  <2>3. /\ Restored(l) \in Row
        /\ Restored(l).there /\ Restored(l).handle /\ Restored(l).requested
        /\ ~Restored(l).revoked
        /\ Restored(l).redeemed = 0
    BY <2>1, <2>2 DEF Row
  <2>4. Restored(l).revoked \in BOOLEAN /\ row[l].revoked \in BOOLEAN
    BY <1>1, <2>3 DEF Row
  <2>5. Restored(l).revoked = (row[l].revoked /\ row[l].there)
    BY <1>3, <2>3, <2>4
  <2> QED
    BY <2>3, <2>5
<1> QED
  BY <1>2, <1>3

\* Every step is a move of every lease.
LEMMA MoveStep ==
  ASSUME LeaseTypes, RevokeInv, [Next]_vars
  PROVE  Moves
<1>1. ASSUME NEW l \in Leases, Reserve(l) PROVE Moves
  BY <1>1 DEF Reserve, Moves, Move, Reserved, GoesOn, RowAsked, LeaseTypes, Row,
     Actors, NoRow, NoRevoke, Open
<1>2. ASSUME NEW l \in Leases, CallProvider(l) PROVE Moves
  BY <1>2 DEF CallProvider, Moves, Move, Called, GoesOn, RowAsked, LeaseTypes, Row,
     Actors, NoRow, NoRevoke, Open
<1>3. ASSUME NEW l \in Leases, RecordHandle(l) PROVE Moves
  <2>1. \A k \in Leases : k # l => GoesOn(k)
    BY <1>3 DEF RecordHandle, GoesOn, RowAsked, LeaseTypes
  <2>2. CASE row[l].there /\ row' = [row EXCEPT ![l].handle = TRUE]
    <3>1. Named(l)
      BY <1>3, <2>2 DEF RecordHandle, Named, LeaseTypes, Row
    <3> QED
      BY <2>1, <3>1 DEF Moves, Move
  <2>3. CASE UNCHANGED row /\ issuer' = [issuer EXCEPT ![l] = "restore"]
    <3>1. GoesOn(l)
      BY <1>3, <2>3 DEF RecordHandle, GoesOn, RowAsked, LeaseTypes
    <3> QED
      BY <2>1, <3>1 DEF Moves, Move
  <2> QED
    BY <1>3, <2>2, <2>3 DEF RecordHandle
<1>4. ASSUME NEW l \in Leases, RestoreHandle(l) PROVE Moves
  <2>1. \A k \in Leases : k # l => GoesOn(k)
    BY <1>4 DEF RestoreHandle, GoesOn, RowAsked, LeaseTypes
  <2>2. CASE row' = [row EXCEPT ![l] = Restored(l)]
    <3>1. row'[l] = Restored(l)
      BY <2>2 DEF LeaseTypes
    <3>2. /\ row'[l].there /\ row'[l].handle
          /\ row'[l].revoked = (row[l].revoked /\ row[l].there)
          /\ row'[l].requested
      BY <3>1, RestoredRow
    <3>3. Named(l)
      BY <1>4, <3>2 DEF RestoreHandle, Named, LeaseTypes
    <3> QED
      BY <2>1, <3>3 DEF Moves, Move
  <2>3. CASE UNCHANGED row
    BY <1>4, <2>1, <2>3 DEF RestoreHandle, Moves, Move, GoesOn, RowAsked, LeaseTypes
  <2> QED
    BY <1>4, <2>2, <2>3 DEF RestoreHandle
<1>5. ASSUME NEW l \in Leases, Compensate(l) PROVE Moves
  <2>1. \A k \in Leases : k # l => GoesOn(k)
    BY <1>5 DEF Compensate, GoesOn, RowAsked, LeaseTypes
  <2>2. CASE UNCHANGED <<provider, row>>
    BY <1>5, <2>1, <2>2 DEF Compensate, Moves, Move, GoesOn, RowAsked, LeaseTypes
  <2>3. CASE provider' = [provider EXCEPT ![l] = "dead"] /\ UNCHANGED row
    <3>1. Dies(l)
      BY <1>5, <2>3 DEF Compensate, Dies, LeaseTypes
    <3> QED
      BY <2>1, <3>1 DEF Moves, Move
  <2>4. CASE provider' = [provider EXCEPT ![l] = "dead"]
             /\ row' = [row EXCEPT ![l].revoked = @ \/ row[l].there]
    <3>1. Revoked(l)
      BY <1>5, <2>4 DEF Compensate, Revoked, LeaseTypes, Row
    <3> QED
      BY <2>1, <3>1 DEF Moves, Move
  <2>5. ASSUME NEW q \in {provider[l], "dead"}, provider' = [provider EXCEPT ![l] = q]
        PROVE  UNCHANGED provider \/ provider' = [provider EXCEPT ![l] = "dead"]
    BY <2>5 DEF LeaseTypes
  <2> QED
    BY <1>5, <2>2, <2>3, <2>4, <2>5 DEF Compensate
<1>6. ASSUME NEW l \in Leases, Publish(l) PROVE Moves
  <2>1. \A k \in Leases : provider'[k] = provider[k]
    BY <1>6 DEF Publish
  <2>2. \A k \in Leases : \/ issuer'[k] = issuer[k]
                          \/ issuer[k] = "publish" /\ issuer'[k] \in {"issued", "ended"}
    BY <1>6 DEF Publish, LeaseTypes
  <2>3. \A k \in Leases : RowAsked(k)
    <3>1. CASE RequestRevocation(l, l)
      BY <3>1, RequestEffect
    <3>2. CASE row' = [row EXCEPT ![l].ready = TRUE]
      BY <3>2 DEF RowAsked, LeaseTypes, Row
    <3> QED
      BY <1>6, <3>1, <3>2 DEF Publish
  <2> QED
    BY <2>1, <2>2, <2>3 DEF Moves, Move, GoesOn
<1>7. ASSUME NEW d \in Redeemers, NEW l \in Leases, RedeemCheck(d, l) PROVE Moves
  BY <1>7 DEF RedeemCheck, Moves, Move, GoesOn, RowAsked, LeaseTypes, Row, Actors,
     NoRow, NoRevoke, Open
<1>8. ASSUME NEW d \in Redeemers, RedeemCommit(d) PROVE Moves
  BY <1>8 DEF RedeemCommit, Moves, Move, GoesOn, RowAsked, LeaseTypes, Row, Actors,
     NoRow, NoRevoke, Open
<1>9. ASSUME NEW p \in Revokers, NEW s \in Scopes, CloseScope(p, s) PROVE Moves
  BY <1>9 DEF CloseScope, Requested, Moves, Move, GoesOn, RowAsked, LeaseTypes, Row,
     Actors, NoRow, NoRevoke, Open
<1>10. ASSUME NEW p \in Revokers, RetryPass(p) PROVE Moves
  BY <1>10 DEF RetryPass, Moves, Move, GoesOn, RowAsked, LeaseTypes, Row, Actors,
     NoRow, NoRevoke, Open
<1>11. ASSUME NEW p \in Revokers, RevokeNext(p) PROVE Moves
  <2>1. PICK l \in pass[p].todo : RequestRevocation(p, l)
    BY <1>11 DEF RevokeNext
  <2>2. \A k \in Leases : RowAsked(k)
    BY <2>1, RequestEffect
  <2> QED
    BY <1>11, <2>2 DEF RevokeNext, Moves, Move, GoesOn
<1>12. ASSUME NEW p \in Actors, RevokeAtProvider(p) PROVE Moves
  BY <1>12 DEF RevokeAtProvider, Moves, Move, Dies, GoesOn, RowAsked, LeaseTypes, Row,
     Actors, NoRow, NoRevoke, Open, RevokeInv
<1>13. ASSUME NEW p \in Actors, MarkRevoked(p) PROVE Moves
  BY <1>13 DEF MarkRevoked, Moves, Move, Revoked, GoesOn, RowAsked, LeaseTypes, Row,
     Actors, NoRow, NoRevoke, Open, RevokeInv
<1>14. ASSUME NEW p \in Revokers, EndPass(p) PROVE Moves
  BY <1>14 DEF EndPass, Moves, Move, GoesOn, RowAsked, LeaseTypes, Row, Actors, NoRow,
     NoRevoke, Open
<1>15. ASSUME Purge PROVE Moves
  BY <1>15 DEF Purge, Requested, Moves, Move, Purged, GoesOn, RowAsked, LeaseTypes,
     Row, Actors, NoRow, NoRevoke, Open
<1>16. ASSUME NEW l \in Leases, LateLease(l) PROVE Moves
  BY <1>16 DEF LateLease, Moves, Move, ArrivesLate, GoesOn, RowAsked, LeaseTypes, Row,
     Actors, NoRow, NoRevoke, Open
<1>17. ASSUME NEW l \in Leases, Expire(l) PROVE Moves
  BY <1>17 DEF Expire, Moves, Move, Dies, GoesOn, RowAsked, LeaseTypes, Row, Actors,
     NoRow, NoRevoke, Open
<1>18. ASSUME NEW l \in Leases, CrashIssuer(l) PROVE Moves
  <2>1. \A k \in Leases : RowAsked(k)
    BY <1>18 DEF CrashIssuer, RowAsked
  <2>2. \A k \in Leases : k # l => issuer'[k] = issuer[k] /\ provider'[k] = provider[k]
    BY <1>18 DEF CrashIssuer, LeaseTypes
  <2>3. CASE issuer[l] = "call"
    <3>1. provider'[l] = "inflight" /\ issuer'[l] = "ended"
      BY <1>18, <2>3 DEF CrashIssuer, LeaseTypes
    <3> QED
      BY <2>1, <2>2, <2>3, <3>1 DEF Moves, Move, Called, GoesOn
  <2>4. CASE issuer[l] # "call"
    <3>1. provider'[l] = provider[l]
      BY <1>18, <2>4 DEF CrashIssuer, LeaseTypes
    <3>2. \/ issuer'[l] = issuer[l]
          \/ issuer[l] \notin {"idle", "call", "ended"} /\ issuer'[l] = "ended"
      BY <1>18, <2>4 DEF CrashIssuer, LeaseTypes, RevokeInv
    <3> QED
      BY <2>1, <2>2, <3>1, <3>2 DEF Moves, Move, GoesOn
  <2> QED
    BY <2>3, <2>4
<1>19. ASSUME NEW p \in Revokers, CrashRevoker(p) PROVE Moves
  BY <1>19 DEF CrashRevoker, Moves, Move, GoesOn, RowAsked, LeaseTypes, Row, Actors,
     NoRow, NoRevoke, Open
<1>20. CASE UNCHANGED vars
  BY <1>20 DEF vars, Moves, Move, GoesOn, RowAsked
<1> QED
  BY <1>1, <1>2, <1>3, <1>4, <1>5, <1>6, <1>7, <1>8, <1>9, <1>10, <1>11, <1>12,
     <1>13, <1>14, <1>15, <1>16, <1>17, <1>18, <1>19, <1>20 DEF Next, IssuerStep,
     RevokeStep, RevokerStep, Actors

\* A move keeps an issuance in order.
LEMMA IssuerInvStep == LeaseTypes /\ IssuerInv /\ Moves => IssuerInv'
<1> SUFFICES ASSUME LeaseTypes, IssuerInv, Moves, NEW k \in Leases
             PROVE  IssuerInv!(k)'
  BY DEF IssuerInv
<1>1. Move(k)
  BY DEF Moves
<1> QED
  BY <1>1 DEF Move, Reserved, Called, Named, GoesOn, Dies, Revoked, Purged, ArrivesLate,
     RowAsked, IssuerInv, LeaseTypes, Row, NoRow, Open

\* A move keeps sight of what may be live.
LEMMA LiveStep == LeaseTypes /\ IssuerInv /\ LiveIsPending /\ Moves => LiveIsPending'
<1> SUFFICES ASSUME LeaseTypes, IssuerInv, LiveIsPending, Moves, NEW k \in Leases
             PROVE  MayLive(k)' => Open(k)'
  BY DEF LiveIsPending
<1>1. Move(k) /\ IssuerInv!(k) /\ (MayLive(k) => Open(k))
  BY DEF Moves, IssuerInv, LiveIsPending
<1> QED
  BY <1>1 DEF Move, Reserved, Called, Named, GoesOn, Dies, Revoked, Purged, ArrivesLate,
     RowAsked, MayLive, LeaseTypes, Row, NoRow, Open

\* A handle is never forgotten, and a lease it names dies once.
LEMMA HandleStays ==
  ASSUME LeaseTypes, IssuerInv, Moves, NEW k \in Leases, row[k].handle
  PROVE  row'[k].handle /\ (provider[k] = "dead" => provider'[k] = "dead")
<1>1. Move(k) /\ IssuerInv!(k)
  BY DEF Moves, IssuerInv
<1> QED
  BY <1>1 DEF Move, Reserved, Called, Named, GoesOn, Dies, Revoked, Purged, ArrivesLate,
     RowAsked, LeaseTypes, Row, NoRow, Open

\* A row is opened by its reservation, or comes back asked for; a credential begins
\* with its reservation and with nothing else.
LEMMA ClosedStays ==
  ASSUME LeaseTypes, IssuerInv, Moves, NEW k \in Leases
  PROVE  /\ Open(k)' => Reserved(k) \/ row'[k].requested \/ (Open(k) /\ ~row[k].requested)
         /\ MayLive(k)' => MayLive(k) \/ Reserved(k)
<1>1. Move(k) /\ IssuerInv!(k)
  BY DEF Moves, IssuerInv
<1> QED
  BY <1>1 DEF Move, Reserved, Called, Named, GoesOn, Dies, Revoked, Purged, ArrivesLate,
     RowAsked, MayLive, LeaseTypes, Row, NoRow, Open

-----------------------------------------------------------------------------
(* Types *)

OtherTypes ==
  /\ closed \subseteq Scopes
  /\ pass \in [Revokers -> [todo : SUBSET Leases, scope : Scopes \cup {None},
                            busy : BOOLEAN]]
  /\ redeem \in [Redeemers -> Leases \cup {None}]
  /\ clean \subseteq Scopes
  /\ faults \in 0 .. MaxFaults

\* The two groups make up the type invariant.
LEMMA TypeParts == TypeOK <=> LeaseTypes /\ OtherTypes
BY DEF TypeOK, LeaseTypes, OtherTypes, Row

\* Asking for a row keeps its shape.
LEMMA RequestedType ==
  ASSUME LeaseTypes, NEW l \in Leases
  PROVE  Requested(l) \in Row
BY DEF Requested, LeaseTypes, Row

\* And so does every other write to one.
LEMMA RowUpdates ==
  ASSUME LeaseTypes, NEW l \in Leases
  PROVE  /\ [NoRow EXCEPT !.there = TRUE] \in Row
         /\ [row[l] EXCEPT !.ready = TRUE] \in Row
         /\ [row[l] EXCEPT !.handle = TRUE] \in Row
         /\ [row[l] EXCEPT !.requested = TRUE] \in Row
         /\ [row[l] EXCEPT !.revoked = @ \/ row[l].there] \in Row
         /\ row[l].redeemed = 0 => [row[l] EXCEPT !.redeemed = @ + 1] \in Row
<1>1. row[l] \in Row
  BY DEF LeaseTypes
<1>2. NoRow \in Row
  BY DEF Row, NoRow
<1>3. \A r \in Row : /\ [r EXCEPT !.there = TRUE] \in Row
                    /\ [r EXCEPT !.ready = TRUE] \in Row
                    /\ [r EXCEPT !.handle = TRUE] \in Row
                    /\ [r EXCEPT !.requested = TRUE] \in Row
  BY DEF Row
<1>4. \A r \in Row : \A b \in BOOLEAN : [r EXCEPT !.revoked = b] \in Row
  BY DEF Row
<1>5. (row[l].revoked \/ row[l].there) \in BOOLEAN
  OBVIOUS
<1>6. row[l].redeemed = 0 => [row[l] EXCEPT !.redeemed = @ + 1] \in Row
  BY <1>1 DEF Row
<1> QED
  BY <1>1, <1>2, <1>3, <1>4, <1>5, <1>6

\* So does the first transaction of Revoke, and it names a lease.
LEMMA RequestType ==
  ASSUME LeaseTypes, NEW p \in Actors, NEW l \in Leases, RequestRevocation(p, l)
  PROVE  /\ row' \in [Leases -> Row]
         /\ revoke' \in [Actors -> [pc : {"idle", "provider", "mark"},
                                    lease : Leases \cup {None}]]
<1>1. row' \in [Leases -> Row]
  BY RequestedType DEF RequestRevocation, LeaseTypes
<1>2. NoRevoke \in [pc : {"idle", "provider", "mark"}, lease : Leases \cup {None}]
  BY DEF NoRevoke
<1> QED
  BY <1>1, <1>2 DEF RequestRevocation, LeaseTypes

\* Every step keeps the types of rows, leases and their calls.
LEMMA LeaseTypeStep ==
  ASSUME LeaseTypes, OtherTypes, RevokeInv, [Next]_vars
  PROVE  LeaseTypes'
<1>1. ASSUME NEW l \in Leases, Reserve(l) PROVE LeaseTypes'
  <2>1. row' \in [Leases -> Row]
    BY <1>1, RowUpdates DEF Reserve, LeaseTypes
  <2> QED
    BY <1>1, <2>1 DEF Reserve, LeaseTypes, NoRevoke
<1>2. ASSUME NEW l \in Leases, CallProvider(l) PROVE LeaseTypes'
  <2>1. row' = row \/ row' = [row EXCEPT ![l].requested = TRUE]
    BY <1>2 DEF CallProvider
  <2>2. row' \in [Leases -> Row]
    BY <2>1, RowUpdates DEF LeaseTypes
  <2> QED
    BY <1>2, <2>2 DEF CallProvider, LeaseTypes
<1>3. ASSUME NEW l \in Leases, RecordHandle(l) PROVE LeaseTypes'
  <2>1. row' \in [Leases -> Row]
    BY <1>3, RowUpdates DEF RecordHandle, LeaseTypes
  <2> QED
    BY <1>3, <2>1 DEF RecordHandle, LeaseTypes, NoRevoke
<1>4. ASSUME NEW l \in Leases, RestoreHandle(l) PROVE LeaseTypes'
  <2>1. row' \in [Leases -> Row]
    BY <1>4, RestoredRow DEF RestoreHandle, LeaseTypes
  <2> QED
    BY <1>4, <2>1 DEF RestoreHandle, LeaseTypes, NoRevoke
<1>5. ASSUME NEW l \in Leases, Compensate(l) PROVE LeaseTypes'
  <2>1. row' \in [Leases -> Row]
    <3>1. row' = row \/ row' = [row EXCEPT ![l].revoked = @ \/ row[l].there]
      BY <1>5 DEF Compensate
    <3> QED
      BY <3>1, RowUpdates DEF LeaseTypes
  <2>2. \A q \in {provider[l], "dead"} :
          [provider EXCEPT ![l] = q] \in [Leases -> {"none", "inflight", "live", "dead"}]
    BY DEF LeaseTypes
  <2>3. provider' \in [Leases -> {"none", "inflight", "live", "dead"}]
    BY <1>5, <2>2 DEF Compensate
  <2> QED
    BY <1>5, <2>1, <2>3 DEF Compensate, LeaseTypes
<1>6. ASSUME NEW l \in Leases, Publish(l) PROVE LeaseTypes'
  <2>1. CASE RequestRevocation(l, l)
    BY <1>6, <2>1, RequestType DEF Publish, LeaseTypes, Actors
  <2>2. CASE row' = [row EXCEPT ![l].ready = TRUE] /\ UNCHANGED revoke
    <3>1. row' \in [Leases -> Row]
      BY <2>2, RowUpdates DEF LeaseTypes
    <3> QED
      BY <1>6, <2>2, <3>1 DEF Publish, LeaseTypes
  <2> QED
    BY <1>6, <2>1, <2>2 DEF Publish
<1>7. ASSUME NEW d \in Redeemers, NEW l \in Leases, RedeemCheck(d, l) PROVE LeaseTypes'
  BY <1>7 DEF RedeemCheck, LeaseTypes, Row, Actors, NoRow, NoRevoke
<1>8. ASSUME NEW d \in Redeemers, RedeemCommit(d) PROVE LeaseTypes'
  <2>1. row' \in [Leases -> Row]
    BY <1>8, RowUpdates DEF RedeemCommit, Redeemable, LeaseTypes, OtherTypes
  <2> QED
    BY <1>8, <2>1 DEF RedeemCommit, Redeemable, LeaseTypes, NoRevoke
<1>9. ASSUME NEW p \in Revokers, NEW s \in Scopes, CloseScope(p, s) PROVE LeaseTypes'
  BY <1>9, RequestedType DEF CloseScope, LeaseTypes
<1>10. ASSUME NEW p \in Revokers, RetryPass(p) PROVE LeaseTypes'
  BY <1>10 DEF RetryPass, RetryDue, Due, LeaseTypes, Row, Actors, NoRow, NoRevoke
<1>11. ASSUME NEW p \in Revokers, RevokeNext(p) PROVE LeaseTypes'
  <2>1. PICK l \in pass[p].todo : RequestRevocation(p, l)
    BY <1>11 DEF RevokeNext
  <2>2. l \in Leases /\ p \in Actors
    BY <1>11 DEF OtherTypes, Actors
  <2> QED
    BY <1>11, <2>1, <2>2, RequestType DEF RevokeNext, LeaseTypes
<1>12. ASSUME NEW p \in Actors, RevokeAtProvider(p) PROVE LeaseTypes'
  <2>1. provider' \in [Leases -> {"none", "inflight", "live", "dead"}]
    BY <1>12 DEF RevokeAtProvider, LeaseTypes
  <2>2. revoke' \in [Actors -> [pc : {"idle", "provider", "mark"}, lease : Leases \cup {None}]]
    BY <1>12 DEF RevokeAtProvider, LeaseTypes, NoRevoke
  <2> QED
    BY <1>12, <2>1, <2>2 DEF RevokeAtProvider, LeaseTypes
<1>13. ASSUME NEW p \in Actors, MarkRevoked(p) PROVE LeaseTypes'
  <2>1. row' \in [Leases -> Row]
    BY <1>13, RowUpdates DEF MarkRevoked, RevokeInv, LeaseTypes
  <2> QED
    BY <1>13, <2>1 DEF MarkRevoked, RevokeInv, LeaseTypes, NoRevoke
<1>14. ASSUME NEW p \in Revokers, EndPass(p) PROVE LeaseTypes'
  BY <1>14 DEF EndPass, LeaseTypes, Row, Actors, NoRow, NoRevoke
<1>15. ASSUME Purge PROVE LeaseTypes'
  BY <1>15, RequestedType DEF Purge, LeaseTypes, Row
<1>16. ASSUME NEW l \in Leases, LateLease(l) PROVE LeaseTypes'
  BY <1>16 DEF LateLease, LeaseTypes, Row, Actors, NoRow, NoRevoke
<1>17. ASSUME NEW l \in Leases, Expire(l) PROVE LeaseTypes'
  BY <1>17 DEF Expire, LeaseTypes, Row, Actors, NoRow, NoRevoke
<1>18. ASSUME NEW l \in Leases, CrashIssuer(l) PROVE LeaseTypes'
  BY <1>18 DEF CrashIssuer, Fault, LeaseTypes, Row, Actors, NoRow, NoRevoke
<1>19. ASSUME NEW p \in Revokers, CrashRevoker(p) PROVE LeaseTypes'
  BY <1>19 DEF CrashRevoker, Fault, LeaseTypes, Row, Actors, NoRow, NoRevoke
<1>20. CASE UNCHANGED vars
  BY <1>20 DEF vars, LeaseTypes, Row, Actors, NoRow, NoRevoke
<1> QED
  BY <1>1, <1>2, <1>3, <1>4, <1>5, <1>6, <1>7, <1>8, <1>9, <1>10, <1>11, <1>12,
     <1>13, <1>14, <1>15, <1>16, <1>17, <1>18, <1>19, <1>20 DEF Next, IssuerStep,
     RevokeStep, RevokerStep, Actors

\* Every step keeps the types of scopes, passes and redemptions.
LEMMA OtherTypeStep ==
  ASSUME LeaseTypes, OtherTypes, [Next]_vars
  PROVE  OtherTypes'
<1>1. ASSUME NEW l \in Leases, Reserve(l) PROVE OtherTypes'
  BY <1>1 DEF Reserve, OtherTypes, NoPass, Scopes
<1>2. ASSUME NEW l \in Leases, CallProvider(l) PROVE OtherTypes'
  BY <1>2 DEF CallProvider, Fault, OtherTypes, NoPass, Scopes
<1>3. ASSUME NEW l \in Leases, RecordHandle(l) PROVE OtherTypes'
  BY <1>3 DEF RecordHandle, Fault, OtherTypes, NoPass, Scopes
<1>4. ASSUME NEW l \in Leases, RestoreHandle(l) PROVE OtherTypes'
  BY <1>4 DEF RestoreHandle, Fault, OtherTypes, NoPass, Scopes
<1>5. ASSUME NEW l \in Leases, Compensate(l) PROVE OtherTypes'
  BY <1>5 DEF Compensate, Fault, OtherTypes, NoPass, Scopes
<1>6. ASSUME NEW l \in Leases, Publish(l) PROVE OtherTypes'
  BY <1>6 DEF Publish, Fault, OtherTypes
<1>7. ASSUME NEW d \in Redeemers, NEW l \in Leases, RedeemCheck(d, l) PROVE OtherTypes'
  BY <1>7 DEF RedeemCheck, OtherTypes, NoPass, Scopes
<1>8. ASSUME NEW d \in Redeemers, RedeemCommit(d) PROVE OtherTypes'
  BY <1>8 DEF RedeemCommit, Redeemable, OtherTypes, NoPass, Scopes
<1>9. ASSUME NEW p \in Revokers, NEW s \in Scopes, CloseScope(p, s) PROVE OtherTypes'
  BY <1>9 DEF CloseScope, OtherTypes
<1>10. ASSUME NEW p \in Revokers, RetryPass(p) PROVE OtherTypes'
  BY <1>10 DEF RetryPass, RetryDue, Due, OtherTypes
<1>11. ASSUME NEW p \in Revokers, RevokeNext(p) PROVE OtherTypes'
  BY <1>11 DEF RevokeNext, OtherTypes
<1>12. ASSUME NEW p \in Actors, RevokeAtProvider(p) PROVE OtherTypes'
  BY <1>12 DEF RevokeAtProvider, Fault, OtherTypes, NoPass, Scopes
<1>13. ASSUME NEW p \in Actors, MarkRevoked(p) PROVE OtherTypes'
  BY <1>13 DEF MarkRevoked, OtherTypes, NoPass, Scopes
<1>14. ASSUME NEW p \in Revokers, EndPass(p) PROVE OtherTypes'
  BY <1>14 DEF EndPass, OtherTypes, NoPass
<1>15. ASSUME Purge PROVE OtherTypes'
  BY <1>15 DEF Purge, Requested, OtherTypes, NoPass, Scopes
<1>16. ASSUME NEW l \in Leases, LateLease(l) PROVE OtherTypes'
  BY <1>16 DEF LateLease, OtherTypes, NoPass, Scopes
<1>17. ASSUME NEW l \in Leases, Expire(l) PROVE OtherTypes'
  BY <1>17 DEF Expire, OtherTypes, NoPass, Scopes
<1>18. ASSUME NEW l \in Leases, CrashIssuer(l) PROVE OtherTypes'
  BY <1>18 DEF CrashIssuer, Fault, OtherTypes, NoPass, Scopes
<1>19. ASSUME NEW p \in Revokers, CrashRevoker(p) PROVE OtherTypes'
  BY <1>19 DEF CrashRevoker, Fault, OtherTypes, NoPass, Scopes
<1>20. CASE UNCHANGED vars
  BY <1>20 DEF vars, OtherTypes, NoPass, Scopes
<1> QED
  BY <1>1, <1>2, <1>3, <1>4, <1>5, <1>6, <1>7, <1>8, <1>9, <1>10, <1>11, <1>12,
     <1>13, <1>14, <1>15, <1>16, <1>17, <1>18, <1>19, <1>20 DEF Next, IssuerStep,
     RevokeStep, RevokerStep, Actors

-----------------------------------------------------------------------------
(* Revocation and fences *)

EndedStays == \A k \in Leases : issuer[k] = "ended" => issuer'[k] = "ended"

\* A step that leaves the calls of Revoke alone keeps them in order.
LEMMA RevokeKept ==
  ASSUME LeaseTypes, IssuerInv, RevokeInv, Moves, UNCHANGED revoke, EndedStays
  PROVE  RevokeInv'
BY HandleStays DEF RevokeInv, EndedStays

\* So does the end of one of them.
LEMMA RevokeEnds ==
  ASSUME LeaseTypes, IssuerInv, RevokeInv, Moves, NEW p \in Actors,
         revoke' = [revoke EXCEPT ![p] = NoRevoke], EndedStays
  PROVE  RevokeInv'
<1>1. \A q \in Actors : q # p => revoke'[q] = revoke[q]
  BY DEF LeaseTypes
<1>2. revoke'[p].pc = "idle"
  BY DEF LeaseTypes, NoRevoke
<1> QED
  BY <1>1, <1>2, HandleStays DEF RevokeInv, EndedStays, Actors

\* And its beginning, which takes the handle.
LEMMA RevokeStarts ==
  ASSUME LeaseTypes, IssuerInv, RevokeInv, Moves, NEW p \in Actors, NEW l \in Leases,
         RequestRevocation(p, l), EndedStays, p \in Leases => issuer'[p] = "ended"
  PROVE  RevokeInv'
<1>1. \A q \in Actors : q # p => revoke'[q] = revoke[q]
  BY DEF RequestRevocation, LeaseTypes
<1>2. revoke'[p].pc # "idle" =>
        revoke'[p].pc = "provider" /\ revoke'[p].lease = l /\ row[l].handle
  BY DEF RequestRevocation, LeaseTypes, NoRevoke
<1> QED
  BY <1>1, <1>2, HandleStays DEF RevokeInv, EndedStays, Actors

\* Every step keeps the calls of Revoke in order.
LEMMA RevokeInvStep ==
  ASSUME LeaseTypes, OtherTypes, IssuerInv, RevokeInv, [Next]_vars
  PROVE  RevokeInv'
<1>1. ASSUME NEW l \in Leases, Reserve(l) PROVE RevokeInv'
  <2>1. revoke' = revoke /\ EndedStays
    BY <1>1 DEF Reserve, LeaseTypes, EndedStays
  <2> QED
    BY <2>1, MoveStep, RevokeKept
<1>2. ASSUME NEW l \in Leases, CallProvider(l) PROVE RevokeInv'
  <2>1. revoke' = revoke /\ EndedStays
    BY <1>2 DEF CallProvider, LeaseTypes, EndedStays
  <2> QED
    BY <2>1, MoveStep, RevokeKept
<1>3. ASSUME NEW l \in Leases, RecordHandle(l) PROVE RevokeInv'
  <2>1. revoke' = revoke /\ EndedStays
    BY <1>3 DEF RecordHandle, LeaseTypes, EndedStays
  <2> QED
    BY <2>1, MoveStep, RevokeKept
<1>4. ASSUME NEW l \in Leases, RestoreHandle(l) PROVE RevokeInv'
  <2>1. revoke' = revoke /\ EndedStays
    BY <1>4 DEF RestoreHandle, LeaseTypes, EndedStays
  <2> QED
    BY <2>1, MoveStep, RevokeKept
<1>5. ASSUME NEW l \in Leases, Compensate(l) PROVE RevokeInv'
  <2>1. revoke' = revoke /\ EndedStays
    BY <1>5 DEF Compensate, LeaseTypes, EndedStays
  <2> QED
    BY <2>1, MoveStep, RevokeKept
<1>6. ASSUME NEW l \in Leases, Publish(l) PROVE RevokeInv'
  <2>1. CASE RequestRevocation(l, l) /\ issuer' = [issuer EXCEPT ![l] = "ended"]
    <3>1. EndedStays
      BY <2>1 DEF LeaseTypes, EndedStays
    <3>2. l \in Actors /\ issuer'[l] = "ended"
      BY <2>1 DEF Actors, LeaseTypes
    <3> QED
      BY <2>1, <3>1, <3>2, MoveStep, RevokeStarts
  <2>2. CASE UNCHANGED revoke
    <3>1. EndedStays
      BY <1>6 DEF Publish, LeaseTypes, EndedStays
    <3> QED
      BY <2>2, <3>1, MoveStep, RevokeKept
  <2> QED
    BY <1>6, <2>1, <2>2 DEF Publish
<1>7. ASSUME NEW d \in Redeemers, NEW l \in Leases, RedeemCheck(d, l) PROVE RevokeInv'
  <2>1. revoke' = revoke /\ EndedStays
    BY <1>7 DEF RedeemCheck, LeaseTypes, EndedStays
  <2> QED
    BY <2>1, MoveStep, RevokeKept
<1>8. ASSUME NEW d \in Redeemers, RedeemCommit(d) PROVE RevokeInv'
  <2>1. revoke' = revoke /\ EndedStays
    BY <1>8 DEF RedeemCommit, LeaseTypes, EndedStays
  <2> QED
    BY <2>1, MoveStep, RevokeKept
<1>9. ASSUME NEW p \in Revokers, NEW s \in Scopes, CloseScope(p, s) PROVE RevokeInv'
  <2>1. revoke' = revoke /\ EndedStays
    BY <1>9 DEF CloseScope, LeaseTypes, EndedStays
  <2> QED
    BY <2>1, MoveStep, RevokeKept
<1>10. ASSUME NEW p \in Revokers, RetryPass(p) PROVE RevokeInv'
  <2>1. revoke' = revoke /\ EndedStays
    BY <1>10 DEF RetryPass, LeaseTypes, EndedStays
  <2> QED
    BY <2>1, MoveStep, RevokeKept
<1>11. ASSUME NEW p \in Revokers, RevokeNext(p) PROVE RevokeInv'
  <2>1. PICK l \in pass[p].todo : RequestRevocation(p, l)
    BY <1>11 DEF RevokeNext
  <2>2. l \in Leases /\ p \in Actors /\ p \notin Leases /\ EndedStays
    BY <1>11 DEF RevokeNext, OtherTypes, Actors, EndedStays
  <2> QED
    BY <2>1, <2>2, MoveStep, RevokeStarts
<1>12. ASSUME NEW p \in Actors, RevokeAtProvider(p) PROVE RevokeInv'
  <2>1. CASE /\ provider' = [provider EXCEPT ![revoke[p].lease] = "dead"]
             /\ revoke' = [revoke EXCEPT ![p].pc = "mark"]
    <3>1. \A q \in Actors : q # p => revoke'[q] = revoke[q]
      BY <2>1 DEF LeaseTypes
    <3>2. /\ revoke'[p].pc = "mark" /\ revoke'[p].lease = revoke[p].lease
          /\ revoke[p].lease \in Leases /\ provider'[revoke[p].lease] = "dead"
      BY <1>12, <2>1 DEF RevokeAtProvider, LeaseTypes, RevokeInv
    <3>3. issuer' = issuer /\ revoke[p].pc # "idle"
      BY <1>12 DEF RevokeAtProvider
    <3> QED
      BY <3>1, <3>2, <3>3, MoveStep, HandleStays DEF RevokeInv, Actors
  <2>2. CASE revoke' = [revoke EXCEPT ![p] = NoRevoke]
    BY <1>12, <2>2, MoveStep, RevokeEnds DEF RevokeAtProvider, EndedStays
  <2> QED
    BY <1>12, <2>1, <2>2 DEF RevokeAtProvider
<1>13. ASSUME NEW p \in Actors, MarkRevoked(p) PROVE RevokeInv'
  BY <1>13, MoveStep, RevokeEnds DEF MarkRevoked, EndedStays
<1>14. ASSUME NEW p \in Revokers, EndPass(p) PROVE RevokeInv'
  <2>1. revoke' = revoke /\ EndedStays
    BY <1>14 DEF EndPass, LeaseTypes, EndedStays
  <2> QED
    BY <2>1, MoveStep, RevokeKept
<1>15. ASSUME Purge PROVE RevokeInv'
  <2>1. revoke' = revoke /\ EndedStays
    BY <1>15 DEF Purge, LeaseTypes, EndedStays
  <2> QED
    BY <2>1, MoveStep, RevokeKept
<1>16. ASSUME NEW l \in Leases, LateLease(l) PROVE RevokeInv'
  <2>1. revoke' = revoke /\ EndedStays
    BY <1>16 DEF LateLease, LeaseTypes, EndedStays
  <2> QED
    BY <2>1, MoveStep, RevokeKept
<1>17. ASSUME NEW l \in Leases, Expire(l) PROVE RevokeInv'
  <2>1. revoke' = revoke /\ EndedStays
    BY <1>17 DEF Expire, LeaseTypes, EndedStays
  <2> QED
    BY <2>1, MoveStep, RevokeKept
<1>18. ASSUME NEW l \in Leases, CrashIssuer(l) PROVE RevokeInv'
  <2>1. EndedStays
    BY <1>18 DEF CrashIssuer, LeaseTypes, EndedStays
  <2> QED
    BY <1>18, <2>1, MoveStep, RevokeEnds DEF CrashIssuer, Actors
<1>19. ASSUME NEW p \in Revokers, CrashRevoker(p) PROVE RevokeInv'
  BY <1>19, MoveStep, RevokeEnds DEF CrashRevoker, EndedStays, Actors
<1>20. CASE UNCHANGED vars
  BY <1>20 DEF vars, RevokeInv
<1> QED
  BY <1>1, <1>2, <1>3, <1>4, <1>5, <1>6, <1>7, <1>8, <1>9, <1>10, <1>11, <1>12,
     <1>13, <1>14, <1>15, <1>16, <1>17, <1>18, <1>19, <1>20 DEF Next, IssuerStep,
     RevokeStep, RevokerStep, Actors

ClosedGrowth ==
  /\ closed \subseteq closed'
  /\ \A s \in closed' : s \notin closed =>
       (\E p \in Revokers : CloseScope(p, s)) \/ (Purge /\ s = Run)

CleanGrowth ==
  \A s \in clean' : s \notin clean =>
    \/ \E p \in Revokers : EndPass(p) /\ s = pass[p].scope /\ s # None /\ Pending(s) = {}
    \/ Purge /\ s = Run /\ Pending(Run) = {}

PassScopes ==
  \A p \in Revokers : pass'[p].scope # None =>
    pass'[p].scope = pass[p].scope \/ \E s \in Scopes : CloseScope(p, s)

\* A scope is closed by the revoker that asks for it, or by the purge.
LEMMA ClosedGrows ==
  ASSUME LeaseTypes, [Next]_vars
  PROVE  ClosedGrowth
<1>1. ASSUME NEW l \in Leases, Reserve(l) PROVE ClosedGrowth
  BY <1>1 DEF Reserve, ClosedGrowth
<1>2. ASSUME NEW l \in Leases, CallProvider(l) PROVE ClosedGrowth
  BY <1>2 DEF CallProvider, ClosedGrowth
<1>3. ASSUME NEW l \in Leases, RecordHandle(l) PROVE ClosedGrowth
  BY <1>3 DEF RecordHandle, ClosedGrowth
<1>4. ASSUME NEW l \in Leases, RestoreHandle(l) PROVE ClosedGrowth
  BY <1>4 DEF RestoreHandle, ClosedGrowth
<1>5. ASSUME NEW l \in Leases, Compensate(l) PROVE ClosedGrowth
  BY <1>5 DEF Compensate, ClosedGrowth
<1>6. ASSUME NEW l \in Leases, Publish(l) PROVE ClosedGrowth
  BY <1>6 DEF Publish, ClosedGrowth
<1>7. ASSUME NEW d \in Redeemers, NEW l \in Leases, RedeemCheck(d, l) PROVE ClosedGrowth
  BY <1>7 DEF RedeemCheck, ClosedGrowth
<1>8. ASSUME NEW d \in Redeemers, RedeemCommit(d) PROVE ClosedGrowth
  BY <1>8 DEF RedeemCommit, ClosedGrowth
<1>9. ASSUME NEW p \in Revokers, NEW s \in Scopes, CloseScope(p, s) PROVE ClosedGrowth
  BY <1>9 DEF CloseScope, ClosedGrowth
<1>10. ASSUME NEW p \in Revokers, RetryPass(p) PROVE ClosedGrowth
  BY <1>10 DEF RetryPass, ClosedGrowth
<1>11. ASSUME NEW p \in Revokers, RevokeNext(p) PROVE ClosedGrowth
  BY <1>11 DEF RevokeNext, ClosedGrowth
<1>12. ASSUME NEW p \in Actors, RevokeAtProvider(p) PROVE ClosedGrowth
  BY <1>12 DEF RevokeAtProvider, ClosedGrowth
<1>13. ASSUME NEW p \in Actors, MarkRevoked(p) PROVE ClosedGrowth
  BY <1>13 DEF MarkRevoked, ClosedGrowth
<1>14. ASSUME NEW p \in Revokers, EndPass(p) PROVE ClosedGrowth
  BY <1>14 DEF EndPass, ClosedGrowth
<1>15. ASSUME Purge PROVE ClosedGrowth
  BY <1>15 DEF Purge, ClosedGrowth
<1>16. ASSUME NEW l \in Leases, LateLease(l) PROVE ClosedGrowth
  BY <1>16 DEF LateLease, ClosedGrowth
<1>17. ASSUME NEW l \in Leases, Expire(l) PROVE ClosedGrowth
  BY <1>17 DEF Expire, ClosedGrowth
<1>18. ASSUME NEW l \in Leases, CrashIssuer(l) PROVE ClosedGrowth
  BY <1>18 DEF CrashIssuer, ClosedGrowth
<1>19. ASSUME NEW p \in Revokers, CrashRevoker(p) PROVE ClosedGrowth
  BY <1>19 DEF CrashRevoker, ClosedGrowth
<1>20. CASE UNCHANGED vars
  BY <1>20 DEF vars, ClosedGrowth
<1> QED
  BY <1>1, <1>2, <1>3, <1>4, <1>5, <1>6, <1>7, <1>8, <1>9, <1>10, <1>11, <1>12,
     <1>13, <1>14, <1>15, <1>16, <1>17, <1>18, <1>19, <1>20 DEF Next, IssuerStep,
     RevokeStep, RevokerStep, Actors

\* A scope is reported by the pass that closed it, or by the purge.
LEMMA CleanGrows ==
  ASSUME LeaseTypes, [Next]_vars
  PROVE  CleanGrowth
<1>1. ASSUME NEW l \in Leases, Reserve(l) PROVE CleanGrowth
  BY <1>1 DEF Reserve, CleanGrowth
<1>2. ASSUME NEW l \in Leases, CallProvider(l) PROVE CleanGrowth
  BY <1>2 DEF CallProvider, CleanGrowth
<1>3. ASSUME NEW l \in Leases, RecordHandle(l) PROVE CleanGrowth
  BY <1>3 DEF RecordHandle, CleanGrowth
<1>4. ASSUME NEW l \in Leases, RestoreHandle(l) PROVE CleanGrowth
  BY <1>4 DEF RestoreHandle, CleanGrowth
<1>5. ASSUME NEW l \in Leases, Compensate(l) PROVE CleanGrowth
  BY <1>5 DEF Compensate, CleanGrowth
<1>6. ASSUME NEW l \in Leases, Publish(l) PROVE CleanGrowth
  BY <1>6 DEF Publish, CleanGrowth
<1>7. ASSUME NEW d \in Redeemers, NEW l \in Leases, RedeemCheck(d, l) PROVE CleanGrowth
  BY <1>7 DEF RedeemCheck, CleanGrowth
<1>8. ASSUME NEW d \in Redeemers, RedeemCommit(d) PROVE CleanGrowth
  BY <1>8 DEF RedeemCommit, CleanGrowth
<1>9. ASSUME NEW p \in Revokers, NEW s \in Scopes, CloseScope(p, s) PROVE CleanGrowth
  BY <1>9 DEF CloseScope, CleanGrowth
<1>10. ASSUME NEW p \in Revokers, RetryPass(p) PROVE CleanGrowth
  BY <1>10 DEF RetryPass, CleanGrowth
<1>11. ASSUME NEW p \in Revokers, RevokeNext(p) PROVE CleanGrowth
  BY <1>11 DEF RevokeNext, CleanGrowth
<1>12. ASSUME NEW p \in Actors, RevokeAtProvider(p) PROVE CleanGrowth
  BY <1>12 DEF RevokeAtProvider, CleanGrowth
<1>13. ASSUME NEW p \in Actors, MarkRevoked(p) PROVE CleanGrowth
  BY <1>13 DEF MarkRevoked, CleanGrowth
<1>14. ASSUME NEW p \in Revokers, EndPass(p) PROVE CleanGrowth
  BY <1>14 DEF EndPass, CleanGrowth
<1>15. ASSUME Purge PROVE CleanGrowth
  BY <1>15 DEF Purge, CleanGrowth
<1>16. ASSUME NEW l \in Leases, LateLease(l) PROVE CleanGrowth
  BY <1>16 DEF LateLease, CleanGrowth
<1>17. ASSUME NEW l \in Leases, Expire(l) PROVE CleanGrowth
  BY <1>17 DEF Expire, CleanGrowth
<1>18. ASSUME NEW l \in Leases, CrashIssuer(l) PROVE CleanGrowth
  BY <1>18 DEF CrashIssuer, CleanGrowth
<1>19. ASSUME NEW p \in Revokers, CrashRevoker(p) PROVE CleanGrowth
  BY <1>19 DEF CrashRevoker, CleanGrowth
<1>20. CASE UNCHANGED vars
  BY <1>20 DEF vars, CleanGrowth
<1> QED
  BY <1>1, <1>2, <1>3, <1>4, <1>5, <1>6, <1>7, <1>8, <1>9, <1>10, <1>11, <1>12,
     <1>13, <1>14, <1>15, <1>16, <1>17, <1>18, <1>19, <1>20 DEF Next, IssuerStep,
     RevokeStep, RevokerStep, Actors

\* A pass takes its scope from CloseScope.
LEMMA PassScope ==
  ASSUME OtherTypes, [Next]_vars
  PROVE  PassScopes
<1>1. ASSUME NEW l \in Leases, Reserve(l) PROVE PassScopes
  BY <1>1 DEF Reserve, PassScopes, OtherTypes, NoPass
<1>2. ASSUME NEW l \in Leases, CallProvider(l) PROVE PassScopes
  BY <1>2 DEF CallProvider, PassScopes, OtherTypes, NoPass
<1>3. ASSUME NEW l \in Leases, RecordHandle(l) PROVE PassScopes
  BY <1>3 DEF RecordHandle, PassScopes, OtherTypes, NoPass
<1>4. ASSUME NEW l \in Leases, RestoreHandle(l) PROVE PassScopes
  BY <1>4 DEF RestoreHandle, PassScopes, OtherTypes, NoPass
<1>5. ASSUME NEW l \in Leases, Compensate(l) PROVE PassScopes
  BY <1>5 DEF Compensate, PassScopes, OtherTypes, NoPass
<1>6. ASSUME NEW l \in Leases, Publish(l) PROVE PassScopes
  BY <1>6 DEF Publish, PassScopes, OtherTypes, NoPass
<1>7. ASSUME NEW d \in Redeemers, NEW l \in Leases, RedeemCheck(d, l) PROVE PassScopes
  BY <1>7 DEF RedeemCheck, PassScopes, OtherTypes, NoPass
<1>8. ASSUME NEW d \in Redeemers, RedeemCommit(d) PROVE PassScopes
  BY <1>8 DEF RedeemCommit, PassScopes, OtherTypes, NoPass
<1>9. ASSUME NEW p \in Revokers, NEW s \in Scopes, CloseScope(p, s) PROVE PassScopes
  BY <1>9 DEF CloseScope, PassScopes, OtherTypes, NoPass
<1>10. ASSUME NEW p \in Revokers, RetryPass(p) PROVE PassScopes
  BY <1>10 DEF RetryPass, PassScopes, OtherTypes, NoPass
<1>11. ASSUME NEW p \in Revokers, RevokeNext(p) PROVE PassScopes
  BY <1>11 DEF RevokeNext, PassScopes, OtherTypes, NoPass
<1>12. ASSUME NEW p \in Actors, RevokeAtProvider(p) PROVE PassScopes
  BY <1>12 DEF RevokeAtProvider, PassScopes, OtherTypes, NoPass
<1>13. ASSUME NEW p \in Actors, MarkRevoked(p) PROVE PassScopes
  BY <1>13 DEF MarkRevoked, PassScopes, OtherTypes, NoPass
<1>14. ASSUME NEW p \in Revokers, EndPass(p) PROVE PassScopes
  BY <1>14 DEF EndPass, PassScopes, OtherTypes, NoPass
<1>15. ASSUME Purge PROVE PassScopes
  BY <1>15 DEF Purge, PassScopes, OtherTypes, NoPass
<1>16. ASSUME NEW l \in Leases, LateLease(l) PROVE PassScopes
  BY <1>16 DEF LateLease, PassScopes, OtherTypes, NoPass
<1>17. ASSUME NEW l \in Leases, Expire(l) PROVE PassScopes
  BY <1>17 DEF Expire, PassScopes, OtherTypes, NoPass
<1>18. ASSUME NEW l \in Leases, CrashIssuer(l) PROVE PassScopes
  BY <1>18 DEF CrashIssuer, PassScopes, OtherTypes, NoPass
<1>19. ASSUME NEW p \in Revokers, CrashRevoker(p) PROVE PassScopes
  BY <1>19 DEF CrashRevoker, PassScopes, OtherTypes, NoPass
<1>20. CASE UNCHANGED vars
  BY <1>20 DEF vars, PassScopes, OtherTypes, NoPass
<1> QED
  BY <1>1, <1>2, <1>3, <1>4, <1>5, <1>6, <1>7, <1>8, <1>9, <1>10, <1>11, <1>12,
     <1>13, <1>14, <1>15, <1>16, <1>17, <1>18, <1>19, <1>20 DEF Next, IssuerStep,
     RevokeStep, RevokerStep, Actors

\* Every row of a scope is asked for when the scope is closed, and stays so.
LEMMA ClosedStep ==
  ASSUME LeaseTypes, IssuerInv, RevokeInv, ClosedInv, [Next]_vars
  PROVE  ClosedInv'
<1> SUFFICES ASSUME NEW s \in closed', NEW k \in Leases, InScope(k, s), Open(k)'
             PROVE  row'[k].requested
  BY DEF ClosedInv
<1>1. Moves
  BY MoveStep
<1>2. CASE s \in closed
  <2>1. ~Reserved(k)
    BY <1>2 DEF Reserved, Admitted
  <2>2. Open(k) => row[k].requested
    BY <1>2 DEF ClosedInv
  <2> QED
    BY <1>1, <2>1, <2>2, ClosedStays
<1>3. CASE s \notin closed
  <2>1. (\E p \in Revokers : CloseScope(p, s)) \/ (Purge /\ s = Run)
    BY <1>3, ClosedGrows DEF ClosedGrowth
  <2>2. ASSUME NEW p \in Revokers, CloseScope(p, s) PROVE row'[k].requested
    <3>1. Open(k)
      BY <2>2 DEF CloseScope, Open, LeaseTypes, Row
    <3>2. Requested(k).requested
      BY DEF Requested, LeaseTypes, Row
    <3> QED
      BY <2>2, <3>1, <3>2 DEF CloseScope
  <2>3. CASE Purge
    <3>1. Open(k)
      BY <2>3 DEF Purge, Open, LeaseTypes, Row
    <3>2. Requested(k).requested
      BY DEF Requested, LeaseTypes, Row
    <3> QED
      BY <2>3, <3>1, <3>2 DEF Purge
  <2> QED
    BY <2>1, <2>2, <2>3
<1> QED
  BY <1>2, <1>3

\* No clean scope gets a credential again; a report that finds no open row misses
\* none, because LiveIsPending holds.
LEMMA CleanStep ==
  ASSUME LeaseTypes, OtherTypes, IssuerInv, RevokeInv, LiveIsPending, CleanInv,
         [Next]_vars
  PROVE  CleanInv'
<1>1. Moves
  BY MoveStep
<1>2. closed \subseteq closed'
  BY ClosedGrows DEF ClosedGrowth
<1>3. ASSUME NEW s \in clean, NEW k \in Leases, InScope(k, s)
      PROVE  ~MayLive(k)'
  <2>1. ~Reserved(k)
    BY <1>3 DEF Reserved, Admitted, CleanInv
  <2> QED
    BY <1>1, <1>3, <2>1, ClosedStays DEF CleanInv
<1>4. ASSUME NEW s \in clean', s \notin clean
      PROVE  s \in closed' /\ \A k \in Leases : InScope(k, s) => ~MayLive(k)'
  <2>1. Pending(s) = {} => \A k \in Leases : InScope(k, s) => ~MayLive(k)
    BY DEF Pending, LiveIsPending
  <2>2. \/ \E p \in Revokers : EndPass(p) /\ s = pass[p].scope /\ s # None /\ Pending(s) = {}
        \/ Purge /\ s = Run /\ Pending(Run) = {}
    BY <1>4, CleanGrows DEF CleanGrowth
  <2>3. ASSUME NEW p \in Revokers, EndPass(p), s = pass[p].scope, s # None
        PROVE  s \in closed' /\ UNCHANGED <<provider, issuer>>
    BY <2>3 DEF EndPass, CleanInv
  <2>4. ASSUME Purge, s = Run PROVE s \in closed' /\ UNCHANGED <<provider, issuer>>
    BY <2>4 DEF Purge
  <2>5. Pending(s) = {} /\ s \in closed' /\ UNCHANGED <<provider, issuer>>
    BY <2>2, <2>3, <2>4
  <2> QED
    BY <2>1, <2>5 DEF MayLive
<1>5. ASSUME NEW p \in Revokers, pass'[p].scope # None
      PROVE  pass'[p].scope \in closed'
  <2>1. pass'[p].scope = pass[p].scope \/ \E s \in Scopes : CloseScope(p, s)
    BY <1>5, PassScope DEF PassScopes
  <2>2. ASSUME NEW s \in Scopes, CloseScope(p, s) PROVE pass'[p].scope \in closed'
    BY <2>2 DEF CloseScope, OtherTypes
  <2> QED
    BY <1>2, <1>5, <2>1, <2>2 DEF CleanInv
<1> QED
  BY <1>2, <1>3, <1>4, <1>5 DEF CleanInv

\* Every step keeps the invariant.
LEMMA NextIInv == IInv /\ [Next]_vars => IInv'
<1> SUFFICES ASSUME IInv, [Next]_vars PROVE IInv'
  OBVIOUS
<1>1. LeaseTypes /\ OtherTypes
  BY TypeParts DEF IInv
<1>2. Moves
  BY <1>1, MoveStep DEF IInv
<1>3. TypeOK'
  <2>1. LeaseTypes'
    BY <1>1, LeaseTypeStep DEF IInv
  <2>2. OtherTypes'
    BY <1>1, OtherTypeStep
  <2> QED
    BY <2>1, <2>2 DEF TypeOK, LeaseTypes, OtherTypes, Row
<1>4. IssuerInv' /\ RevokeInv' /\ LiveIsPending'
  BY <1>1, <1>2, IssuerInvStep, RevokeInvStep, LiveStep DEF IInv
<1>5. ClosedInv' /\ CleanInv'
  BY <1>1, ClosedStep, CleanStep DEF IInv
<1> QED
  BY <1>3, <1>4, <1>5 DEF IInv

\* The invariant holds throughout.
LEMMA Invariance == Spec => []IInv
BY InitIInv, NextIInv, PTL DEF Spec

-----------------------------------------------------------------------------
(* Results *)

\* The broker's rows, fences and calls keep their types; in particular no row
\* counts two redemptions.
THEOREM TypeCorrect == Spec => []TypeOK
<1>1. IInv => TypeOK
  BY DEF IInv
<1> QED
  BY <1>1, Invariance, PTL

\* issueDynamic and Revoke: whatever dies or is lost, everything that may still
\* be live has a row that is not revoked.
THEOREM NothingOutOfSight == Spec => []LiveIsPending
<1>1. IInv => LiveIsPending
  BY DEF IInv
<1> QED
  BY <1>1, Invariance, PTL

\* RevokeRunLeases and PurgeCredentials: a scope reported clean has no credential
\* and never gets one.
THEOREM CleanForever == Spec => []CleanIsFinal
<1>1. IInv => CleanIsFinal
  BY DEF IInv, CleanIsFinal, CleanInv
<1> QED
  BY <1>1, Invariance, PTL

RedeemsInScope ==
  \A l \in Leases :
    row'[l].redeemed > row[l].redeemed =>
      row[l].redeemed = 0 /\ \A s \in closed : ~InScope(l, s)

\* Only RedeemCommit counts a redemption, and the row of a closed scope is asked for.
LEMMA RedeemStep ==
  ASSUME LeaseTypes, OtherTypes, ClosedInv, [Next]_vars
  PROVE  RedeemsInScope
<1>1. ASSUME NEW l \in Leases, Reserve(l) PROVE RedeemsInScope
  BY <1>1 DEF Reserve, RedeemsInScope, LeaseTypes, Row, NoRow
<1>2. ASSUME NEW l \in Leases, CallProvider(l) PROVE RedeemsInScope
  BY <1>2 DEF CallProvider, RedeemsInScope, LeaseTypes, Row
<1>3. ASSUME NEW l \in Leases, RecordHandle(l) PROVE RedeemsInScope
  <2>1. row' = row \/ row' = [row EXCEPT ![l].handle = TRUE]
    BY <1>3 DEF RecordHandle
  <2>2. \A k \in Leases : row'[k].redeemed = row[k].redeemed
    BY <2>1 DEF LeaseTypes, Row
  <2> QED
    BY <2>2 DEF RedeemsInScope, LeaseTypes, Row
<1>4. ASSUME NEW l \in Leases, RestoreHandle(l) PROVE RedeemsInScope
  <2>1. row'[l].redeemed \in {0, row[l].redeemed}
    BY <1>4, RestoredRow DEF RestoreHandle, LeaseTypes
  <2>2. \A k \in Leases : k # l => row'[k].redeemed = row[k].redeemed
    BY <1>4 DEF RestoreHandle, LeaseTypes
  <2>3. \A k \in Leases : row[k].redeemed \in 0 .. 1
    BY DEF LeaseTypes, Row
  <2> QED
    BY <2>1, <2>2, <2>3 DEF RedeemsInScope
<1>5. ASSUME NEW l \in Leases, Compensate(l) PROVE RedeemsInScope
  <2>1. \A k \in Leases : row'[k].redeemed = row[k].redeemed
    BY <1>5 DEF Compensate, LeaseTypes, Row
  <2> QED
    BY <2>1 DEF RedeemsInScope, LeaseTypes, Row
<1>6. ASSUME NEW l \in Leases, Publish(l) PROVE RedeemsInScope
  <2>1. CASE RequestRevocation(l, l)
    BY <2>1 DEF RequestRevocation, Requested, RedeemsInScope, LeaseTypes, Row
  <2>2. CASE row' = [row EXCEPT ![l].ready = TRUE]
    BY <2>2 DEF RedeemsInScope, LeaseTypes, Row
  <2> QED
    BY <1>6, <2>1, <2>2 DEF Publish
<1>7. ASSUME NEW d \in Redeemers, NEW l \in Leases, RedeemCheck(d, l)
      PROVE  RedeemsInScope
  BY <1>7 DEF RedeemCheck, RedeemsInScope, LeaseTypes, Row
<1>8. ASSUME NEW d \in Redeemers, RedeemCommit(d) PROVE RedeemsInScope
  <2>1. CASE Redeemable(redeem[d])
    <3>1. redeem[d] \in Leases
      BY <1>8 DEF RedeemCommit, OtherTypes
    <3>2. row' = [row EXCEPT ![redeem[d]].redeemed = @ + 1]
      BY <1>8, <2>1 DEF RedeemCommit
    <3>3. \A s \in closed : ~InScope(redeem[d], s)
      BY <2>1, <3>1 DEF Redeemable, ClosedInv
    <3> QED
      BY <2>1, <3>1, <3>2, <3>3 DEF RedeemsInScope, Redeemable, LeaseTypes, Row
  <2>2. CASE ~Redeemable(redeem[d])
    BY <1>8, <2>2 DEF RedeemCommit, RedeemsInScope, LeaseTypes, Row
  <2> QED
    BY <2>1, <2>2
<1>9. ASSUME NEW p \in Revokers, NEW s \in Scopes, CloseScope(p, s) PROVE RedeemsInScope
  <2>1. \A k \in Leases : Requested(k).redeemed = row[k].redeemed
    BY DEF Requested, LeaseTypes, Row
  <2>2. \A k \in Leases : row'[k].redeemed = row[k].redeemed
    BY <1>9, <2>1 DEF CloseScope
  <2> QED
    BY <2>2 DEF RedeemsInScope, LeaseTypes, Row
<1>10. ASSUME NEW p \in Revokers, RetryPass(p) PROVE RedeemsInScope
  BY <1>10 DEF RetryPass, RedeemsInScope, LeaseTypes, Row
<1>11. ASSUME NEW p \in Revokers, RevokeNext(p) PROVE RedeemsInScope
  BY <1>11 DEF RevokeNext, RequestRevocation, Requested, RedeemsInScope, LeaseTypes, Row
<1>12. ASSUME NEW p \in Actors, RevokeAtProvider(p) PROVE RedeemsInScope
  BY <1>12 DEF RevokeAtProvider, RedeemsInScope, LeaseTypes, Row
<1>13. ASSUME NEW p \in Actors, MarkRevoked(p) PROVE RedeemsInScope
  BY <1>13 DEF MarkRevoked, RedeemsInScope, LeaseTypes, Row
<1>14. ASSUME NEW p \in Revokers, EndPass(p) PROVE RedeemsInScope
  BY <1>14 DEF EndPass, RedeemsInScope, LeaseTypes, Row
<1>15. ASSUME Purge PROVE RedeemsInScope
  <2>1. \A k \in Leases : row'[k].redeemed = row[k].redeemed
    BY <1>15 DEF Purge, LeaseTypes, Row, Requested
  <2> QED
    BY <2>1 DEF RedeemsInScope, LeaseTypes, Row
<1>16. ASSUME NEW l \in Leases, LateLease(l) PROVE RedeemsInScope
  BY <1>16 DEF LateLease, RedeemsInScope, LeaseTypes, Row
<1>17. ASSUME NEW l \in Leases, Expire(l) PROVE RedeemsInScope
  BY <1>17 DEF Expire, RedeemsInScope, LeaseTypes, Row
<1>18. ASSUME NEW l \in Leases, CrashIssuer(l) PROVE RedeemsInScope
  BY <1>18 DEF CrashIssuer, RedeemsInScope, LeaseTypes, Row
<1>19. ASSUME NEW p \in Revokers, CrashRevoker(p) PROVE RedeemsInScope
  BY <1>19 DEF CrashRevoker, RedeemsInScope, LeaseTypes, Row
<1>20. CASE UNCHANGED vars
  BY <1>20 DEF vars, RedeemsInScope, LeaseTypes, Row
<1> QED
  BY <1>1, <1>2, <1>3, <1>4, <1>5, <1>6, <1>7, <1>8, <1>9, <1>10, <1>11, <1>12,
     <1>13, <1>14, <1>15, <1>16, <1>17, <1>18, <1>19, <1>20 DEF Next, IssuerStep,
     RevokeStep, RevokerStep, Actors

\* Redeem: a value is handed out once, and only while its scope is open, however
\* long the redemption took between its check and its update.
THEOREM RedemptionsInScope == Spec => RedeemedInScope
<1>1. IInv /\ [Next]_vars => RedeemsInScope
  BY TypeParts, RedeemStep DEF IInv
<1> QED
  BY <1>1, Invariance, PTL DEF Spec, RedeemedInScope, RedeemsInScope

-----------------------------------------------------------------------------
(***************************************************************************)
(* The broker implements CredentialFence.  A reservation is an admission;  *)
(* the moment a credential can no longer live, or come to life, is an end, *)
(* whichever actor brings it about and whatever its row still says; a      *)
(* scope that is closed is closed; and a clean report, which reads rows    *)
(* only, is a report because LiveIsPending holds.  Nothing else shows.     *)
(***************************************************************************)

lotOf(k) ==
  IF issuer[k] = "idle" THEN "none" ELSE IF MayLive(k) THEN "outstanding" ELSE "ended"

FenceMoves == [Fence!Next]_Fence!fenceVars

\* What becomes of a lease at the fence: it is admitted, it ends, or nothing.
LEMMA LotStep ==
  ASSUME LeaseTypes, IssuerInv, Moves, NEW k \in Leases
  PROVE  \/ lotOf(k)' = lotOf(k)
         \/ Admitted(k) /\ lotOf(k) = "none" /\ lotOf(k)' = "outstanding"
         \/ lotOf(k) = "outstanding" /\ lotOf(k)' = "ended"
<1>1. Move(k) /\ IssuerInv!(k)
  BY DEF Moves, IssuerInv
<1> QED
  BY <1>1 DEF Move, Reserved, Called, Named, GoesOn, Dies, Revoked, Purged, ArrivesLate,
     RowAsked, lotOf, MayLive, LeaseTypes, Row, NoRow

\* Admission and end of one lease, and steps of one scope, point by point.
LEMMA FenceAdmits ==
  ASSUME NEW l \in Leases, Admitted(l), lotOf(l) = "none", lotOf(l)' = "outstanding",
         \A k \in Leases : k # l => lotOf(k)' = lotOf(k),
         UNCHANGED <<closed, clean>>
  PROVE  Fence!Admit(l)
<1>1. \A s \in closed : ~InScope(l, s)
  BY DEF Admitted
<1>2. issuer[l] = "idle" /\ issuer'[l] # "idle" /\ MayLive(l)'
  BY DEF lotOf
<1> QED
  BY <1>1, <1>2 DEF Fence!Admit, lotOf

\* The end of a lease.
LEMMA FenceEnds ==
  ASSUME NEW l \in Leases, lotOf(l) = "outstanding", lotOf(l)' = "ended",
         \A k \in Leases : k # l => lotOf(k)' = lotOf(k),
         UNCHANGED <<closed, clean>>
  PROVE  Fence!End(l)
BY DEF Fence!End, lotOf, MayLive

\* A fence.
LEMMA FenceCloses ==
  ASSUME NEW s, closed' = closed \cup {s}, clean' = clean, UNCHANGED <<provider, issuer>>
  PROVE  Fence!Close(s)
BY DEF Fence!Close, MayLive

\* A report of a scope without pending rows: it misses no credential.
LEMMA FenceReports ==
  ASSUME LiveIsPending, NEW s, closed' = closed \cup {s}, clean' = clean \cup {s},
         Pending(s) = {}, UNCHANGED <<provider, issuer>>
  PROVE  Fence!Report(s)
<1>1. \A k \in Leases : InScope(k, s) => ~MayLive(k)
  BY DEF Pending, LiveIsPending
<1> QED
  BY <1>1 DEF Fence!Report, MayLive

\* A step that does not show.
LEMMA FenceStutters ==
  ASSUME UNCHANGED <<closed, clean>>, \A k \in Leases : lotOf(k)' = lotOf(k)
  PROVE  FenceMoves
BY DEF FenceMoves, Fence!fenceVars, lotOf, MayLive

\* Steps that leave issuances and the provider alone are such steps.
LEMMA FenceIdles ==
  ASSUME UNCHANGED <<closed, clean, provider, issuer>>
  PROVE  FenceMoves
BY FenceStutters DEF lotOf, MayLive

\* A step of one lease admits it, ends it, or does not show.
LEMMA FenceOfLease ==
  ASSUME LeaseTypes, IssuerInv, Moves, UNCHANGED <<closed, clean>>, NEW l \in Leases,
         \A k \in Leases : k # l => issuer'[k] = issuer[k] /\ provider'[k] = provider[k]
  PROVE  FenceMoves
<1>1. \A k \in Leases : k # l => lotOf(k)' = lotOf(k)
  BY DEF lotOf, MayLive
<1>2. CASE lotOf(l)' = lotOf(l)
  BY <1>1, <1>2, FenceStutters
<1>3. CASE Admitted(l) /\ lotOf(l) = "none" /\ lotOf(l)' = "outstanding"
  BY <1>1, <1>3, FenceAdmits DEF FenceMoves, Fence!Next
<1>4. CASE lotOf(l) = "outstanding" /\ lotOf(l)' = "ended"
  BY <1>1, <1>4, FenceEnds DEF FenceMoves, Fence!Next
<1> QED
  BY <1>2, <1>3, <1>4, LotStep

\* Every step of the broker is a step of the fence or does not show there.
LEMMA FenceStep ==
  ASSUME LeaseTypes, OtherTypes, IssuerInv, RevokeInv, LiveIsPending, CleanInv, Moves,
         [Next]_vars
  PROVE  FenceMoves
<1>1. ASSUME NEW l \in Leases, Reserve(l) PROVE FenceMoves
  BY <1>1, FenceOfLease DEF Reserve, LeaseTypes
<1>2. ASSUME NEW l \in Leases, CallProvider(l) PROVE FenceMoves
  BY <1>2, FenceOfLease DEF CallProvider, LeaseTypes
<1>3. ASSUME NEW l \in Leases, RecordHandle(l) PROVE FenceMoves
  BY <1>3, FenceOfLease DEF RecordHandle, LeaseTypes
<1>4. ASSUME NEW l \in Leases, RestoreHandle(l) PROVE FenceMoves
  BY <1>4, FenceOfLease DEF RestoreHandle, LeaseTypes
<1>5. ASSUME NEW l \in Leases, Compensate(l) PROVE FenceMoves
  BY <1>5, FenceOfLease DEF Compensate, LeaseTypes
<1>6. ASSUME NEW l \in Leases, Publish(l) PROVE FenceMoves
  BY <1>6, FenceOfLease DEF Publish, LeaseTypes
<1>7. ASSUME NEW d \in Redeemers, NEW l \in Leases, RedeemCheck(d, l) PROVE FenceMoves
  BY <1>7, FenceIdles DEF RedeemCheck
<1>8. ASSUME NEW d \in Redeemers, RedeemCommit(d) PROVE FenceMoves
  BY <1>8, FenceIdles DEF RedeemCommit
<1>9. ASSUME NEW p \in Revokers, NEW s \in Scopes, CloseScope(p, s) PROVE FenceMoves
  BY <1>9, FenceCloses DEF CloseScope, FenceMoves, Fence!Next
<1>10. ASSUME NEW p \in Revokers, RetryPass(p) PROVE FenceMoves
  BY <1>10, FenceIdles DEF RetryPass
<1>11. ASSUME NEW p \in Revokers, RevokeNext(p) PROVE FenceMoves
  BY <1>11, FenceIdles DEF RevokeNext
<1>12. ASSUME NEW p \in Actors, RevokeAtProvider(p) PROVE FenceMoves
  <2>1. PICK l \in Leases : l = revoke[p].lease
    BY <1>12 DEF RevokeAtProvider, RevokeInv
  <2> QED
    BY <1>12, <2>1, FenceOfLease DEF RevokeAtProvider, LeaseTypes
<1>13. ASSUME NEW p \in Actors, MarkRevoked(p) PROVE FenceMoves
  BY <1>13, FenceIdles DEF MarkRevoked
<1>14. ASSUME NEW p \in Revokers, EndPass(p) PROVE FenceMoves
  <2>1. CASE clean' = clean
    BY <1>14, <2>1, FenceIdles DEF EndPass
  <2>2. CASE pass[p].scope # None /\ Pending(pass[p].scope) = {}
    <3>1. pass[p].scope \in Scopes /\ closed' = closed \cup {pass[p].scope}
      BY <1>14, <2>2 DEF EndPass, OtherTypes, CleanInv
    <3>2. Fence!Report(pass[p].scope)
      BY <1>14, <2>2, <3>1, FenceReports DEF EndPass
    <3> QED
      BY <3>1, <3>2 DEF FenceMoves, Fence!Next
  <2> QED
    BY <1>14, <2>1, <2>2 DEF EndPass
<1>15. ASSUME Purge PROVE FenceMoves
  <2>1. Fence!Close(Run) \/ Fence!Report(Run)
    BY <1>15, FenceCloses, FenceReports DEF Purge
  <2> QED
    BY <2>1 DEF FenceMoves, Fence!Next, Scopes
<1>16. ASSUME NEW l \in Leases, LateLease(l) PROVE FenceMoves
  BY <1>16, FenceOfLease DEF LateLease, LeaseTypes
<1>17. ASSUME NEW l \in Leases, Expire(l) PROVE FenceMoves
  BY <1>17, FenceOfLease DEF Expire, LeaseTypes
<1>18. ASSUME NEW l \in Leases, CrashIssuer(l) PROVE FenceMoves
  BY <1>18, FenceOfLease DEF CrashIssuer, LeaseTypes
<1>19. ASSUME NEW p \in Revokers, CrashRevoker(p) PROVE FenceMoves
  BY <1>19, FenceIdles DEF CrashRevoker
<1>20. CASE UNCHANGED vars
  BY <1>20, FenceIdles DEF vars
<1> QED
  BY <1>1, <1>2, <1>3, <1>4, <1>5, <1>6, <1>7, <1>8, <1>9, <1>10, <1>11, <1>12,
     <1>13, <1>14, <1>15, <1>16, <1>17, <1>18, <1>19, <1>20 DEF Next, IssuerStep,
     RevokeStep, RevokerStep, Actors

\* The broker implements the fence that the CI dispatcher and deployments rely on
\* (fence.go, lockScope), although its reports look at rows and rows may be purged
\* and come back.
THEOREM BrokerImplementsFence == Spec => ImplementsFence
<1>1. Init => Fence!Init
  BY DEF Init, Fence!Init
<1>2. IInv /\ [Next]_vars => [Fence!Next]_Fence!fenceVars
  BY TypeParts, MoveStep, FenceStep DEF IInv, FenceMoves
<1> QED
  BY <1>1, <1>2, Invariance, PTL DEF Spec, ImplementsFence, Fence!Spec
=============================================================================
