--------------------------- MODULE CredentialFence ---------------------------
(***************************************************************************)
(* What the secret broker promises those who issue and revoke through it   *)
(* (internal/secrets, fence.go): a closed scope admits nothing, and a      *)
(* scope reported clean has nothing outstanding, now or ever.  Outstanding *)
(* is everything that may be, or may become, a usable credential: also an  *)
(* issuance whose answer was lost.                                         *)
(***************************************************************************)
CONSTANTS Leases, Scopes, InScope(_, _)

VARIABLES
    closed,  \* scopes that are fenced
    lot,     \* what became of each lease: none, outstanding, ended
    clean    \* scopes that were reported fenced with nothing pending

fenceVars == <<closed, lot, clean>>

Init ==
    /\ closed = {}
    /\ lot = [l \in Leases |-> "none"]
    /\ clean = {}

Admit(l) ==
    /\ lot[l] = "none"
    /\ \A s \in closed : ~InScope(l, s)
    /\ lot' = [lot EXCEPT ![l] = "outstanding"]
    /\ UNCHANGED <<closed, clean>>

End(l) ==
    /\ lot[l] = "outstanding"
    /\ lot' = [lot EXCEPT ![l] = "ended"]
    /\ UNCHANGED <<closed, clean>>

Close(s) ==
    /\ closed' = closed \cup {s}
    /\ UNCHANGED <<lot, clean>>

Report(s) ==
    /\ \A l \in Leases : InScope(l, s) => lot[l] # "outstanding"
    /\ closed' = closed \cup {s}
    /\ clean' = clean \cup {s}
    /\ UNCHANGED lot

Next ==
    \/ \E l \in Leases : Admit(l) \/ End(l)
    \/ \E s \in Scopes : Close(s) \/ Report(s)

Spec == Init /\ [][Next]_fenceVars
=============================================================================
