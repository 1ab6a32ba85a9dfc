----------------------------- MODULE MergePath -----------------------------
(***************************************************************************)
(* One Engineering Run on its way into its target branch: independent      *)
(* reviews (internal/reviews), gate evaluations and human approvals        *)
(* (internal/gates, internal/approvals), and the Git reference transaction *)
(* that lands it (internal/gitops).  Callers are RPC handlers and          *)
(* auto-merge passes; they interleave with pushes to the source branch, to *)
(* the target branch, and with each other.                                 *)
(*                                                                         *)
(* Source commits are numbered along the branch, commit n containing every *)
(* smaller one; the target branch is numbered by how often it has moved.   *)
(* One required gate stands for the fold over all required gates, and one  *)
(* governed action for the fold over all actions a person must approve.    *)
(***************************************************************************)
EXTENDS Naturals, Sequences

CONSTANTS
  Callers,       \* concurrent RPC handlers
  People,        \* accounts that may review or decide
  Author,        \* the author of the run
  Commits,       \* 1..n, commits of the source branch
  Governed,      \* the commits whose diff needs a person's approval
  Large,         \* the commits above the auto-merge file cap
  Resets,        \* may the source branch be forced back to an older commit?
  MaxCalls,      \* bound on the handlers that are ever started
  MaxTarget      \* bound on the moves of the target branch: no merge begins there

ASSUME MergeAssumption ==
  /\ Author \in People
  /\ Commits \subseteq Nat /\ 1 \in Commits
  /\ Governed \subseteq Commits /\ Large \subseteq Commits
  /\ Resets \in BOOLEAN
  /\ MaxTarget \in Nat \ {0} /\ MaxCalls \in Nat

VARIABLES
  fork,      \* does the source branch live in another repository?
  head,      \* the source branch
  target,    \* the target branch
  runState,  \* reviews.runs.state
  review,    \* reviews.run_reviews, one row per reviewer
  eval,      \* gates.gate_evaluations by source and policy revision
  approval,  \* approvals.approval_requests by head
  caller,    \* the progress of each handler
  log,       \* the merges of this run that moved the target branch
  passed,    \* history: revision pairs whose gates were ever recorded "pass"
  endorsed,  \* history: commits somebody other than the author approved
  calls      \* handlers started so far

vars == <<fork, head, target, runState, review, eval, approval, caller, log,
          passed, endorsed, calls>>
evidence == <<review, eval, approval, passed, endorsed>>

Targets == 0..MaxTarget
Pairs == Commits \X (0..MaxTarget - 1)

NoReview == [verdict |-> "none", sha |-> 0]
NoRequest == [state |-> "none", by |-> "nobody"]
Idle == [pc |-> "idle", src |-> 0, tgt |-> 0, seen |-> "none"]

Init ==
  /\ fork \in BOOLEAN
  /\ head = 1
  /\ target = 0
  /\ runState = "open"
  /\ review = [p \in People |-> NoReview]
  /\ eval = [k \in Pairs |-> "none"]
  /\ approval = [c \in Commits |-> NoRequest]
  /\ caller = [c \in Callers |-> Idle]
  /\ log = <<>>
  /\ passed = {}
  /\ endorsed = {}
  /\ calls = 0

(***************************************************************************)
(* Steps of a handler.                                                     *)
(***************************************************************************)
At(c, pc) == caller[c].pc = pc

\* Go on with the pinned revisions, or with nothing read so far.
GoTo(c, pc) == caller' = [caller EXCEPT ![c].pc = pc]
Enter(c, pc) == caller' = [caller EXCEPT ![c] = [Idle EXCEPT !.pc = pc]]

Return(c) == caller' = [caller EXCEPT ![c] = Idle]

(***************************************************************************)
(* Independent review.                                                     *)
(***************************************************************************)
\* SubmitReview and AgentReviewer bind the verdict to the head they resolve
\* before the verdict is written.
StartReview(c) ==
  /\ At(c, "idle")
  /\ target < MaxTarget
  /\ calls < MaxCalls
  /\ calls' = calls + 1
  /\ caller' = [caller EXCEPT ![c] = [Idle EXCEPT !.pc = "submit", !.src = head]]
  /\ UNCHANGED <<fork, head, target, runState, log>>
  /\ UNCHANGED evidence

\* A "comment" is no approval, like a request for changes.
Verdicts == {"approve", "request_changes"}

MayReview(p) == p # Author /\ runState = "open"

\* A person's review is followed by an auto-merge pass; an agent's is not.
SubmitReviewAt(c, p) ==
  /\ At(c, "submit")
  /\ \/ /\ MayReview(p)
        /\ \E v \in Verdicts :
             /\ review' = [review EXCEPT ![p] =
                             [verdict |-> v, sha |-> caller[c].src]]
             /\ endorsed' = IF v = "approve" /\ p # Author
                            THEN endorsed \cup {caller[c].src} ELSE endorsed
        /\ (Enter(c, "consider") \/ Return(c))
     \/ /\ ~MayReview(p)
        /\ Return(c)
        /\ UNCHANGED <<review, endorsed>>
  /\ UNCHANGED <<calls, fork, head, target, runState, log, eval, approval, passed>>

\* AutoMerger.Consider measures the change between the two branches as they
\* are now, then takes the same path as MergeRun.
Consider(c) ==
  /\ At(c, "consider")
  /\ IF head \in Large THEN Return(c) ELSE GoTo(c, "evaluate")
  /\ UNCHANGED <<calls, fork, head, target, runState, log>>
  /\ UNCHANGED evidence

MergeRun(c) ==
  /\ At(c, "idle")
  /\ target < MaxTarget
  /\ calls < MaxCalls
  /\ calls' = calls + 1
  /\ GoTo(c, "evaluate")
  /\ UNCHANGED <<fork, head, target, runState, log>>
  /\ UNCHANGED evidence

(***************************************************************************)
(* Gates: Controller.Evaluate.                                             *)
(***************************************************************************)
\* Mutant: evidence of the same source under any policy revision counts.
LatestForSource(s, t) ==
  IF \E u \in 0..MaxTarget - 1 : eval[<<s, u>>] = "pass" THEN "pass" ELSE eval[<<s, t>>]

LatestForSHA(s, t) == eval[<<s, t>>]

\* The pair is known: go on to its approvals and gates.
Resolved(c, t) ==
  caller' = [caller EXCEPT ![c] =
               [pc |-> IF head \in Governed THEN "raise" ELSE "gates",
                src |-> head, tgt |-> t, seen |-> LatestForSHA(head, t)]]

\* One listing shows both branches of a repository.  A fork is listed after the
\* target repository, and either branch may move in between.
ResolveForRun(c) ==
  /\ \/ /\ At(c, "evaluate")
        /\ target < MaxTarget
        /\ IF fork
           THEN caller' = [caller EXCEPT ![c] =
                             [pc |-> "resolve", src |-> 0, tgt |-> target, seen |-> "none"]]
           ELSE Resolved(c, target)
     \/ /\ At(c, "resolve")
        /\ Resolved(c, caller[c].tgt)
  /\ UNCHANGED <<calls, fork, head, target, runState, log>>
  /\ UNCHANGED evidence

\* approvals.Store.Raise: insert the request of this head unless it exists,
\* and supersede every other head's request that is still pending.
Raise(s) ==
  [c \in Commits |->
     IF c = s
     THEN IF approval[c].state = "none"
          THEN [NoRequest EXCEPT !.state = "pending"] ELSE approval[c]
     ELSE IF approval[c].state = "pending"
          THEN [approval[c] EXCEPT !.state = "superseded"] ELSE approval[c]]

RaiseApproval(c) ==
  /\ At(c, "raise")
  /\ approval' = Raise(caller[c].src)
  /\ GoTo(c, "gates")
  /\ UNCHANGED <<calls, fork, head, target, runState, log, review, eval, passed,
                 endorsed>>

\* A gate already judged at this pair is not run again.  A gate that cannot
\* run fails the call.
RunGates(c) ==
  /\ At(c, "gates")
  /\ \/ /\ caller[c].seen # "none"
        /\ Enter(c, "open")
        /\ UNCHANGED <<eval, passed>>
     \/ /\ caller[c].seen = "none"
        /\ \E s \in {"pass", "fail"} :
             LET k == <<caller[c].src, caller[c].tgt>>
             IN  /\ eval' = [eval EXCEPT ![k] = s]
                 /\ passed' = IF s = "pass" THEN passed \cup {k} ELSE passed
        /\ Enter(c, "open")
     \/ /\ caller[c].seen = "none"
        /\ Return(c)
        /\ UNCHANGED <<eval, passed>>
  /\ UNCHANGED <<calls, fork, head, target, runState, log, review, approval, endorsed>>

(***************************************************************************)
(* Merger.Merge.                                                           *)
(***************************************************************************)
CheckOpen(c) ==
  /\ At(c, "open")
  /\ IF runState = "open" THEN Enter(c, "source") ELSE Return(c)
  /\ UNCHANGED <<calls, fork, head, target, runState, log>>
  /\ UNCHANGED evidence

PinSource(c) ==
  /\ At(c, "source")
  /\ caller' = [caller EXCEPT ![c].pc = "target", ![c].src = head]
  /\ UNCHANGED <<calls, fork, head, target, runState, log>>
  /\ UNCHANGED evidence

PinTarget(c) ==
  /\ At(c, "target")
  /\ target < MaxTarget
  /\ caller' = [caller EXCEPT ![c].pc = "compare", ![c].tgt = target]
  /\ UNCHANGED <<calls, fork, head, target, runState, log>>
  /\ UNCHANGED evidence

\* The two looks at a pinned pair, in the order of the listings or fetches; only
\* for branches of one repository are they a single look.
AtTarget(c) == target = caller[c].tgt
AtSource(c) == head = caller[c].src

\* Controller.MayMergePinned refuses a pair that has moved, then reads the
\* evidence recorded for exactly that pair.
MayMergePinned(c) ==
  /\ \/ /\ At(c, "compare") /\ fork
        /\ IF AtTarget(c) THEN GoTo(c, "recheck") ELSE Return(c)
     \/ /\ (At(c, "compare") /\ ~fork) \/ At(c, "recheck")
        /\ IF AtSource(c) /\ (At(c, "recheck") \/ AtTarget(c))
           THEN caller' = [caller EXCEPT ![c].pc = "judge",
                             ![c].seen = LatestForSHA(caller[c].src, caller[c].tgt)]
           ELSE Return(c)
  /\ UNCHANGED <<calls, fork, head, target, runState, log>>
  /\ UNCHANGED evidence

\* What a governed change needs of the request the controller just raised.
Decided(row) == row.state = "approved" /\ row.by # Author

MayMergeResolved(c) ==
  /\ At(c, "judge")
  /\ LET s == caller[c].src
     IN  /\ approval' = IF s \in Governed THEN Raise(s) ELSE approval
         /\ IF caller[c].seen = "pass" /\ (s \in Governed => Decided(approval'[s]))
            THEN caller' = [caller EXCEPT ![c].pc = "approval", ![c].seen = "none"]
            ELSE Return(c)
  /\ UNCHANGED <<calls, fork, head, target, runState, log, review, eval, passed,
                 endorsed>>

\* Mutant: a verdict counts whatever revision it was given for.
HasSomeApproval(s) ==
  \E p \in People \ {Author} : review[p].verdict = "approve"

HasIndependentApproval(s) ==
  \E p \in People \ {Author} : review[p] = [verdict |-> "approve", sha |-> s]

CheckApproval(c) ==
  /\ At(c, "approval")
  /\ IF HasIndependentApproval(caller[c].src) THEN GoTo(c, "clone") ELSE Return(c)
  /\ UNCHANGED <<calls, fork, head, target, runState, log>>
  /\ UNCHANGED evidence

(***************************************************************************)
(* Git: mergeRefs builds the merge in a throwaway clone and then moves the *)
(* target in one reference transaction.                                    *)
(***************************************************************************)
\* The clone shows the target, and the source unless that is fetched from a fork.
\* A conflict, or a fast-forward that is not one, is refused here.
MergeInClone(c) ==
  /\ \/ At(c, "clone") /\ fork /\ AtTarget(c) /\ GoTo(c, "fetch")
     \/ At(c, "clone") /\ ~fork /\ AtTarget(c) /\ AtSource(c) /\ GoTo(c, "commit")
     \/ At(c, "fetch") /\ AtSource(c) /\ GoTo(c, "commit")
     \/ (At(c, "clone") \/ At(c, "fetch")) /\ Return(c)
  /\ UNCHANGED <<calls, fork, head, target, runState, log>>
  /\ UNCHANGED evidence

\* Mutant: the transaction does not name the target it expects.
VerifiedSource(c) == fork \/ AtSource(c)

\* A fork's branch is no reference of the target repository, so only a branch
\* of the same repository is verified inside the transaction.
Verified(c) == (fork \/ AtSource(c)) /\ AtTarget(c)

\* A commit the target already contains may be merged again without moving it.
Contained(s) == \E i \in DOMAIN log : log[i].src >= s

UpdateRefs(c) ==
  /\ At(c, "commit")
  /\ \/ /\ Verified(c)
        /\ target < MaxTarget
        /\ target' = target + 1
        /\ log' = Append(log, [src |-> caller[c].src, tgt |-> target])
        /\ Enter(c, "state")
     \/ /\ Verified(c)
        /\ Contained(caller[c].src)
        /\ Enter(c, "state")
        /\ UNCHANGED <<target, log>>
     \/ /\ ~Verified(c)
        /\ Return(c)
        /\ UNCHANGED <<target, log>>
  /\ UNCHANGED <<calls, fork, head, runState>>
  /\ UNCHANGED evidence

SetRunState(c) ==
  /\ At(c, "state")
  /\ runState' = "merged"
  /\ Return(c)
  /\ UNCHANGED <<calls, fork, head, target, log>>
  /\ UNCHANGED evidence

\* The handler dies, or its caller gives up on it: whatever it had written
\* stays written.
Die(c) ==
  /\ caller[c].pc # "idle"
  /\ Return(c)
  /\ UNCHANGED <<calls, fork, head, target, runState, log>>
  /\ UNCHANGED evidence

(***************************************************************************)
(* Everybody else.                                                         *)
(***************************************************************************)
Push ==
  /\ head' \in {c \in Commits : c # head /\ (Resets \/ c > head)}
  /\ UNCHANGED <<calls, fork, target, runState, caller, log>>
  /\ UNCHANGED evidence

\* A push to the target, or the merge of another run.
PushTarget ==
  /\ target < MaxTarget
  /\ target' = target + 1
  /\ UNCHANGED <<calls, fork, head, runState, caller, log>>
  /\ UNCHANGED evidence

\* ResolveApproval: only a pending request, and never by the author.
ResolveApproval(p, s) ==
  /\ p # Author
  /\ approval[s].state = "pending"
  /\ \E d \in {"approved", "denied"} :
       approval' = [approval EXCEPT ![s] = [state |-> d, by |-> p]]
  /\ UNCHANGED <<calls, fork, head, target, runState, caller, log, review, eval,
                 passed, endorsed>>

Handle(c) ==
  \/ StartReview(c) \/ (\E p \in People : SubmitReviewAt(c, p)) \/ Consider(c)
  \/ MergeRun(c) \/ ResolveForRun(c) \/ RaiseApproval(c) \/ RunGates(c)
  \/ CheckOpen(c) \/ PinSource(c) \/ PinTarget(c) \/ MayMergePinned(c)
  \/ MayMergeResolved(c) \/ CheckApproval(c) \/ MergeInClone(c)
  \/ UpdateRefs(c) \/ SetRunState(c) \/ Die(c)

Next ==
  \/ \E c \in Callers : Handle(c)
  \/ Push
  \/ PushTarget
  \/ \E p \in People, s \in Commits : ResolveApproval(p, s)

Spec == Init /\ [][Next]_vars

(***************************************************************************)
(* Properties.                                                             *)
(***************************************************************************)
\* Every variable keeps its shape.
TypeOK ==
  /\ fork \in BOOLEAN
  /\ head \in Commits
  /\ target \in Targets
  /\ runState \in {"open", "merged"}
  /\ review \in [People -> [verdict : {"none", "approve", "request_changes"},
                            sha : Commits \cup {0}]]
  /\ eval \in [Pairs -> {"none", "pass", "fail"}]
  /\ approval \in [Commits -> [state : {"none", "pending", "approved", "denied",
                                        "superseded"},
                               by : People \cup {"nobody"}]]
  /\ caller \in [Callers ->
       [pc : {"idle", "submit", "consider", "evaluate", "raise", "gates", "open",
              "resolve", "source", "target", "compare", "recheck", "judge", "approval",
              "clone", "fetch", "commit", "state"},
        src : Commits \cup {0}, tgt : Targets, seen : {"none", "pass", "fail"}]]
  /\ log \in Seq([src : Commits, tgt : Targets])
  /\ passed \subseteq Pairs
  /\ endorsed \subseteq Commits
  /\ calls \in 0..MaxCalls

\* Whatever the interleaving of pushes, reviews, decisions and handlers, a
\* merge lands a revision whose gates passed against the very revision of the
\* target it was merged into (reviews/merge.go, gates/controller.go,
\* gitops/grpc.go), and whose governed actions a person other than the author
\* approved for that revision (gates/approvals.go).
MergedAsJudged ==
  \A i \in DOMAIN log :
    /\ <<log[i].src, log[i].tgt>> \in passed
    /\ log[i].src \in Governed => approval[log[i].src].state = "approved"

\* A merge lands only a revision that somebody other than the author approved
\* (reviews/merge.go hasIndependentApproval, reviews/store.go SubmitReviewAt).
MergedIsEndorsed ==
  \A i \in DOMAIN log : log[i].src \in endorsed

\* While nobody forces the source branch back, an older revision of it never lands
\* after a newer one, although several handlers may merge before the run is marked
\* and a fork's branch is outside the reference transaction: a handler pins the
\* source before the target, so this takes MayMergePinned's second look at both
\* and the expected target of the transaction (gates/controller.go, gitops/grpc.go
\* mergeRefs).
LandsInOrder ==
  ~Resets => \A i, j \in DOMAIN log : i < j => log[i].src <= log[j].src
=============================================================================
