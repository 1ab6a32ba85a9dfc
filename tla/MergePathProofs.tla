-------------------------- MODULE MergePathProofs --------------------------
(***************************************************************************)
(* Proofs about MergePath, for every set of handlers, people and commits.  *)
(* Evidence only grows (Grows), so what a handler has checked for the pair *)
(* it pinned is still so when it lands the pair (CallerOK), whatever       *)
(* others did in between.  Nothing newer lands meanwhile, because a merge  *)
(* moves the target and so spoils the pair (InOrder).                      *)
(***************************************************************************)
EXTENDS MergePath, TLAPS

Step == {"idle", "submit", "consider", "evaluate", "raise", "gates", "open",
         "resolve", "source", "target", "compare", "recheck", "judge", "approval",
         "clone", "fetch", "commit", "state"}
Handler == [pc : Step, src : Commits \cup {0}, tgt : Targets,
            seen : {"none", "pass", "fail"}]
Request == [state : {"none", "pending", "approved", "denied", "superseded"},
            by : People \cup {"nobody"}]

\* The steps at which a handler holds a commit, a pair of revisions, anything,
\* a pair that it has compared with the branches, and one it means to merge.
HoldsSource == {"submit", "raise", "gates", "target", "compare", "recheck", "judge",
                "approval", "clone", "fetch", "commit"}
HoldsPair == {"raise", "gates", "compare", "recheck", "judge", "approval", "clone",
              "fetch", "commit"}
Holding == {"resolve"} \cup HoldsSource
Compared == {"judge", "approval", "clone", "fetch", "commit"}
Aimed == {"compare", "recheck"} \cup Compared

\* The gates of the pair passed, and its governed actions were approved.
Judged(s, t) ==
  /\ <<s, t>> \in passed
  /\ s \in Governed => approval[s].state = "approved"

\* What a handler has established of the revisions it pinned.
CallerOK(c) ==
  LET h == caller[c]
  IN  /\ h.pc \in HoldsSource => h.src \in Commits
      /\ h.pc \in {"resolve"} \cup HoldsPair => h.tgt \in 0 .. MaxTarget - 1
      /\ h.pc = "judge" /\ h.seen = "pass" => <<h.src, h.tgt>> \in passed
      /\ h.pc \in {"approval", "clone", "fetch", "commit"} => Judged(h.src, h.tgt)
      /\ h.pc \in {"clone", "fetch", "commit"} => h.src \in endorsed

CallerInv == \A c \in Callers : CallerOK(c)

\* The recorded evidence is covered by the history of evidence.
EvidenceInv ==
  /\ \A k \in Pairs : eval[k] = "pass" => k \in passed
  /\ \A p \in People \ {Author} :
       review[p].verdict = "approve" => review[p].sha \in endorsed

\* What a handler has compared with the branches was the head, so nothing newer was
\* merged by then, nor since, unless the target has moved.
InOrder(c) ==
  /\ caller[c].pc \in Aimed => caller[c].tgt <= target
  /\ caller[c].pc \in Compared =>
       /\ caller[c].src <= head
       /\ caller[c].tgt = target => \A i \in DOMAIN log : log[i].src <= caller[c].src

\* The branch only grows, and no merge is ahead of it.
OrderInv ==
  /\ \A i \in DOMAIN log : log[i].src <= head
  /\ \A c \in Callers : InOrder(c)

IInv ==
  /\ TypeOK /\ EvidenceInv /\ CallerInv
  /\ MergedAsJudged /\ MergedIsEndorsed
  /\ ~Resets => OrderInv
  /\ LandsInOrder

USE MergeAssumption

\* Nobody has reviewed, judged or merged anything at the start.
LEMMA InitIInv == Init => IInv
<1> SUFFICES ASSUME Init PROVE IInv
  OBVIOUS
<1>1. log = <<>> /\ DOMAIN log = {} /\ log \in Seq([src : Commits, tgt : Targets])
  BY DEF Init
<1>2. caller \in [Callers -> Handler]
  BY DEF Init, Handler, Idle, Step, Targets
<1>3. TypeOK
  BY <1>1, <1>2 DEF Init, TypeOK, Handler, Step, NoReview, NoRequest, Targets
<1>4. EvidenceInv
  BY DEF Init, EvidenceInv, NoReview
<1>5. CallerInv
  BY DEF Init, CallerInv, CallerOK, Idle, HoldsSource, HoldsPair
<1>6. MergedAsJudged /\ MergedIsEndorsed
  BY <1>1 DEF MergedAsJudged, MergedIsEndorsed
<1>7. OrderInv /\ LandsInOrder
  BY <1>1 DEF Init, OrderInv, InOrder, Idle, Aimed, Compared, LandsInOrder
<1> QED
  BY <1>3, <1>4, <1>5, <1>6, <1>7 DEF IInv

-----------------------------------------------------------------------------
(* The handlers' steps *)

CallerTypes == caller \in [Callers -> Handler]

\* Handler c moves, the others stand where they stood.
Only(c) == \A d \in Callers : d # c => caller'[d] = caller[d]

\* A handler that returns forgets what it held.
LEMMA ReturnEffect ==
  ASSUME CallerTypes, NEW c \in Callers, Return(c)
  PROVE  CallerTypes' /\ Only(c) /\ caller'[c].pc = "idle"
<1>1. Idle \in Handler /\ Idle.pc = "idle"
  BY DEF Idle, Handler, Step, Targets
<1> QED
  BY <1>1 DEF Return, CallerTypes, Only

\* A handler that enters a phase anew forgets it too.
LEMMA EnterEffect ==
  ASSUME CallerTypes, NEW c \in Callers, NEW pc \in Step, Enter(c, pc)
  PROVE  CallerTypes' /\ Only(c) /\ caller'[c].pc = pc
<1>1. [Idle EXCEPT !.pc = pc] \in Handler /\ [Idle EXCEPT !.pc = pc].pc = pc
  BY DEF Idle, Handler, Targets
<1> QED
  BY <1>1 DEF Enter, CallerTypes, Only

\* A handler that goes on keeps what it pinned.
LEMMA GoToEffect ==
  ASSUME CallerTypes, NEW c \in Callers, NEW pc \in Step, GoTo(c, pc)
  PROVE  /\ CallerTypes' /\ Only(c) /\ caller'[c].pc = pc
         /\ caller'[c].src = caller[c].src /\ caller'[c].tgt = caller[c].tgt
         /\ caller'[c].seen = caller[c].seen
<1>1. caller[c] \in Handler
  BY DEF CallerTypes
<1>2. [caller[c] EXCEPT !.pc = pc] \in Handler
  BY <1>1 DEF Handler
<1> QED
  BY <1>1, <1>2 DEF GoTo, CallerTypes, Only, Handler

\* Types of the handlers, from the type invariant.
LEMMA CallersTyped == TypeOK => CallerTypes
BY DEF TypeOK, CallerTypes, Handler, Step

\* SubmitReviewAt holds nothing afterwards.
LEMMA SubmitReviewAtEffect ==
  ASSUME TypeOK, NEW c \in Callers, NEW p, SubmitReviewAt(c, p)
  PROVE  CallerTypes' /\ Only(c) /\ caller'[c].pc \notin Holding
BY CallersTyped, ReturnEffect, EnterEffect, GoToEffect DEF SubmitReviewAt, Step,
   Holding, HoldsSource

\* Consider holds nothing yet.
LEMMA ConsiderEffect ==
  ASSUME TypeOK, NEW c \in Callers, Consider(c)
  PROVE  CallerTypes' /\ Only(c) /\ caller'[c].pc \notin Holding
BY CallersTyped, ReturnEffect, EnterEffect, GoToEffect
DEF Consider, Step, Holding, HoldsSource

\* MergeRun holds nothing yet.
LEMMA MergeRunEffect ==
  ASSUME TypeOK, NEW c \in Callers, MergeRun(c)
  PROVE  CallerTypes' /\ Only(c) /\ caller'[c].pc \notin Holding
BY CallersTyped, ReturnEffect, EnterEffect, GoToEffect
DEF MergeRun, Step, Holding, HoldsSource

\* RunGates drops the pair it judged.
LEMMA RunGatesEffect ==
  ASSUME TypeOK, NEW c \in Callers, RunGates(c)
  PROVE  CallerTypes' /\ Only(c) /\ caller'[c].pc \notin Holding
BY CallersTyped, ReturnEffect, EnterEffect, GoToEffect
DEF RunGates, Step, Holding, HoldsSource

\* CheckOpen holds nothing yet.
LEMMA CheckOpenEffect ==
  ASSUME TypeOK, NEW c \in Callers, CheckOpen(c)
  PROVE  CallerTypes' /\ Only(c) /\ caller'[c].pc \notin Holding
BY CallersTyped, ReturnEffect, EnterEffect, GoToEffect
DEF CheckOpen, Step, Holding, HoldsSource

\* UpdateRefs drops the pair it landed.
LEMMA UpdateRefsEffect ==
  ASSUME TypeOK, NEW c \in Callers, UpdateRefs(c)
  PROVE  CallerTypes' /\ Only(c) /\ caller'[c].pc \notin Holding
BY CallersTyped, ReturnEffect, EnterEffect, GoToEffect
DEF UpdateRefs, Step, Holding, HoldsSource

\* SetRunState is the end.
LEMMA SetRunStateEffect ==
  ASSUME TypeOK, NEW c \in Callers, SetRunState(c)
  PROVE  CallerTypes' /\ Only(c) /\ caller'[c].pc \notin Holding
BY CallersTyped, ReturnEffect, EnterEffect, GoToEffect DEF SetRunState, Step,
   Holding, HoldsSource

\* A handler that dies forgets everything.
LEMMA DieEffect ==
  ASSUME TypeOK, NEW c \in Callers, Die(c)
  PROVE  CallerTypes' /\ Only(c) /\ caller'[c].pc \notin Holding
BY CallersTyped, ReturnEffect, EnterEffect, GoToEffect
DEF Die, Step, Holding, HoldsSource

\* StartReview pins the head.
LEMMA StartReviewEffect ==
  ASSUME TypeOK, NEW c \in Callers, StartReview(c)
  PROVE  /\ CallerTypes' /\ Only(c)
         /\ caller'[c].pc = "submit" /\ caller'[c].src = head
<1>1. Idle \in Handler
  BY DEF Idle, Handler, Step, Targets
<1>2. [Idle EXCEPT !.pc = "submit", !.src = head] \in Handler
  BY <1>1 DEF Handler, Step, TypeOK
<1> QED
  BY <1>1, <1>2, CallersTyped DEF StartReview, CallerTypes, Only, Handler

\* Resolved pins the head beside a target revision.
LEMMA ResolvedEffect ==
  ASSUME TypeOK, NEW c \in Callers, NEW t \in 0 .. MaxTarget - 1, Resolved(c, t)
  PROVE  /\ CallerTypes' /\ Only(c)
         /\ caller'[c].pc \in {"raise", "gates"} /\ caller'[c].src = head
         /\ caller'[c].tgt = t
<1>1. LatestForSHA(head, t) \in {"none", "pass", "fail"}
  BY DEF LatestForSHA, TypeOK, Pairs
<1> DEFINE h == [pc |-> IF head \in Governed THEN "raise" ELSE "gates",
                 src |-> head, tgt |-> t, seen |-> LatestForSHA(head, t)]
<1>2. h \in Handler /\ h.pc \in {"raise", "gates"} /\ h.src = head /\ h.tgt = t
  BY <1>1 DEF Handler, Step, TypeOK, Targets
<1>3. caller' = [caller EXCEPT ![c] = h]
  BY DEF Resolved
<1> HIDE DEF h
<1> QED
  BY <1>2, <1>3, CallersTyped DEF CallerTypes, Only

\* ResolveForRun pins the pair that the gates will judge, for a fork the target
\* first.
LEMMA ResolveForRunEffect ==
  ASSUME TypeOK, CallerInv, NEW c \in Callers, ResolveForRun(c)
  PROVE  /\ CallerTypes' /\ Only(c)
         /\ caller'[c].tgt \in 0 .. MaxTarget - 1
         /\ \/ caller'[c].pc = "resolve"
            \/ caller'[c].pc \in {"raise", "gates"} /\ caller'[c].src = head
<1>1. CASE At(c, "evaluate") /\ fork
  <2> DEFINE h == [pc |-> "resolve", src |-> 0, tgt |-> target, seen |-> "none"]
  <2>1. caller' = [caller EXCEPT ![c] = h] /\ target \in 0 .. MaxTarget - 1
    BY <1>1 DEF ResolveForRun, At, TypeOK, Targets
  <2>2. h \in Handler /\ h.pc = "resolve" /\ h.tgt = target
    BY DEF Handler, Step, TypeOK
  <2> HIDE DEF h
  <2> QED
    BY <2>1, <2>2, CallersTyped DEF CallerTypes, Only
<1>2. CASE At(c, "evaluate") /\ ~fork
  <2>1. Resolved(c, target) /\ target \in 0 .. MaxTarget - 1
    BY <1>2 DEF ResolveForRun, At, TypeOK, Targets
  <2> QED
    BY <2>1, ResolvedEffect
<1>3. CASE At(c, "resolve")
  <2>1. Resolved(c, caller[c].tgt) /\ caller[c].tgt \in 0 .. MaxTarget - 1
    BY <1>3 DEF ResolveForRun, At, CallerInv, CallerOK
  <2> QED
    BY <2>1, ResolvedEffect
<1> QED
  BY <1>1, <1>2, <1>3 DEF ResolveForRun

\* RaiseApproval keeps the pair.
LEMMA RaiseApprovalEffect ==
  ASSUME TypeOK, NEW c \in Callers, RaiseApproval(c)
  PROVE  /\ CallerTypes' /\ Only(c)
         /\ \/ caller'[c].pc \notin Holding
            \/ /\ caller[c].pc = "raise" /\ caller'[c].pc = "gates"
               /\ caller'[c].src = caller[c].src /\ caller'[c].tgt = caller[c].tgt
BY CallersTyped, ReturnEffect, GoToEffect
DEF RaiseApproval, At, Step, Holding, HoldsSource

\* CheckApproval keeps an endorsed commit.
LEMMA CheckApprovalEffect ==
  ASSUME TypeOK, NEW c \in Callers, CheckApproval(c)
  PROVE  /\ CallerTypes' /\ Only(c)
         /\ \/ caller'[c].pc \notin Holding
            \/ /\ caller[c].pc = "approval" /\ caller'[c].pc = "clone"
               /\ caller'[c].src = caller[c].src /\ caller'[c].tgt = caller[c].tgt
               /\ HasIndependentApproval(caller[c].src)
BY CallersTyped, ReturnEffect, GoToEffect
DEF CheckApproval, At, Step, Holding, HoldsSource

\* MergeInClone keeps the pair.
LEMMA MergeInCloneEffect ==
  ASSUME TypeOK, NEW c \in Callers, MergeInClone(c)
  PROVE  /\ CallerTypes' /\ Only(c)
         /\ \/ caller'[c].pc \notin Holding
            \/ /\ caller[c].pc \in {"clone", "fetch"}
               /\ caller'[c].pc \in {"fetch", "commit"}
               /\ caller'[c].src = caller[c].src /\ caller'[c].tgt = caller[c].tgt
BY CallersTyped, ReturnEffect, GoToEffect
DEF MergeInClone, At, Step, Holding, HoldsSource

\* PinSource pins the head.
LEMMA PinSourceEffect ==
  ASSUME TypeOK, NEW c \in Callers, PinSource(c)
  PROVE  /\ CallerTypes' /\ Only(c)
         /\ caller'[c].pc = "target" /\ caller'[c].src = head
<1>1. caller[c] \in Handler
  BY CallersTyped DEF CallerTypes
<1>2. [caller[c] EXCEPT !.pc = "target", !.src = head] \in Handler
  BY <1>1 DEF Handler, Step, TypeOK
<1> QED
  BY <1>1, <1>2, CallersTyped DEF PinSource, CallerTypes, Only, Handler

\* PinTarget pins the target.
LEMMA PinTargetEffect ==
  ASSUME TypeOK, NEW c \in Callers, PinTarget(c)
  PROVE  /\ CallerTypes' /\ Only(c) /\ caller[c].pc = "target"
         /\ caller'[c].pc = "compare" /\ caller'[c].src = caller[c].src
         /\ caller'[c].tgt = target /\ target < MaxTarget
<1>1. caller[c] \in Handler
  BY CallersTyped DEF CallerTypes
<1>2. [caller[c] EXCEPT !.pc = "compare", !.tgt = target] \in Handler
  BY <1>1 DEF Handler, Step, TypeOK
<1> QED
  BY <1>1, <1>2, CallersTyped DEF PinTarget, At, CallerTypes, Only, Handler

\* What MayMergePinned leaves: a pair half compared, or a pair compared with both
\* branches, with the evidence recorded for it.
HalfCompared(c) ==
  /\ caller[c].pc = "compare" /\ caller'[c].pc = "recheck"
  /\ caller'[c].src = caller[c].src /\ caller'[c].tgt = caller[c].tgt

PairCompared(c) ==
  /\ caller[c].pc \in {"compare", "recheck"} /\ caller'[c].pc = "judge"
  /\ caller'[c].src = caller[c].src /\ caller'[c].tgt = caller[c].tgt
  /\ caller[c].src = head
  /\ caller'[c].seen = eval[<<caller[c].src, caller[c].tgt>>]

\* MayMergePinned refuses the pair, or goes on with it in one of these two ways.
LEMMA MayMergePinnedEffect ==
  ASSUME TypeOK, CallerInv, NEW c \in Callers, MayMergePinned(c)
  PROVE  /\ CallerTypes' /\ Only(c)
         /\ caller'[c].pc \notin Holding \/ HalfCompared(c) \/ PairCompared(c)
<1>1. caller[c] \in Handler /\ caller[c].pc \in {"compare", "recheck"}
  BY CallersTyped DEF CallerTypes, MayMergePinned, At
<1> DEFINE h == [caller[c] EXCEPT !.pc = "judge",
                   !.seen = LatestForSHA(caller[c].src, caller[c].tgt)]
<1>2. CASE caller' = [caller EXCEPT ![c] = h] /\ AtSource(c)
  <2>1. caller[c].src \in Commits /\ caller[c].tgt \in 0 .. MaxTarget - 1
    BY <1>1 DEF CallerInv, CallerOK, HoldsSource, HoldsPair
  <2>2. eval[<<caller[c].src, caller[c].tgt>>] \in {"none", "pass", "fail"}
    BY <2>1 DEF TypeOK, Pairs
  <2>3. h \in Handler /\ h.pc = "judge" /\ h.src = caller[c].src /\ h.tgt = caller[c].tgt
        /\ h.seen = eval[<<caller[c].src, caller[c].tgt>>]
    BY <1>1, <2>2 DEF Handler, Step, LatestForSHA
  <2> HIDE DEF h
  <2> QED
    BY <1>1, <1>2, <2>3, CallersTyped DEF CallerTypes, Only, PairCompared, AtSource
<1>3. CASE Return(c)
  BY <1>3, CallersTyped, ReturnEffect DEF Holding, HoldsSource
<1>4. CASE At(c, "compare") /\ GoTo(c, "recheck")
  BY <1>4, CallersTyped, GoToEffect DEF At, Step, HalfCompared
<1> QED
  BY <1>2, <1>3, <1>4 DEF MayMergePinned

\* MayMergeResolved lets a judged pair pass.
LEMMA MayMergeResolvedEffect ==
  ASSUME TypeOK, NEW c \in Callers, MayMergeResolved(c)
  PROVE  /\ CallerTypes' /\ Only(c)
         /\ \/ caller'[c].pc \notin Holding
            \/ /\ caller[c].pc = "judge" /\ caller'[c].pc = "approval"
               /\ caller'[c].src = caller[c].src /\ caller'[c].tgt = caller[c].tgt
               /\ caller[c].seen = "pass"
               /\ caller[c].src \in Governed => approval'[caller[c].src].state = "approved"
<1> DEFINE ok == /\ caller[c].seen = "pass"
                 /\ caller[c].src \in Governed => Decided(approval'[caller[c].src])
<1>1. caller[c] \in Handler /\ caller[c].pc = "judge"
  BY CallersTyped DEF CallerTypes, MayMergeResolved, At
<1>2. CASE ok
  <2>1. caller' = [caller EXCEPT ![c].pc = "approval", ![c].seen = "none"]
    BY <1>2 DEF MayMergeResolved
  <2>2. [caller[c] EXCEPT !.pc = "approval", !.seen = "none"] \in Handler
    BY <1>1 DEF Handler, Step
  <2> QED
    BY <1>1, <1>2, <2>1, <2>2, CallersTyped DEF CallerTypes, Only, Handler, Decided
<1>3. CASE ~ok
  <2>1. Return(c)
    BY <1>3 DEF MayMergeResolved
  <2> QED
    BY <2>1, CallersTyped, ReturnEffect DEF Holding, HoldsSource
<1> QED
  BY <1>2, <1>3

-----------------------------------------------------------------------------
(* Evidence *)

EvidenceTypes ==
  /\ review \in [People -> [verdict : {"none", "approve", "request_changes"},
                            sha : Commits \cup {0}]]
  /\ eval \in [Pairs -> {"none", "pass", "fail"}]
  /\ approval \in [Commits -> Request]
  /\ passed \subseteq Pairs
  /\ endorsed \subseteq Commits

\* Evidence is never taken back: no gate result and no endorsement is forgotten,
\* and an approved request stays approved.
Grows ==
  /\ passed \subseteq passed'
  /\ endorsed \subseteq endorsed'
  /\ \A s \in Commits : approval[s].state = "approved" => approval'[s].state = "approved"

\* Raise keeps the shape of the requests and never touches an approved one.
LEMMA RaiseEffect ==
  ASSUME EvidenceTypes, NEW s \in Commits
  PROVE  /\ Raise(s) \in [Commits -> Request]
         /\ \A c \in Commits : approval[c].state = "approved" => Raise(s)[c] = approval[c]
<1>1. \A c \in Commits : approval[c] \in Request
  BY DEF EvidenceTypes
<1>2. [NoRequest EXCEPT !.state = "pending"] \in Request
  BY DEF NoRequest, Request
<1>3. \A c \in Commits : [approval[c] EXCEPT !.state = "superseded"] \in Request
  BY <1>1 DEF Request
<1> QED
  BY <1>1, <1>2, <1>3 DEF Raise

\* What the evidence must satisfy after a step.
EvidenceGood == EvidenceTypes' /\ EvidenceInv' /\ Grows

\* Every step keeps the evidence in order and takes none of it back.
LEMMA EvidenceStep ==
  ASSUME EvidenceTypes, EvidenceInv, CallerInv, [Next]_vars
  PROVE  EvidenceGood
<1>1. ASSUME NEW c \in Callers, StartReview(c) PROVE EvidenceGood
  BY <1>1 DEF StartReview, EvidenceGood, EvidenceTypes, EvidenceInv, Grows, evidence
<1>2. ASSUME NEW c \in Callers, NEW p \in People, SubmitReviewAt(c, p)
      PROVE  EvidenceGood
  <2>1. CASE ~MayReview(p)
    BY <1>2, <2>1 DEF SubmitReviewAt, EvidenceGood, EvidenceTypes, EvidenceInv, Grows
  <2>2. CASE MayReview(p)
    <3>1. PICK v \in Verdicts :
            /\ review' = [review EXCEPT ![p] = [verdict |-> v, sha |-> caller[c].src]]
            /\ endorsed' = IF v = "approve" /\ p # Author
                           THEN endorsed \cup {caller[c].src} ELSE endorsed
      BY <1>2, <2>2 DEF SubmitReviewAt
    <3>2. caller[c].src \in Commits /\ p # Author
      BY <1>2, <2>2 DEF SubmitReviewAt, At, MayReview, CallerInv, CallerOK, HoldsSource
    <3>3. [verdict |-> v, sha |-> caller[c].src] \in
            [verdict : {"none", "approve", "request_changes"}, sha : Commits \cup {0}]
      BY <3>2 DEF Verdicts
    <3>4. EvidenceTypes' /\ Grows
      BY <1>2, <3>1, <3>2, <3>3 DEF SubmitReviewAt, EvidenceTypes, Grows
    <3>5. \A q \in People \ {Author} :
            review'[q].verdict = "approve" => review'[q].sha \in endorsed'
      BY <3>1, <3>2 DEF EvidenceTypes, EvidenceInv
    <3> QED
      BY <1>2, <3>4, <3>5 DEF SubmitReviewAt, EvidenceGood, EvidenceInv
  <2> QED
    BY <2>1, <2>2
<1>3. ASSUME NEW c \in Callers, Consider(c) PROVE EvidenceGood
  BY <1>3 DEF Consider, EvidenceGood, EvidenceTypes, EvidenceInv, Grows, evidence
<1>4. ASSUME NEW c \in Callers, MergeRun(c) PROVE EvidenceGood
  BY <1>4 DEF MergeRun, EvidenceGood, EvidenceTypes, EvidenceInv, Grows, evidence
<1>5. ASSUME NEW c \in Callers, ResolveForRun(c) PROVE EvidenceGood
  BY <1>5 DEF ResolveForRun, EvidenceGood, EvidenceTypes, EvidenceInv, Grows, evidence
<1>6. ASSUME NEW c \in Callers, RaiseApproval(c) PROVE EvidenceGood
  <2>1. caller[c].src \in Commits
    BY <1>6 DEF RaiseApproval, At, CallerInv, CallerOK, HoldsSource
  <2> QED
    BY <1>6, <2>1, RaiseEffect
    DEF RaiseApproval, EvidenceGood, EvidenceTypes, EvidenceInv, Grows
<1>7. ASSUME NEW c \in Callers, RunGates(c) PROVE EvidenceGood
  <2>1. CASE UNCHANGED <<eval, passed>>
    BY <1>7, <2>1 DEF RunGates, EvidenceGood, EvidenceTypes, EvidenceInv, Grows
  <2>2. CASE \E v \in {"pass", "fail"} :
               /\ eval' = [eval EXCEPT ![<<caller[c].src, caller[c].tgt>>] = v]
               /\ passed' = IF v = "pass"
                            THEN passed \cup {<<caller[c].src, caller[c].tgt>>} ELSE passed
    <3>1. <<caller[c].src, caller[c].tgt>> \in Pairs
      BY <1>7 DEF RunGates, At, CallerInv, CallerOK, HoldsSource, HoldsPair, Pairs
    <3>2. UNCHANGED <<review, approval, endorsed>>
      BY <1>7 DEF RunGates
    <3> QED
      BY <2>2, <3>1, <3>2 DEF EvidenceGood, EvidenceTypes, EvidenceInv, Grows
  <2> QED
    BY <1>7, <2>1, <2>2 DEF RunGates
<1>8. ASSUME NEW c \in Callers, CheckOpen(c) PROVE EvidenceGood
  BY <1>8 DEF CheckOpen, EvidenceGood, EvidenceTypes, EvidenceInv, Grows, evidence
<1>9. ASSUME NEW c \in Callers, PinSource(c) PROVE EvidenceGood
  BY <1>9 DEF PinSource, EvidenceGood, EvidenceTypes, EvidenceInv, Grows, evidence
<1>10. ASSUME NEW c \in Callers, PinTarget(c) PROVE EvidenceGood
  BY <1>10 DEF PinTarget, EvidenceGood, EvidenceTypes, EvidenceInv, Grows, evidence
<1>11. ASSUME NEW c \in Callers, MayMergePinned(c) PROVE EvidenceGood
  BY <1>11 DEF MayMergePinned, EvidenceGood, EvidenceTypes, EvidenceInv, Grows, evidence
<1>12. ASSUME NEW c \in Callers, MayMergeResolved(c) PROVE EvidenceGood
  <2>1. caller[c].src \in Commits
    BY <1>12 DEF MayMergeResolved, At, CallerInv, CallerOK, HoldsSource
  <2>2. approval' = Raise(caller[c].src) \/ approval' = approval
    BY <1>12 DEF MayMergeResolved
  <2>3. UNCHANGED <<review, eval, passed, endorsed>>
    BY <1>12 DEF MayMergeResolved
  <2>4. /\ approval' \in [Commits -> Request]
        /\ \A d \in Commits : approval[d].state = "approved" => approval'[d] = approval[d]
    <3>1. CASE approval' = Raise(caller[c].src)
      BY <2>1, <3>1, RaiseEffect
    <3>2. CASE approval' = approval
      BY <3>2 DEF EvidenceTypes
    <3> QED
      BY <2>2, <3>1, <3>2
  <2> QED
    BY <2>3, <2>4 DEF EvidenceGood, EvidenceTypes, EvidenceInv, Grows
<1>13. ASSUME NEW c \in Callers, CheckApproval(c) PROVE EvidenceGood
  BY <1>13 DEF CheckApproval, EvidenceGood, EvidenceTypes, EvidenceInv, Grows, evidence
<1>14. ASSUME NEW c \in Callers, MergeInClone(c) PROVE EvidenceGood
  BY <1>14 DEF MergeInClone, EvidenceGood, EvidenceTypes, EvidenceInv, Grows, evidence
<1>15. ASSUME NEW c \in Callers, UpdateRefs(c) PROVE EvidenceGood
  BY <1>15 DEF UpdateRefs, EvidenceGood, EvidenceTypes, EvidenceInv, Grows, evidence
<1>16. ASSUME NEW c \in Callers, SetRunState(c) PROVE EvidenceGood
  BY <1>16 DEF SetRunState, EvidenceGood, EvidenceTypes, EvidenceInv, Grows, evidence
<1>17. ASSUME NEW c \in Callers, Die(c) PROVE EvidenceGood
  BY <1>17 DEF Die, EvidenceGood, EvidenceTypes, EvidenceInv, Grows, evidence
<1>18. ASSUME Push PROVE EvidenceGood
  BY <1>18 DEF Push, EvidenceGood, EvidenceTypes, EvidenceInv, Grows, evidence
<1>19. ASSUME PushTarget PROVE EvidenceGood
  BY <1>19 DEF PushTarget, EvidenceGood, EvidenceTypes, EvidenceInv, Grows, evidence
<1>20. ASSUME NEW p \in People, NEW s \in Commits, ResolveApproval(p, s)
      PROVE  EvidenceGood
  <2>1. PICK d \in {"approved", "denied"} :
          approval' = [approval EXCEPT ![s] = [state |-> d, by |-> p]]
    BY <1>20 DEF ResolveApproval
  <2>2. [state |-> d, by |-> p] \in Request
    BY DEF Request
  <2> QED
    BY <1>20, <2>1, <2>2
    DEF ResolveApproval, EvidenceGood, EvidenceTypes, EvidenceInv, Grows
<1>21. CASE UNCHANGED vars
  BY <1>21 DEF vars, EvidenceGood, EvidenceTypes, EvidenceInv, Grows, evidence
<1> QED
  BY <1>1, <1>2, <1>3, <1>4, <1>5, <1>6, <1>7, <1>8, <1>9, <1>10, <1>11, <1>12,
     <1>13, <1>14, <1>15, <1>16, <1>17, <1>18, <1>19, <1>20, <1>21 DEF Next,
     Handle

-----------------------------------------------------------------------------
(* The handlers' invariant *)

\* What others do to the evidence does not hurt a handler.
LEMMA CallerKept ==
  ASSUME EvidenceTypes, CallerInv, Grows, NEW d \in Callers, caller'[d] = caller[d]
  PROVE  CallerOK(d)'
BY DEF CallerInv, CallerOK, Judged, Grows, HoldsSource

\* A handler that holds nothing has nothing to establish.
LEMMA NothingHeld ==
  ASSUME NEW c \in Callers, caller'[c].pc \notin Holding
  PROVE  CallerOK(c)'
BY DEF CallerOK, Holding, HoldsSource, HoldsPair

\* Types of the evidence, from the type invariant.
LEMMA EvidenceTyped == TypeOK => EvidenceTypes
BY DEF TypeOK, EvidenceTypes, Request

\* Every step keeps what the handlers have established.
LEMMA CallerStep ==
  ASSUME TypeOK, EvidenceInv, CallerInv, [Next]_vars
  PROVE  CallerInv'
<1>0. EvidenceTypes /\ EvidenceGood
  BY EvidenceTyped, EvidenceStep
<1>1. ASSUME NEW c \in Callers, StartReview(c) PROVE CallerInv'
  <2>1. CallerOK(c)'
    BY <1>1, StartReviewEffect, <1>0, NothingHeld
    DEF CallerOK, HoldsSource, HoldsPair, TypeOK
  <2> QED
    BY <1>1, <2>1, StartReviewEffect, <1>0, CallerKept DEF CallerInv, EvidenceGood, Only
<1>2. ASSUME NEW c \in Callers, NEW p \in People, SubmitReviewAt(c, p) PROVE CallerInv'
  BY <1>2, SubmitReviewAtEffect, <1>0, CallerKept, NothingHeld
  DEF CallerInv, EvidenceGood, Only
<1>3. ASSUME NEW c \in Callers, Consider(c) PROVE CallerInv'
  BY <1>3, ConsiderEffect, <1>0, CallerKept, NothingHeld
  DEF CallerInv, EvidenceGood, Only
<1>4. ASSUME NEW c \in Callers, MergeRun(c) PROVE CallerInv'
  BY <1>4, MergeRunEffect, <1>0, CallerKept, NothingHeld
  DEF CallerInv, EvidenceGood, Only
<1>5. ASSUME NEW c \in Callers, ResolveForRun(c) PROVE CallerInv'
  <2>1. CallerOK(c)'
    BY <1>5, ResolveForRunEffect, <1>0, NothingHeld
    DEF CallerOK, HoldsSource, HoldsPair, TypeOK, Targets
  <2> QED
    BY <1>5, <2>1, ResolveForRunEffect, <1>0, CallerKept DEF CallerInv, EvidenceGood,
       Only
<1>6. ASSUME NEW c \in Callers, RaiseApproval(c) PROVE CallerInv'
  <2>1. CallerOK(c)'
    BY <1>6, RaiseApprovalEffect, <1>0, NothingHeld
    DEF CallerInv, CallerOK, Judged, HoldsSource, HoldsPair, EvidenceGood, Grows
  <2> QED
    BY <1>6, <2>1, RaiseApprovalEffect, <1>0, CallerKept DEF CallerInv, EvidenceGood,
       Only
<1>7. ASSUME NEW c \in Callers, RunGates(c) PROVE CallerInv'
  BY <1>7, RunGatesEffect, <1>0, CallerKept, NothingHeld
  DEF CallerInv, EvidenceGood, Only
<1>8. ASSUME NEW c \in Callers, CheckOpen(c) PROVE CallerInv'
  BY <1>8, CheckOpenEffect, <1>0, CallerKept, NothingHeld
  DEF CallerInv, EvidenceGood, Only
<1>9. ASSUME NEW c \in Callers, PinSource(c) PROVE CallerInv'
  <2>1. CallerOK(c)'
    BY <1>9, PinSourceEffect, <1>0, NothingHeld
    DEF CallerOK, HoldsSource, HoldsPair, TypeOK
  <2> QED
    BY <1>9, <2>1, PinSourceEffect, <1>0, CallerKept DEF CallerInv, EvidenceGood, Only
<1>10. ASSUME NEW c \in Callers, PinTarget(c) PROVE CallerInv'
  <2>1. /\ caller'[c].pc = "compare" /\ caller'[c].src = caller[c].src
        /\ caller'[c].tgt = target /\ target < MaxTarget
    BY <1>10, PinTargetEffect
  <2>2. caller[c].src \in Commits
    BY <1>10, PinTargetEffect DEF CallerInv, CallerOK, HoldsSource
  <2>3. CallerOK(c)'
    BY <2>1, <2>2 DEF CallerOK, HoldsSource, HoldsPair, TypeOK, Targets
  <2> QED
    BY <1>10, <2>3, PinTargetEffect, <1>0, CallerKept
    DEF CallerInv, EvidenceGood, Only
<1>11. ASSUME NEW c \in Callers, MayMergePinned(c) PROVE CallerInv'
  <2>1. CallerOK(c)'
    <3>1. CASE caller'[c].pc \notin Holding
      BY <3>1, NothingHeld
    <3>2. CASE HalfCompared(c)
      BY <3>2 DEF HalfCompared, CallerInv, CallerOK, HoldsSource, HoldsPair
    <3>3. CASE PairCompared(c)
      <4>1. caller[c].src \in Commits /\ caller[c].tgt \in 0 .. MaxTarget - 1
        BY <3>3 DEF PairCompared, CallerInv, CallerOK, HoldsSource, HoldsPair
      <4>2. caller'[c].seen = "pass" => <<caller[c].src, caller[c].tgt>> \in passed
        BY <3>3, <4>1 DEF PairCompared, EvidenceInv, Pairs
      <4> QED
        BY <3>3, <4>1, <4>2, <1>0
        DEF PairCompared, CallerOK, HoldsSource, HoldsPair, EvidenceGood, Grows
    <3> QED
      BY <1>11, <3>1, <3>2, <3>3, MayMergePinnedEffect
  <2> QED
    BY <1>11, <2>1, MayMergePinnedEffect, <1>0, CallerKept
    DEF CallerInv, EvidenceGood, Only
<1>12. ASSUME NEW c \in Callers, MayMergeResolved(c) PROVE CallerInv'
  <2>1. CallerOK(c)'
    <3>1. CASE caller'[c].pc \notin Holding
      BY <3>1, NothingHeld
    <3>2. CASE /\ caller[c].pc = "judge" /\ caller'[c].pc = "approval"
               /\ caller'[c].src = caller[c].src /\ caller'[c].tgt = caller[c].tgt
               /\ caller[c].seen = "pass"
               /\ caller[c].src \in Governed => approval'[caller[c].src].state = "approved"
      BY <3>2, <1>0
      DEF CallerInv, CallerOK, Judged, HoldsSource, HoldsPair, EvidenceGood, Grows
    <3> QED
      BY <1>12, <3>1, <3>2, MayMergeResolvedEffect
  <2> QED
    BY <1>12, <2>1, MayMergeResolvedEffect, <1>0, CallerKept
    DEF CallerInv, EvidenceGood, Only
<1>13. ASSUME NEW c \in Callers, CheckApproval(c) PROVE CallerInv'
  <2>1. CallerOK(c)'
    <3>1. CASE caller'[c].pc \notin Holding
      BY <3>1, NothingHeld
    <3>2. CASE /\ caller[c].pc = "approval" /\ caller'[c].pc = "clone"
               /\ caller'[c].src = caller[c].src /\ caller'[c].tgt = caller[c].tgt
               /\ HasIndependentApproval(caller[c].src)
      <4>1. caller[c].src \in endorsed
        BY <3>2 DEF HasIndependentApproval, EvidenceInv
      <4> QED
        BY <3>2, <4>1, <1>0
        DEF CallerInv, CallerOK, Judged, HoldsSource, HoldsPair, EvidenceGood, Grows
    <3> QED
      BY <1>13, <3>1, <3>2, CheckApprovalEffect
  <2> QED
    BY <1>13, <2>1, CheckApprovalEffect, <1>0, CallerKept
    DEF CallerInv, EvidenceGood, Only
<1>14. ASSUME NEW c \in Callers, MergeInClone(c) PROVE CallerInv'
  <2>1. CallerOK(c)'
    BY <1>14, MergeInCloneEffect, <1>0, NothingHeld
    DEF CallerInv, CallerOK, Judged, HoldsSource, HoldsPair, EvidenceGood, Grows
  <2> QED
    BY <1>14, <2>1, MergeInCloneEffect, <1>0, CallerKept DEF CallerInv, EvidenceGood,
       Only
<1>15. ASSUME NEW c \in Callers, UpdateRefs(c) PROVE CallerInv'
  BY <1>15, UpdateRefsEffect, <1>0, CallerKept, NothingHeld
  DEF CallerInv, EvidenceGood, Only
<1>16. ASSUME NEW c \in Callers, SetRunState(c) PROVE CallerInv'
  BY <1>16, SetRunStateEffect, <1>0, CallerKept, NothingHeld
  DEF CallerInv, EvidenceGood, Only
<1>17. ASSUME NEW c \in Callers, Die(c) PROVE CallerInv'
  BY <1>17, DieEffect, <1>0, CallerKept, NothingHeld
  DEF CallerInv, EvidenceGood, Only
<1>18. ASSUME Push PROVE CallerInv'
  BY <1>18, <1>0, CallerKept DEF Push, CallerInv, EvidenceGood
<1>19. ASSUME PushTarget PROVE CallerInv'
  BY <1>19, <1>0, CallerKept DEF PushTarget, CallerInv, EvidenceGood
<1>20. ASSUME NEW p \in People, NEW s \in Commits, ResolveApproval(p, s)
      PROVE  CallerInv'
  BY <1>20, <1>0, CallerKept DEF ResolveApproval, CallerInv, EvidenceGood
<1>21. CASE UNCHANGED vars
  BY <1>0, <1>21, CallerKept DEF vars, CallerInv, EvidenceGood
<1> QED
  BY <1>1, <1>2, <1>3, <1>4, <1>5, <1>6, <1>7, <1>8, <1>9, <1>10, <1>11, <1>12,
     <1>13, <1>14, <1>15, <1>16, <1>17, <1>18, <1>19, <1>20, <1>21 DEF Next,
     Handle

\* Every step keeps the types of the handlers.
LEMMA CallerTypeStep ==
  ASSUME TypeOK, CallerInv, [Next]_vars
  PROVE  CallerTypes'
<1>0. CallerTypes
  BY CallersTyped
<1>1. ASSUME NEW c \in Callers, StartReview(c) PROVE CallerTypes'
  BY <1>1, StartReviewEffect
<1>2. ASSUME NEW c \in Callers, NEW p \in People, SubmitReviewAt(c, p)
      PROVE  CallerTypes'
  BY <1>2, SubmitReviewAtEffect
<1>3. ASSUME NEW c \in Callers, Consider(c) PROVE CallerTypes'
  BY <1>3, ConsiderEffect
<1>4. ASSUME NEW c \in Callers, MergeRun(c) PROVE CallerTypes'
  BY <1>4, MergeRunEffect
<1>5. ASSUME NEW c \in Callers, ResolveForRun(c) PROVE CallerTypes'
  BY <1>5, ResolveForRunEffect
<1>6. ASSUME NEW c \in Callers, RaiseApproval(c) PROVE CallerTypes'
  BY <1>6, RaiseApprovalEffect
<1>7. ASSUME NEW c \in Callers, RunGates(c) PROVE CallerTypes'
  BY <1>7, RunGatesEffect
<1>8. ASSUME NEW c \in Callers, CheckOpen(c) PROVE CallerTypes'
  BY <1>8, CheckOpenEffect
<1>9. ASSUME NEW c \in Callers, PinSource(c) PROVE CallerTypes'
  BY <1>9, PinSourceEffect
<1>10. ASSUME NEW c \in Callers, PinTarget(c) PROVE CallerTypes'
  BY <1>10, PinTargetEffect
<1>11. ASSUME NEW c \in Callers, MayMergePinned(c) PROVE CallerTypes'
  BY <1>11, MayMergePinnedEffect
<1>12. ASSUME NEW c \in Callers, MayMergeResolved(c) PROVE CallerTypes'
  BY <1>12, MayMergeResolvedEffect
<1>13. ASSUME NEW c \in Callers, CheckApproval(c) PROVE CallerTypes'
  BY <1>13, CheckApprovalEffect
<1>14. ASSUME NEW c \in Callers, MergeInClone(c) PROVE CallerTypes'
  BY <1>14, MergeInCloneEffect
<1>15. ASSUME NEW c \in Callers, UpdateRefs(c) PROVE CallerTypes'
  BY <1>15, UpdateRefsEffect
<1>16. ASSUME NEW c \in Callers, SetRunState(c) PROVE CallerTypes'
  BY <1>16, SetRunStateEffect
<1>17. ASSUME NEW c \in Callers, Die(c) PROVE CallerTypes'
  BY <1>17, DieEffect
<1>18. ASSUME Push PROVE CallerTypes'
  BY <1>18, <1>0 DEF Push, CallerTypes
<1>19. ASSUME PushTarget PROVE CallerTypes'
  BY <1>19, <1>0 DEF PushTarget, CallerTypes
<1>20. ASSUME NEW p \in People, NEW s \in Commits, ResolveApproval(p, s)
      PROVE  CallerTypes'
  BY <1>20, <1>0 DEF ResolveApproval, CallerTypes
<1>21. CASE UNCHANGED vars
  BY <1>0, <1>21 DEF vars, CallerTypes
<1> QED
  BY <1>1, <1>2, <1>3, <1>4, <1>5, <1>6, <1>7, <1>8, <1>9, <1>10, <1>11, <1>12,
     <1>13, <1>14, <1>15, <1>16, <1>17, <1>18, <1>19, <1>20, <1>21 DEF Next,
     Handle

-----------------------------------------------------------------------------
(* What has been merged *)

BranchTypes ==
  /\ fork \in BOOLEAN
  /\ head \in Commits
  /\ target \in Targets
  /\ runState \in {"open", "merged"}
  /\ calls \in 0..MaxCalls

\* Every step keeps the types of the branches and of the run.
LEMMA BranchStep ==
  ASSUME BranchTypes, [Next]_vars
  PROVE  BranchTypes'
<1>1. ASSUME NEW c \in Callers, StartReview(c) PROVE BranchTypes'
  BY <1>1 DEF StartReview, BranchTypes, Targets
<1>2. ASSUME NEW c \in Callers, NEW p \in People, SubmitReviewAt(c, p)
      PROVE  BranchTypes'
  BY <1>2 DEF SubmitReviewAt, BranchTypes, Targets
<1>3. ASSUME NEW c \in Callers, Consider(c) PROVE BranchTypes'
  BY <1>3 DEF Consider, BranchTypes, Targets
<1>4. ASSUME NEW c \in Callers, MergeRun(c) PROVE BranchTypes'
  BY <1>4 DEF MergeRun, BranchTypes, Targets
<1>5. ASSUME NEW c \in Callers, ResolveForRun(c) PROVE BranchTypes'
  BY <1>5 DEF ResolveForRun, BranchTypes, Targets
<1>6. ASSUME NEW c \in Callers, RaiseApproval(c) PROVE BranchTypes'
  BY <1>6 DEF RaiseApproval, BranchTypes, Targets
<1>7. ASSUME NEW c \in Callers, RunGates(c) PROVE BranchTypes'
  BY <1>7 DEF RunGates, BranchTypes, Targets
<1>8. ASSUME NEW c \in Callers, CheckOpen(c) PROVE BranchTypes'
  BY <1>8 DEF CheckOpen, BranchTypes, Targets
<1>9. ASSUME NEW c \in Callers, PinSource(c) PROVE BranchTypes'
  BY <1>9 DEF PinSource, BranchTypes, Targets
<1>10. ASSUME NEW c \in Callers, PinTarget(c) PROVE BranchTypes'
  BY <1>10 DEF PinTarget, BranchTypes, Targets
<1>11. ASSUME NEW c \in Callers, MayMergePinned(c) PROVE BranchTypes'
  BY <1>11 DEF MayMergePinned, BranchTypes, Targets
<1>12. ASSUME NEW c \in Callers, MayMergeResolved(c) PROVE BranchTypes'
  BY <1>12 DEF MayMergeResolved, BranchTypes, Targets
<1>13. ASSUME NEW c \in Callers, CheckApproval(c) PROVE BranchTypes'
  BY <1>13 DEF CheckApproval, BranchTypes, Targets
<1>14. ASSUME NEW c \in Callers, MergeInClone(c) PROVE BranchTypes'
  BY <1>14 DEF MergeInClone, BranchTypes, Targets
<1>15. ASSUME NEW c \in Callers, UpdateRefs(c) PROVE BranchTypes'
  BY <1>15 DEF UpdateRefs, BranchTypes, Targets
<1>16. ASSUME NEW c \in Callers, SetRunState(c) PROVE BranchTypes'
  BY <1>16 DEF SetRunState, BranchTypes, Targets
<1>17. ASSUME NEW c \in Callers, Die(c) PROVE BranchTypes'
  BY <1>17 DEF Die, BranchTypes, Targets
<1>18. ASSUME Push PROVE BranchTypes'
  BY <1>18 DEF Push, BranchTypes
<1>19. ASSUME PushTarget PROVE BranchTypes'
  BY <1>19 DEF PushTarget, BranchTypes, Targets
<1>20. ASSUME NEW p \in People, NEW s \in Commits, ResolveApproval(p, s)
      PROVE  BranchTypes'
  BY <1>20 DEF ResolveApproval, BranchTypes, Targets
<1>21. CASE UNCHANGED vars
  BY <1>21 DEF vars, BranchTypes, Targets
<1> QED
  BY <1>1, <1>2, <1>3, <1>4, <1>5, <1>6, <1>7, <1>8, <1>9, <1>10, <1>11, <1>12,
     <1>13, <1>14, <1>15, <1>16, <1>17, <1>18, <1>19, <1>20, <1>21 DEF Next,
     Handle

\* The branch moves by a merge that lands the pair it holds, and by no other step.
Landed ==
  \E c \in Callers :
    /\ caller[c].pc = "commit" /\ Verified(c)
    /\ log' = Append(log, [src |-> caller[c].src, tgt |-> target])

\* UpdateRefs alone extends the log.
LEMMA LogStep ==
  ASSUME [Next]_vars
  PROVE  log' = log \/ Landed
<1>1. ASSUME NEW c \in Callers, StartReview(c) PROVE log' = log \/ Landed
  BY <1>1 DEF StartReview
<1>2. ASSUME NEW c \in Callers, NEW p \in People, SubmitReviewAt(c, p)
      PROVE  log' = log \/ Landed
  BY <1>2 DEF SubmitReviewAt
<1>3. ASSUME NEW c \in Callers, Consider(c) PROVE log' = log \/ Landed
  BY <1>3 DEF Consider
<1>4. ASSUME NEW c \in Callers, MergeRun(c) PROVE log' = log \/ Landed
  BY <1>4 DEF MergeRun
<1>5. ASSUME NEW c \in Callers, ResolveForRun(c) PROVE log' = log \/ Landed
  BY <1>5 DEF ResolveForRun
<1>6. ASSUME NEW c \in Callers, RaiseApproval(c) PROVE log' = log \/ Landed
  BY <1>6 DEF RaiseApproval
<1>7. ASSUME NEW c \in Callers, RunGates(c) PROVE log' = log \/ Landed
  BY <1>7 DEF RunGates
<1>8. ASSUME NEW c \in Callers, CheckOpen(c) PROVE log' = log \/ Landed
  BY <1>8 DEF CheckOpen
<1>9. ASSUME NEW c \in Callers, PinSource(c) PROVE log' = log \/ Landed
  BY <1>9 DEF PinSource
<1>10. ASSUME NEW c \in Callers, PinTarget(c) PROVE log' = log \/ Landed
  BY <1>10 DEF PinTarget
<1>11. ASSUME NEW c \in Callers, MayMergePinned(c) PROVE log' = log \/ Landed
  BY <1>11 DEF MayMergePinned
<1>12. ASSUME NEW c \in Callers, MayMergeResolved(c) PROVE log' = log \/ Landed
  BY <1>12 DEF MayMergeResolved
<1>13. ASSUME NEW c \in Callers, CheckApproval(c) PROVE log' = log \/ Landed
  BY <1>13 DEF CheckApproval
<1>14. ASSUME NEW c \in Callers, MergeInClone(c) PROVE log' = log \/ Landed
  BY <1>14 DEF MergeInClone
<1>15. ASSUME NEW c \in Callers, UpdateRefs(c) PROVE log' = log \/ Landed
  BY <1>15 DEF UpdateRefs, At, Landed
<1>16. ASSUME NEW c \in Callers, SetRunState(c) PROVE log' = log \/ Landed
  BY <1>16 DEF SetRunState
<1>17. ASSUME NEW c \in Callers, Die(c) PROVE log' = log \/ Landed
  BY <1>17 DEF Die
<1>18. ASSUME Push PROVE log' = log \/ Landed
  BY <1>18 DEF Push
<1>19. ASSUME PushTarget PROVE log' = log \/ Landed
  BY <1>19 DEF PushTarget
<1>20. ASSUME NEW p \in People, NEW s \in Commits, ResolveApproval(p, s)
      PROVE  log' = log \/ Landed
  BY <1>20 DEF ResolveApproval
<1>21. CASE UNCHANGED vars
  BY <1>21 DEF vars
<1> QED
  BY <1>1, <1>2, <1>3, <1>4, <1>5, <1>6, <1>7, <1>8, <1>9, <1>10, <1>11, <1>12,
     <1>13, <1>14, <1>15, <1>16, <1>17, <1>18, <1>19, <1>20, <1>21 DEF Next,
     Handle

\* A merge that lands was judged and endorsed, and stays so.
LEMMA MergedStep ==
  ASSUME TypeOK, EvidenceInv, CallerInv, MergedAsJudged, MergedIsEndorsed, [Next]_vars
  PROVE  /\ log' \in Seq([src : Commits, tgt : Targets])
         /\ MergedAsJudged' /\ MergedIsEndorsed'
<1>1. EvidenceTypes /\ Grows
  BY EvidenceTyped, EvidenceStep DEF EvidenceGood
<1>2. \A i \in DOMAIN log : log[i].src \in Commits
  <2> DEFINE Entry == [src : Commits, tgt : Targets]
  <2>1. log \in Seq(Entry)
    BY DEF TypeOK
  <2>2. \A e \in Entry : e.src \in Commits
    OBVIOUS
  <2> HIDE DEF Entry
  <2> QED
    BY <2>1, <2>2
<1>3. CASE log' = log
  BY <1>1, <1>2, <1>3 DEF TypeOK, MergedAsJudged, MergedIsEndorsed, Grows
<1>4. CASE Landed
  <2>1. PICK c \in Callers :
          /\ caller[c].pc = "commit" /\ Verified(c)
          /\ log' = Append(log, [src |-> caller[c].src, tgt |-> target])
    BY <1>4 DEF Landed
  <2> DEFINE e == [src |-> caller[c].src, tgt |-> target]
  <2>2. /\ e.src \in Commits /\ <<e.src, e.tgt>> \in passed /\ e.src \in endorsed
        /\ e.src \in Governed => approval[e.src].state = "approved"
    BY <2>1 DEF Verified, AtTarget, CallerInv, CallerOK, Judged, HoldsSource
  <2>3. e \in [src : Commits, tgt : Targets]
    BY <2>2 DEF TypeOK
  <2>4. log' = Append(log, e) /\ log \in Seq([src : Commits, tgt : Targets])
    BY <2>1 DEF TypeOK
  <2> HIDE DEF e
  <2>5. /\ log' \in Seq([src : Commits, tgt : Targets])
        /\ \A i \in DOMAIN log' : log'[i] = e \/ (i \in DOMAIN log /\ log'[i] = log[i])
    BY <2>3, <2>4
  <2> QED
    BY <1>1, <1>2, <2>2, <2>5 DEF MergedAsJudged, MergedIsEndorsed, Grows
<1> QED
  BY <1>3, <1>4, LogStep

-----------------------------------------------------------------------------
(* The order of the merges *)

\* The branches: the source only grows unless it is reset, and the log grows only
\* with the target.
Tide ==
  /\ ~Resets => head <= head'
  /\ target' = target + 1 \/ (target' = target /\ log' = log)

\* Every step lets the branches grow.
LEMMA TideStep ==
  ASSUME TypeOK, [Next]_vars
  PROVE  Tide
<1>1. ASSUME NEW c \in Callers, StartReview(c) PROVE Tide
  BY <1>1 DEF StartReview, Tide, TypeOK
<1>2. ASSUME NEW c \in Callers, NEW p \in People, SubmitReviewAt(c, p) PROVE Tide
  BY <1>2 DEF SubmitReviewAt, Tide, TypeOK
<1>3. ASSUME NEW c \in Callers, Consider(c) PROVE Tide
  BY <1>3 DEF Consider, Tide, TypeOK
<1>4. ASSUME NEW c \in Callers, MergeRun(c) PROVE Tide
  BY <1>4 DEF MergeRun, Tide, TypeOK
<1>5. ASSUME NEW c \in Callers, ResolveForRun(c) PROVE Tide
  BY <1>5 DEF ResolveForRun, Tide, TypeOK
<1>6. ASSUME NEW c \in Callers, RaiseApproval(c) PROVE Tide
  BY <1>6 DEF RaiseApproval, Tide, TypeOK
<1>7. ASSUME NEW c \in Callers, RunGates(c) PROVE Tide
  BY <1>7 DEF RunGates, Tide, TypeOK
<1>8. ASSUME NEW c \in Callers, CheckOpen(c) PROVE Tide
  BY <1>8 DEF CheckOpen, Tide, TypeOK
<1>9. ASSUME NEW c \in Callers, PinSource(c) PROVE Tide
  BY <1>9 DEF PinSource, Tide, TypeOK
<1>10. ASSUME NEW c \in Callers, PinTarget(c) PROVE Tide
  BY <1>10 DEF PinTarget, Tide, TypeOK
<1>11. ASSUME NEW c \in Callers, MayMergePinned(c) PROVE Tide
  BY <1>11 DEF MayMergePinned, Tide, TypeOK
<1>12. ASSUME NEW c \in Callers, MayMergeResolved(c) PROVE Tide
  BY <1>12 DEF MayMergeResolved, Tide, TypeOK
<1>13. ASSUME NEW c \in Callers, CheckApproval(c) PROVE Tide
  BY <1>13 DEF CheckApproval, Tide, TypeOK
<1>14. ASSUME NEW c \in Callers, MergeInClone(c) PROVE Tide
  BY <1>14 DEF MergeInClone, Tide, TypeOK
<1>15. ASSUME NEW c \in Callers, UpdateRefs(c) PROVE Tide
  BY <1>15 DEF UpdateRefs, Tide, TypeOK
<1>16. ASSUME NEW c \in Callers, SetRunState(c) PROVE Tide
  BY <1>16 DEF SetRunState, Tide, TypeOK
<1>17. ASSUME NEW c \in Callers, Die(c) PROVE Tide
  BY <1>17 DEF Die, Tide, TypeOK
<1>18. ASSUME Push PROVE Tide
  BY <1>18 DEF Push, Tide, TypeOK
<1>19. ASSUME PushTarget PROVE Tide
  BY <1>19 DEF PushTarget, Tide, TypeOK
<1>20. ASSUME NEW p \in People, NEW s \in Commits, ResolveApproval(p, s)
      PROVE  Tide
  BY <1>20 DEF ResolveApproval, Tide, TypeOK
<1>21. CASE UNCHANGED vars
  BY <1>21 DEF vars, Tide, TypeOK
<1> QED
  BY <1>1, <1>2, <1>3, <1>4, <1>5, <1>6, <1>7, <1>8, <1>9, <1>10, <1>11, <1>12,
     <1>13, <1>14, <1>15, <1>16, <1>17, <1>18, <1>19, <1>20, <1>21 DEF Next,
     Handle

\* The handlers: one that means to merge a pair pinned its target last, and has
\* compared the pair only when the source was the head.
Aim(c) ==
  \/ caller'[c] = caller[c]
  \/ caller'[c].pc \notin Aimed
  \/ caller'[c].pc = "compare" /\ caller'[c].tgt = target
  \/ /\ caller[c].pc \in Aimed
     /\ caller'[c].src = caller[c].src /\ caller'[c].tgt = caller[c].tgt
     /\ caller'[c].pc \in Compared => caller[c].pc \in Compared \/ caller[c].src = head

\* Every step takes a handler no further than that.
LEMMA AimStep ==
  ASSUME TypeOK, CallerInv, [Next]_vars
  PROVE  \A d \in Callers : Aim(d)
<1>1. ASSUME NEW c \in Callers, StartReview(c) PROVE \A d \in Callers : Aim(d)
  BY <1>1, StartReviewEffect DEF Aim, Only, Aimed, Compared
<1>2. ASSUME NEW c \in Callers, NEW p \in People, SubmitReviewAt(c, p)
      PROVE  \A d \in Callers : Aim(d)
  BY <1>2, SubmitReviewAtEffect
  DEF Aim, Only, Aimed, Compared, Holding, HoldsSource
<1>3. ASSUME NEW c \in Callers, Consider(c) PROVE \A d \in Callers : Aim(d)
  BY <1>3, ConsiderEffect
  DEF Aim, Only, Aimed, Compared, Holding, HoldsSource
<1>4. ASSUME NEW c \in Callers, MergeRun(c) PROVE \A d \in Callers : Aim(d)
  BY <1>4, MergeRunEffect
  DEF Aim, Only, Aimed, Compared, Holding, HoldsSource
<1>5. ASSUME NEW c \in Callers, ResolveForRun(c) PROVE \A d \in Callers : Aim(d)
  BY <1>5, ResolveForRunEffect DEF Aim, Only, Aimed, Compared
<1>6. ASSUME NEW c \in Callers, RaiseApproval(c) PROVE \A d \in Callers : Aim(d)
  BY <1>6, RaiseApprovalEffect
  DEF Aim, Only, Aimed, Compared, Holding, HoldsSource
<1>7. ASSUME NEW c \in Callers, RunGates(c) PROVE \A d \in Callers : Aim(d)
  BY <1>7, RunGatesEffect
  DEF Aim, Only, Aimed, Compared, Holding, HoldsSource
<1>8. ASSUME NEW c \in Callers, CheckOpen(c) PROVE \A d \in Callers : Aim(d)
  BY <1>8, CheckOpenEffect
  DEF Aim, Only, Aimed, Compared, Holding, HoldsSource
<1>9. ASSUME NEW c \in Callers, PinSource(c) PROVE \A d \in Callers : Aim(d)
  BY <1>9, PinSourceEffect DEF Aim, Only, Aimed, Compared
<1>10. ASSUME NEW c \in Callers, PinTarget(c) PROVE \A d \in Callers : Aim(d)
  BY <1>10, PinTargetEffect DEF Aim, Only
<1>11. ASSUME NEW c \in Callers, MayMergePinned(c) PROVE \A d \in Callers : Aim(d)
  BY <1>11, MayMergePinnedEffect
  DEF Aim, Only, Aimed, Compared, Holding, HoldsSource, HalfCompared, PairCompared
<1>12. ASSUME NEW c \in Callers, MayMergeResolved(c) PROVE \A d \in Callers : Aim(d)
  BY <1>12, MayMergeResolvedEffect
  DEF Aim, Only, Aimed, Compared, Holding, HoldsSource
<1>13. ASSUME NEW c \in Callers, CheckApproval(c) PROVE \A d \in Callers : Aim(d)
  BY <1>13, CheckApprovalEffect
  DEF Aim, Only, Aimed, Compared, Holding, HoldsSource
<1>14. ASSUME NEW c \in Callers, MergeInClone(c) PROVE \A d \in Callers : Aim(d)
  BY <1>14, MergeInCloneEffect
  DEF Aim, Only, Aimed, Compared, Holding, HoldsSource
<1>15. ASSUME NEW c \in Callers, UpdateRefs(c) PROVE \A d \in Callers : Aim(d)
  BY <1>15, UpdateRefsEffect
  DEF Aim, Only, Aimed, Compared, Holding, HoldsSource
<1>16. ASSUME NEW c \in Callers, SetRunState(c) PROVE \A d \in Callers : Aim(d)
  BY <1>16, SetRunStateEffect
  DEF Aim, Only, Aimed, Compared, Holding, HoldsSource
<1>17. ASSUME NEW c \in Callers, Die(c) PROVE \A d \in Callers : Aim(d)
  BY <1>17, DieEffect
  DEF Aim, Only, Aimed, Compared, Holding, HoldsSource
<1>18. ASSUME Push PROVE \A d \in Callers : Aim(d)
  BY <1>18 DEF Push, Aim
<1>19. ASSUME PushTarget PROVE \A d \in Callers : Aim(d)
  BY <1>19 DEF PushTarget, Aim
<1>20. ASSUME NEW p \in People, NEW s \in Commits, ResolveApproval(p, s)
      PROVE  \A d \in Callers : Aim(d)
  BY <1>20 DEF ResolveApproval, Aim
<1>21. CASE UNCHANGED vars
  BY <1>21 DEF vars, Aim
<1> QED
  BY <1>1, <1>2, <1>3, <1>4, <1>5, <1>6, <1>7, <1>8, <1>9, <1>10, <1>11, <1>12,
     <1>13, <1>14, <1>15, <1>16, <1>17, <1>18, <1>19, <1>20, <1>21 DEF Next,
     Handle

\* Every step keeps the merges in order: a merge that lands was compared, and the
\* target has not moved since, so nothing newer has landed.
LEMMA OrderStep ==
  ASSUME TypeOK, CallerInv, ~Resets, OrderInv, LandsInOrder, [Next]_vars
  PROVE  OrderInv' /\ LandsInOrder'
<1>1. Tide /\ \A d \in Callers : Aim(d)
  BY TideStep, AimStep
<1>2. head \in Nat /\ head' \in Nat /\ target \in Nat /\ head <= head'
  <2>1. head \in Nat /\ target \in Nat
    BY DEF TypeOK, Targets
  <2>2. BranchTypes'
    BY BranchStep DEF TypeOK, BranchTypes
  <2>3. head' \in Nat
    BY <2>2 DEF BranchTypes
  <2> QED
    BY <1>1, <2>1, <2>3 DEF Tide
<1>3. \A c \in Callers : caller[c].src \in Nat /\ caller[c].tgt \in Nat
  <2>1. \A c \in Callers : caller[c] \in Handler
    BY CallersTyped DEF CallerTypes
  <2>2. \A n \in Commits \cup {0} : n \in Nat
    OBVIOUS
  <2>3. \A n \in Targets : n \in Nat
    BY DEF Targets
  <2>4. \A h \in Handler : h.src \in Nat /\ h.tgt \in Nat
    BY <2>2, <2>3 DEF Handler
  <2> QED
    BY <2>1, <2>4
<1>4. \A i \in DOMAIN log : log[i].src \in Nat
  <2> DEFINE Entry == [src : Commits, tgt : Targets]
  <2>1. log \in Seq(Entry)
    BY DEF TypeOK
  <2>2. \A e \in Entry : e.src \in Nat
    OBVIOUS
  <2> HIDE DEF Entry
  <2> QED
    BY <2>1, <2>2
<1>5. ASSUME NEW c \in Callers PROVE InOrder(c)'
  <2>1. InOrder(c) /\ Aim(c) /\ caller[c].src \in Nat /\ caller[c].tgt \in Nat
    BY <1>1, <1>3, <1>5 DEF OrderInv
  <2>2. caller'[c].pc \in Aimed => caller'[c].tgt <= target
    BY <1>2, <2>1 DEF Aim, InOrder
  <2>3. caller'[c].pc \in Compared =>
          /\ caller'[c].src <= head /\ caller'[c].src \in Nat
          /\ caller'[c].tgt = target => \A i \in DOMAIN log : log[i].src <= caller'[c].src
    BY <1>2, <2>1 DEF Aim, InOrder, OrderInv, Aimed, Compared
  <2>4. caller'[c].pc \in Compared => caller'[c].pc \in Aimed
    BY DEF Aimed
  <2>5. CASE target' = target /\ log' = log
    BY <1>2, <2>2, <2>3, <2>5 DEF InOrder
  <2>6. CASE target' = target + 1
    <3>1. caller'[c].pc \in Aimed => caller'[c].tgt # target' /\ caller'[c].tgt <= target'
      <4>1. caller'[c].pc \in Aimed => caller'[c].tgt \in Nat
        BY <1>2, <2>1 DEF Aim
      <4> QED
        BY <1>2, <2>2, <2>6, <4>1
    <3> QED
      BY <1>2, <2>3, <2>4, <3>1 DEF InOrder
  <2> QED
    BY <1>1, <2>5, <2>6 DEF Tide
<1>6. (\A i \in DOMAIN log' : log'[i].src <= head') /\ LandsInOrder'
  <2>1. CASE log' = log
    BY <1>2, <1>4, <2>1 DEF OrderInv, LandsInOrder
  <2>2. CASE Landed
    <3>1. PICK c \in Callers :
            /\ caller[c].pc = "commit" /\ Verified(c)
            /\ log' = Append(log, [src |-> caller[c].src, tgt |-> target])
      BY <2>2 DEF Landed
    <3> DEFINE e == [src |-> caller[c].src, tgt |-> target]
    <3>2. /\ e.src \in Nat /\ e.src <= head
          /\ \A i \in DOMAIN log : log[i].src <= e.src
      BY <1>3, <3>1 DEF OrderInv, InOrder, Compared, Verified, AtTarget
    <3>3. log' = Append(log, e) /\ log \in Seq([src : Commits, tgt : Targets])
      BY <3>1 DEF TypeOK
    <3> HIDE DEF e
    <3>4. /\ DOMAIN log' = 1 .. Len(log) + 1 /\ DOMAIN log = 1 .. Len(log)
          /\ Len(log) \in Nat
          /\ \A i \in 1 .. Len(log) : log'[i] = log[i]
          /\ log'[Len(log) + 1] = e
      BY <3>3
    <3>5. \A i \in DOMAIN log' : i = Len(log) + 1 \/ i \in DOMAIN log
      BY <3>4
    <3>6. \A i \in DOMAIN log' : log'[i].src <= head'
      BY <1>2, <1>4, <3>2, <3>4, <3>5 DEF OrderInv
    <3>7. ASSUME NEW i \in DOMAIN log', NEW j \in DOMAIN log', i < j
          PROVE  log'[i].src <= log'[j].src
      <4>1. i \in DOMAIN log
        BY <3>4, <3>7
      <4>2. CASE j \in DOMAIN log
        BY <3>4, <3>7, <4>1, <4>2 DEF LandsInOrder
      <4>3. CASE j = Len(log) + 1
        BY <3>2, <3>4, <4>1, <4>3
      <4> QED
        BY <3>5, <4>2, <4>3
    <3> QED
      BY <3>6, <3>7 DEF LandsInOrder
  <2> QED
    BY <2>1, <2>2, LogStep
<1> QED
  BY <1>5, <1>6 DEF OrderInv

\* Every step keeps the invariant.
LEMMA NextIInv == IInv /\ [Next]_vars => IInv'
<1> SUFFICES ASSUME IInv, [Next]_vars PROVE IInv'
  OBVIOUS
<1> USE DEF IInv
<1>1. EvidenceGood /\ CallerInv'
  BY EvidenceTyped, EvidenceStep, CallerStep
<1>2. CallerTypes'
  BY CallersTyped, CallerTypeStep
<1>3. BranchTypes'
  BY BranchStep DEF TypeOK, BranchTypes
<1>4. log' \in Seq([src : Commits, tgt : Targets]) /\ MergedAsJudged' /\ MergedIsEndorsed'
  BY MergedStep
<1>5. TypeOK'
  BY <1>1, <1>2, <1>3, <1>4
  DEF TypeOK, EvidenceGood, EvidenceTypes, CallerTypes, BranchTypes, Handler, Step, Request
<1>6. (~Resets => OrderInv') /\ LandsInOrder'
  <2>1. CASE ~Resets
    BY <2>1, OrderStep
  <2>2. CASE Resets
    BY <2>2 DEF LandsInOrder
  <2> QED
    BY <2>1, <2>2
<1> QED
  BY <1>1, <1>4, <1>5, <1>6 DEF EvidenceGood

\* The invariant holds throughout.
LEMMA Invariance == Spec => []IInv
BY InitIInv, NextIInv, PTL DEF Spec

-----------------------------------------------------------------------------
(* Results *)

\* The rows, branches and handlers of the merge path keep their types.
THEOREM TypeCorrect == Spec => []TypeOK
<1>1. IInv => TypeOK
  BY DEF IInv
<1> QED
  BY <1>1, Invariance, PTL

\* Merger.Merge and Controller.MayMergePinned: whatever pushes, reviews, decisions
\* and handlers interleave, what lands passed its gates against the revision it
\* lands on, and its governed actions were approved for that revision.
THEOREM MergesAreJudged == Spec => []MergedAsJudged
<1>1. IInv => MergedAsJudged
  BY DEF IInv
<1> QED
  BY <1>1, Invariance, PTL

\* hasIndependentApproval: what lands was approved by somebody else than its author.
THEOREM MergesAreEndorsed == Spec => []MergedIsEndorsed
<1>1. IInv => MergedIsEndorsed
  BY DEF IInv
<1> QED
  BY <1>1, Invariance, PTL

\* Controller.MayMergePinned and mergeRefs: unless the source branch is forced back,
\* no handler lands an older revision of it after a newer one, not even from a fork,
\* whose branch the reference transaction cannot name.
THEOREM MergesLandInOrder == Spec => []LandsInOrder
<1>1. IInv => LandsInOrder
  BY DEF IInv
<1> QED
  BY <1>1, Invariance, PTL
=============================================================================
