------------------------------- MODULE Delivery -------------------------------
(* The delivery step of a task (delivery.rs, delivery_policy.rs and its       *)
(* submodules): pull request, checks, authorization, merge, deployment.       *)
(*                                                                            *)
(* GitHub, the operator and the reviewers change what the step reads at any   *)
(* time: the base branch, the approvals and checks, the operator's policy,    *)
(* the task's revision, the pull request itself.  Each is a version that only *)
(* advances.  The step may die anywhere and be attempted again.               *)
EXTENDS Naturals, FiniteSets

CONSTANTS MaxDrift,     \* bound: changes made by others
          MaxTries      \* bound: attempts of the delivery step

ASSUME DlBounds == MaxDrift \in Nat /\ MaxTries \in Nat

VARIABLES
  dlAuto,       \* automatic_delivery.enabled in the frozen settings
  dlPolicy,     \* version of the operator's policy; the task froze version 0
  dlQual,       \* policy version the enrolled qualification is for, or -1: none
  dlRev,        \* task revision, with the review evidence bound to it
  dlHead,       \* head of the Run workspace
  dlBase,       \* base branch on GitHub
  dlSignals,    \* check runs and approvals on GitHub
  dlPr,         \* the pull request: state, head, parent of its merge
  dlPreflight,  \* delivery_preflights: revision and head, or <<>>
  dlAuths,      \* delivery_authorizations
  dlIntent,     \* delivery_merge_intents: the authorization, or <<>>
  dlDone,       \* result of the step: "no", "pr_ready", "complete"
  dlTry,        \* the running attempt
  dlTries, dlDrift,
  dlIssued,     \* history: merge commands sent: attempt and head
  dlTogether    \* history: facts that held at the instant of each decision

dlVars == <<dlAuto, dlPolicy, dlQual, dlRev, dlHead, dlBase, dlSignals, dlPr, dlPreflight,
            dlAuths, dlIntent, dlDone, dlTry, dlTries, dlDrift, dlIssued, dlTogether>>

dlWorld == <<dlPolicy, dlQual, dlRev, dlHead, dlBase, dlSignals>>
dlRows  == <<dlPreflight, dlAuths, dlIntent>>
dlPast  == <<dlTries, dlDrift, dlIssued, dlTogether>>

NoPr  == [state |-> "none", head |-> 0, parent |-> 0]
NoTry == [pc |-> "idle", head |-> 0, base |-> 0, signals |-> 0, id |-> <<>>]

DlInit ==
  /\ dlAuto \in BOOLEAN
  /\ dlPolicy = 0 /\ dlQual \in {0} \cup (IF dlAuto THEN {0 - 1} ELSE {})
  /\ dlRev = 0 /\ dlHead = 1 /\ dlBase = 0 /\ dlSignals = 0
  /\ dlPr = NoPr
  /\ dlPreflight = <<>> /\ dlAuths = {} /\ dlIntent = <<>>
  /\ dlDone = "no"
  /\ dlTry = NoTry /\ dlTries = 0 /\ dlDrift = 0
  /\ dlIssued = {} /\ dlTogether = {}

-----------------------------------------------------------------------------
(* current_policy: the operator's policy is the frozen one and a held-out      *)
(* qualification is enrolled for it.                                          *)
PolicyCurrent == dlPolicy = 0 /\ dlQual = 0

(* The revision that independent reviews of the task are about, and the pair of *)
(* it and the head that review_snapshot makes.                                *)
ReviewedRevision == dlRev
ReviewSnapshot == <<ReviewedRevision, dlHead>>

(* What GitHub answers: the base under its protection, checks and approvals.    *)
BaseOid == dlBase
CheckSignals == dlSignals

(* preflight_snapshot: the reviewed revision and head are the present ones.    *)
SnapshotFresh(h) == dlPreflight = ReviewSnapshot /\ dlHead = h

DlAt(pc)   == dlTry.pc = pc
DlGoTo(pc) == dlTry' = [dlTry EXCEPT !.pc = pc]

(* preflight: reviews are read once and pinned; later attempts must match.     *)

Preflight ==
  IF dlAuto
  THEN /\ PolicyCurrent
       /\ dlPreflight \in {<<>>, ReviewSnapshot}
       /\ dlPreflight' = ReviewSnapshot
  ELSE UNCHANGED dlPreflight

(* execute: the list of pull requests comes first.                            *)
DlStart ==
  /\ dlTry = NoTry /\ dlTries < MaxTries /\ dlDone = "no"
  /\ dlTry' = [NoTry EXCEPT !.head = dlHead, !.pc = "list"]
  /\ dlTries' = dlTries + 1
  /\ UNCHANGED <<dlAuto, dlWorld, dlPr, dlRows, dlDone, dlDrift, dlIssued, dlTogether>>

(* gh pr list                                                                 *)
DlList ==
  /\ DlAt("list")
  /\ DlGoTo(CASE dlPr.state = "none" -> "new" [] dlPr.state = "merged" -> "pr" [] OTHER -> dlPr.state)
  /\ UNCHANGED <<dlAuto, dlWorld, dlPr, dlRows, dlDone, dlPast>>

(* preflight, unless the answer was a merged pull request; a closed one ends it *)
DlPreflight ==
  /\ dlTry.pc \in {"new", "open", "closed"} /\ Preflight
  /\ IF DlAt("closed") THEN dlTry' = NoTry ELSE DlGoTo(IF DlAt("new") THEN "create" ELSE "pr")
  /\ UNCHANGED <<dlAuto, dlWorld, dlPr, dlAuths, dlIntent, dlDone, dlPast>>

(* push and gh pr create                                                      *)
CreatePr ==
  /\ DlAt("create") /\ dlPr.state = "none"
  /\ dlPr' = [state |-> "open", head |-> dlHead, parent |-> 0]
  /\ DlGoTo("pr")
  /\ UNCHANGED <<dlAuto, dlWorld, dlRows, dlDone, dlPast>>

(* The pull request must carry the integrated head; then its checks pass.      *)
ObserveChecks ==
  /\ DlAt("pr")
  /\ dlPr.head = dlTry.head
  /\ IF dlPr.state = "merged" THEN DlGoTo("merged")
     ELSE dlPr.state = "open" /\ DlGoTo(IF dlAuto THEN "base" ELSE "merge")
  /\ UNCHANGED <<dlAuto, dlWorld, dlPr, dlRows, dlDone, dlPast>>

(* settings.delivery.merge is off: the step ends with the pull request ready.  *)
PrReady ==
  /\ DlAt("merge") /\ ~dlAuto
  /\ dlDone' = "pr_ready" /\ dlTry' = NoTry
  /\ UNCHANGED <<dlAuto, dlWorld, dlPr, dlRows, dlPast>>

-----------------------------------------------------------------------------
(* authorize_merge: the facts are read one call at a time, the decision model  *)
(* may veto, and every fact is read again and compared.                       *)
ReadBase ==
  /\ DlAt("base")
  /\ PolicyCurrent /\ SnapshotFresh(dlTry.head)
  /\ dlPr.state = "open" /\ dlPr.head = dlTry.head
  /\ dlTry' = [dlTry EXCEPT !.pc = "signals", !.base = BaseOid]
  /\ UNCHANGED <<dlAuto, dlWorld, dlPr, dlRows, dlDone, dlPast>>

ReadSignals ==
  /\ DlAt("signals")
  /\ dlTry' = [dlTry EXCEPT !.pc = "decide", !.signals = CheckSignals]
  /\ UNCHANGED <<dlAuto, dlWorld, dlPr, dlRows, dlDone, dlPast>>

Facts(rev, base, signals, head) == <<rev, base, signals, head>>

DecideRoutine ==
  /\ DlAt("decide")
  /\ DlGoTo("again")
  /\ dlTogether' = dlTogether \cup
       {<<dlTries, Facts(dlRev, dlBase, dlSignals, IF dlPr.state = "open" THEN dlPr.head ELSE 0)>>}
  /\ UNCHANGED <<dlAuto, dlWorld, dlPr, dlRows, dlDone, dlTries, dlDrift, dlIssued>>

ReadBaseAgain ==
  /\ DlAt("again")
  /\ PolicyCurrent /\ SnapshotFresh(dlTry.head)
  /\ BaseOid = dlTry.base
  /\ dlPr.state = "open" /\ dlPr.head = dlTry.head
  /\ DlGoTo("again2")
  /\ UNCHANGED <<dlAuto, dlWorld, dlPr, dlRows, dlDone, dlPast>>

(* Checks and approvals again; the authorization's identity covers the facts   *)
(* and the decision, which is new in every attempt.                           *)
SameSignalsAny == TRUE
SameSignals == CheckSignals = dlTry.signals
Authorize ==
  /\ DlAt("again2")
  /\ SameSignals
  /\ LET a == [try |-> dlTries, head |-> dlTry.head, base |-> dlTry.base,
               signals |-> dlTry.signals, rev |-> dlPreflight[1]] IN
       /\ dlAuths' = dlAuths \cup {a}
       /\ dlTry' = [dlTry EXCEPT !.pc = "intent", !.id = <<a>>]
  /\ UNCHANGED <<dlAuto, dlWorld, dlPr, dlPreflight, dlIntent, dlDone, dlPast>>

(* record_merge_intent: one per task, written before the merge.               *)
IntentAgrees == dlIntent \in {<<>>, dlTry.id}

RecordMergeIntent ==
  /\ DlAt("intent")
  /\ IntentAgrees
  /\ dlIntent' = IF dlIntent = <<>> THEN dlTry.id ELSE dlIntent
  /\ DlGoTo("boundary")
  /\ UNCHANGED <<dlAuto, dlWorld, dlPr, dlPreflight, dlAuths, dlDone, dlPast>>

(* validate_merge_boundary                                                    *)
MergeBoundary ==
  /\ DlAt("boundary")
  /\ PolicyCurrent
  /\ DlGoTo("merge")
  /\ UNCHANGED <<dlAuto, dlWorld, dlPr, dlRows, dlDone, dlPast>>

(* gh pr merge --squash --match-head-commit: GitHub takes the merge or refuses *)
(* it; the answer may be lost.                                                *)
MatchHead == dlPr.head = dlTry.head
GhMerge ==
  /\ DlAt("merge")
  /\ dlIssued' = dlIssued \cup {[try |-> dlTries, head |-> dlTry.head]}
  /\ \/ /\ dlPr.state = "open" /\ MatchHead
        /\ dlPr' = [dlPr EXCEPT !.state = "merged", !.parent = dlBase]
        /\ \/ DlGoTo("merged")
           \/ dlTry' = NoTry
     \/ UNCHANGED dlPr /\ dlTry' = NoTry
  /\ UNCHANGED <<dlAuto, dlWorld, dlRows, dlDone, dlTries, dlDrift, dlTogether>>

(* require_prior_authorization and merge_parent_matches                       *)
ParentMatches == dlPr.parent = dlIntent[1].base
MergeRecorded ==
  /\ DlAt("merged")
  /\ dlAuto =>
       /\ SnapshotFresh(dlTry.head)
       /\ dlIntent # <<>>
       /\ dlIntent[1].head = dlTry.head
       /\ ParentMatches
  /\ DlGoTo("deploy")
  /\ UNCHANGED <<dlAuto, dlWorld, dlPr, dlRows, dlDone, dlPast>>

(* Deployment run, health, version and smoke of the merge commit.             *)
Deployed ==
  /\ DlAt("deploy")
  /\ dlDone' = "complete" /\ dlTry' = NoTry
  /\ UNCHANGED <<dlAuto, dlWorld, dlPr, dlRows, dlPast>>

(* A failed call, an error return, cancellation, or the death of the attempt.  *)
DlGiveUp ==
  /\ dlTry # NoTry
  /\ dlTry' = NoTry
  /\ UNCHANGED <<dlAuto, dlWorld, dlPr, dlRows, dlDone, dlPast>>

-----------------------------------------------------------------------------
(* Others.                                                                    *)
Drifts == dlDrift < MaxDrift /\ dlDrift' = dlDrift + 1

(* Pushes to the base, new or withdrawn reviews and checks, a new revision of  *)
(* the task's context, integration of more work, a changed policy.            *)
WorldMoves ==
  /\ Drifts
  /\ \/ dlBase' = dlBase + 1 /\ UNCHANGED <<dlPolicy, dlQual, dlRev, dlHead, dlSignals>>
     \/ dlSignals' = dlSignals + 1 /\ UNCHANGED <<dlPolicy, dlQual, dlRev, dlHead, dlBase>>
     \/ dlRev' = dlRev + 1 /\ UNCHANGED <<dlPolicy, dlQual, dlHead, dlBase, dlSignals>>
     \/ dlHead' = dlHead + 1 /\ UNCHANGED <<dlPolicy, dlQual, dlRev, dlBase, dlSignals>>
     \/ dlPolicy' = dlPolicy + 1 /\ UNCHANGED <<dlQual, dlRev, dlHead, dlBase, dlSignals>>
  /\ UNCHANGED <<dlAuto, dlPr, dlRows, dlDone, dlTry, dlTries, dlIssued, dlTogether>>

(* enroll_qualification: for the operator's policy of the moment, once.       *)
EnrollQualification ==
  /\ dlAuto /\ dlQual = 0 - 1
  /\ dlQual' = dlPolicy
  /\ UNCHANGED <<dlAuto, dlPolicy, dlRev, dlHead, dlBase, dlSignals, dlPr, dlRows, dlDone, dlTry,
                 dlPast>>

(* Somebody pushes to the pull request's branch, merges it or closes it.       *)
PrMoves ==
  /\ Drifts /\ dlPr.state = "open"
  /\ dlPr' \in {[dlPr EXCEPT !.head = 9],
                [dlPr EXCEPT !.state = "merged", !.parent = dlBase],
                [dlPr EXCEPT !.state = "closed"]}
  /\ UNCHANGED <<dlAuto, dlWorld, dlRows, dlDone, dlTry, dlTries, dlIssued, dlTogether>>

DlSteps ==
  \/ DlStart \/ DlList \/ DlPreflight \/ CreatePr \/ ObserveChecks \/ PrReady
  \/ ReadBase \/ ReadSignals \/ DecideRoutine \/ ReadBaseAgain \/ Authorize
  \/ RecordMergeIntent \/ MergeBoundary \/ GhMerge \/ MergeRecorded \/ Deployed \/ DlGiveUp

DlNext == DlSteps \/ WorldMoves \/ EnrollQualification \/ PrMoves

DlSpec == DlInit /\ [][DlNext]_dlVars

-----------------------------------------------------------------------------
(* Types.                                                                     *)
DlTypeOK ==
  /\ dlPr.state \in {"none", "open", "merged", "closed"}
  /\ dlDone \in {"no", "pr_ready", "complete"}
  /\ dlQual \in {0 - 1} \cup Nat
  /\ \A a \in dlAuths : a.rev \in Nat /\ a.head \in 1 .. 9
  /\ dlIntent # <<>> => dlIntent[1] \in dlAuths
  /\ dlTry.pc = "merge" /\ dlAuto => dlIntent = dlTry.id

(* An authorization describes one instant: the revision, base, checks,        *)
(* approvals and pull request it records were all so at the moment of the     *)
(* decision, although each was read by a call of its own.                     *)
AuthorizedTogether ==
  \A a \in dlAuths : <<a.try, Facts(a.rev, a.base, a.signals, a.head)>> \in dlTogether

(* Automatic delivery sends at most one merge command for a task, whatever    *)
(* crashes, lost answers and retries happen.                                  *)
MergeSentOnce == dlAuto => Cardinality(dlIssued) <= 1

(* What this step merges is the head it was asked to deliver, even when       *)
(* somebody pushed to the pull request after its checks passed.               *)
MergedHeadIsOurs ==
  [][dlIssued' # dlIssued /\ dlPr.state = "open" /\ dlPr'.state = "merged" =>
       dlPr'.head = dlTry.head]_dlVars

(* Completed automatic delivery means that the head of the recorded intent was *)
(* merged onto the base it was authorized for, even if others merged the pull *)
(* request or moved the base first.                                           *)
CompleteAsAuthorized ==
  dlDone = "complete" /\ dlAuto =>
    /\ dlIntent # <<>>
    /\ dlPr.state = "merged"
    /\ dlPr.head = dlIntent[1].head /\ dlPr.parent = dlIntent[1].base

(* Nothing is merged automatically for a task whose review evidence is older  *)
(* than the work: every authorization is for the reviewed head.               *)
ReviewedHeadOnly ==
  \A a \in dlAuths : dlPreflight = <<a.rev, a.head>>

\* The invariants together: what every request, crash and retry above must preserve.
DlInv ==
  /\ DlTypeOK
  /\ AuthorizedTogether
  /\ MergeSentOnce
  /\ CompleteAsAuthorized
  /\ ReviewedHeadOnly
=============================================================================
