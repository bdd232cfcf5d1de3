----------------------------- MODULE Delegation -----------------------------
(***************************************************************************)
(* The task tree of one root (delegation.rs): delegated children with      *)
(* their limits and request ids, the family's context version, questions   *)
(* that climb the tree, and the acceptance of a child's result by its      *)
(* parent (federation.rs integrate_child, import_foreign_child and the     *)
(* controller's child_result and child_verified).                          *)
(*                                                                         *)
(* Requests run on threads of their own: what a handler reads before its   *)
(* transaction may be old when the transaction runs. Such handlers are two *)
(* actions here, the read and the commit.                                  *)
(***************************************************************************)
EXTENDS Naturals, FiniteSets

CONSTANTS
  Children,      \* ids of tasks that may be delegated
  Remote,        \* children whose parent's worker integrates from another runtime
  RequestIds,    \* request ids of delegate_task
  ChildLimit, DepthLimit,
  Answers,
  MaxContextVersion, MaxRevision   \* bounds

ASSUME DelegationAssumption ==
  Remote \subseteq Children /\ ChildLimit \in Nat /\ DepthLimit \in Nat
    /\ MaxContextVersion \in Nat /\ MaxRevision \in Nat

VARIABLES
  par, reqOf,   \* task_tree.parent and request_id of a delegated child
  dst,          \* tasks.status
  ctx,          \* task_tree.version, equal for the whole family
  rev,          \* revisions of a child's plan
  acc,          \* child_acceptance: [version, rev], rev being what was really integrated
  imp,          \* an integration under way: [ver, plan, snap]
  asked,        \* delegate_task calls that found no child for their request
  q,            \* one routed question: [origin, target, answer]
  replies,      \* answers whose checks have passed
  settling      \* tasks found complete by settle, whose status is written next

treeVars == <<par, reqOf, dst, ctx, rev, acc, imp, asked, q, replies, settling>>

Root    == "root"
NoTask  == "none"
Tasks   == Children \cup {Root}
Outside == "caller"                    \* target NULL: the external caller of the root
NoAcc   == [version |-> 0, rev |-> 0]
NoImp   == [ver |-> 0, plan |-> 0, snap |-> 0]
NoQuestion == [origin |-> NoTask, target |-> NoTask, answer |-> "null"]
Exists(t)   == dst[t] # "none"
KidsOf(t)   == {c \in Children : par[c] = t}
Above(t)    == IF t = Root THEN {} ELSE {par[t]} \cup (IF par[t] = Root THEN {} ELSE {Root})
DepthOf(t)  == Cardinality(Above(t))

TreeInit ==
  /\ par = [c \in Children |-> NoTask] /\ reqOf = [c \in Children |-> "none"]
  /\ dst = [t \in Tasks |-> IF t = Root THEN "running" ELSE "none"]
  /\ ctx = 1 /\ rev = [c \in Children |-> 0] /\ acc = [c \in Children |-> NoAcc]
  /\ imp = [c \in Children |-> NoImp] /\ asked = {} /\ q = NoQuestion /\ replies = {}
  /\ settling = {}
-----------------------------------------------------------------------------
(* delegate_task.                                                          *)

DelegateAsk(p, r) ==
  /\ Exists(p) /\ ~(\E c \in Children : par[c] = p /\ reqOf[c] = r)
  /\ asked' = asked \cup {<<p, r, 1>>, <<p, r, 2>>}       \* a call and its retry
  /\ asked # asked'
  /\ UNCHANGED <<par, reqOf, dst, ctx, rev, acc, imp, q, replies, settling>>
\* The transaction counts again; UNIQUE(parent, request_id) refuses a second child.
Insert(a, c) ==
  /\ a \in asked /\ par[c] = NoTask /\ asked' = asked \ {a}
  /\ par' = [par EXCEPT ![c] = a[1]] /\ reqOf' = [reqOf EXCEPT ![c] = a[2]]
  /\ dst' = [t \in Tasks |-> IF t = c THEN "running"
                             ELSE IF t = a[1] /\ dst[t] = "succeeded" THEN "running" ELSE dst[t]]
  /\ UNCHANGED <<ctx, rev, acc, imp, q, replies, settling>>
WithinLimits(p) ==
  Cardinality({c \in Children : par[c] # NoTask}) < ChildLimit /\ DepthOf(p) < DepthLimit
Delegate(a, c) ==
  /\ WithinLimits(a[1]) /\ ~(\E k \in Children : par[k] = a[1] /\ reqOf[k] = a[2])
  /\ Insert(a, c)
-----------------------------------------------------------------------------
(* The family's context and its questions.                                 *)

Stale(d) == [t \in Tasks |-> IF d[t] = "succeeded" THEN "blocked" ELSE d[t]]
UpdateContext ==
  /\ ctx < MaxContextVersion /\ ctx' = ctx + 1 /\ dst' = Stale(dst)
  /\ UNCHANGED <<par, reqOf, rev, acc, imp, asked, q, replies, settling>>

\* ask without a worker: the asking task waits.
Ask(t) ==
  /\ q = NoQuestion /\ Exists(t) /\ dst[t] \notin {"cancelled"}
  /\ q' = [origin |-> t, target |-> IF t = Root THEN Outside ELSE par[t], answer |-> "null"]
  /\ dst' = [dst EXCEPT ![t] = IF @ = "running" THEN "waiting" ELSE @]
  /\ UNCHANGED <<par, reqOf, ctx, rev, acc, imp, asked, replies, settling>>
Escalate ==
  /\ q # NoQuestion /\ q.answer = "null" /\ q.target # Outside
  /\ q' = [q EXCEPT !.target = IF @ = Root THEN Outside ELSE par[@]]
  /\ UNCHANGED <<par, reqOf, dst, ctx, rev, acc, imp, asked, replies, settling>>
\* question_action: route and answer are read before the transaction.
AnswerRead(by, a) ==
  /\ q # NoQuestion /\ q.target = by /\ q.answer \in {"null", a}
  /\ replies' = replies \cup {a}
  /\ UNCHANGED <<par, reqOf, dst, ctx, rev, acc, imp, asked, q, settling>>
\* The context record answer:<question> has a primary key: a second answer that also saw
\* none fails with its whole transaction.
Answered(a) ==
  /\ a \in replies /\ replies' = replies \ {a} /\ ctx < MaxContextVersion /\ ctx' = ctx + 1
  /\ q' = [q EXCEPT !.answer = a]
  /\ dst' = Stale([dst EXCEPT ![q.origin] = IF @ = "waiting" THEN "running" ELSE @])
  /\ UNCHANGED <<par, reqOf, rev, acc, imp, asked, settling>>
AnswerParked(a) ==
  /\ q.answer = "null" /\ a \in replies /\ replies' = replies \ {a} /\ ctx < MaxContextVersion
  /\ ctx' = ctx + 1 /\ q' = [q EXCEPT !.answer = a] /\ dst' = Stale(dst)
  /\ UNCHANGED <<par, reqOf, rev, acc, imp, asked, settling>>
AnswerQuestion(a) == q.answer = "null" /\ Answered(a)
AnswerRefused(a) ==
  /\ a \in replies /\ q.answer # "null" /\ replies' = replies \ {a}
  /\ UNCHANGED <<par, reqOf, dst, ctx, rev, acc, imp, asked, q, settling>>
-----------------------------------------------------------------------------
(* A child's work and its revision.                                        *)

\* child_completion: every child has succeeded and is accepted at the present version.
ChildCompletion(t) ==
  \A c \in KidsOf(t) : dst[c] = "succeeded" /\ acc[c].version = ctx
SettleRead(t) ==
  /\ dst[t] = "running" /\ ChildCompletion(t) /\ t \notin settling
  /\ settling' = settling \cup {t}
  /\ UNCHANGED <<par, reqOf, dst, ctx, rev, acc, imp, asked, q, replies>>
SettleWrite(t) ==
  /\ t \in settling /\ settling' = settling \ {t}
  /\ dst' = [dst EXCEPT ![t] = IF @ = "running" THEN "succeeded" ELSE @]
  /\ UNCHANGED <<par, reqOf, ctx, rev, acc, imp, asked, q, replies>>
ResumeTask(t) ==
  /\ dst[t] = "blocked" /\ dst' = [dst EXCEPT ![t] = "running"]
  /\ UNCHANGED <<par, reqOf, ctx, rev, acc, imp, asked, q, replies, settling>>
CancelChild(c) ==
  /\ dst[c] \in {"running", "waiting", "blocked"} /\ dst' = [dst EXCEPT ![c] = "cancelled"]
  /\ UNCHANGED <<par, reqOf, ctx, rev, acc, imp, asked, q, replies, settling>>

\* add_steps on a child: invalidate_acceptance drops its acceptance and those of its
\* ancestors, and reopens every one of them that had succeeded.
ReviseChild(c) ==
  LET up == {c} \cup Above(c)
  IN  /\ par[c] # NoTask /\ rev[c] < MaxRevision /\ rev' = [rev EXCEPT ![c] = @ + 1]
      /\ acc' = [k \in Children |-> IF k \in up THEN NoAcc ELSE acc[k]]
      /\ dst' = [t \in Tasks |-> IF t \in up /\ dst[t] = "succeeded" THEN "running" ELSE dst[t]]
      /\ UNCHANGED <<par, reqOf, ctx, imp, asked, q, replies, settling>>
-----------------------------------------------------------------------------
(* Integration of a child's result: its snapshot is taken, then its plan   *)
(* is read, then Git works, and the acceptance is written if nothing that  *)
(* was read has changed. A remote parent reads the snapshot by child_result*)
(* and reports with child_verified, which compares the version only.       *)

TakeSnapshot(c) ==
  /\ par[c] # NoTask /\ dst[c] = "succeeded" /\ acc[c].version # ctx /\ imp[c] = NoImp
  /\ imp' = [imp EXCEPT ![c] = [ver |-> ctx, plan |-> MaxRevision + 1, snap |-> rev[c]]]
  /\ UNCHANGED <<par, reqOf, dst, ctx, rev, acc, asked, q, replies, settling>>
ReadPlan(c) ==
  /\ imp[c] # NoImp /\ imp[c].plan = MaxRevision + 1 /\ c \notin Remote
  /\ imp' = [imp EXCEPT ![c].plan = rev[c]]
  /\ UNCHANGED <<par, reqOf, dst, ctx, rev, acc, asked, q, replies, settling>>
Unchanged(c)    == dst[c] = "succeeded" /\ ctx = imp[c].ver /\ (c \in Remote \/ imp[c].plan = rev[c])
AcceptChild(c) ==
  /\ imp[c] # NoImp /\ (c \in Remote \/ imp[c].plan <= MaxRevision)
  /\ acc' = IF Unchanged(c) THEN [acc EXCEPT ![c] = [version |-> imp[c].ver, rev |-> imp[c].snap]]
            ELSE acc
  /\ imp' = [imp EXCEPT ![c] = NoImp]
  /\ UNCHANGED <<par, reqOf, dst, ctx, rev, asked, q, replies, settling>>
-----------------------------------------------------------------------------
TreeGrows ==
  \/ \E p \in Tasks, r \in RequestIds : DelegateAsk(p, r)
  \/ \E a \in asked, c \in Children : Delegate(a, c)
TreeAsks ==
  \/ Escalate \/ \E t \in Tasks : Ask(t)
  \/ \E by \in Tasks \cup {Outside}, a \in Answers : AnswerRead(by, a)
  \/ \E a \in Answers : AnswerQuestion(a) \/ AnswerRefused(a)
TreeSettles == \E t \in Tasks : SettleRead(t) \/ SettleWrite(t) \/ ResumeTask(t)
TreeAccepts ==
  \/ UpdateContext
  \/ \E c \in Children : \/ CancelChild(c) \/ ReviseChild(c) \/ TakeSnapshot(c)
                         \/ ReadPlan(c) \/ AcceptChild(c)
TreeNext == TreeGrows \/ TreeAsks \/ TreeSettles \/ TreeAccepts
TreeSpec == TreeInit /\ [][TreeNext]_treeVars
-----------------------------------------------------------------------------
\* Types, and the bounds of the tree: concurrent delegations, each of which saw room,
\* never exceed its size or its depth.
TreeTypeOK ==
  /\ par \in [Children -> Tasks \cup {NoTask}] /\ dst \in [Tasks -> {"none", "running", "waiting",
                                              "blocked", "succeeded", "cancelled"}]
  /\ Cardinality({c \in Children : par[c] # NoTask}) <= ChildLimit
  /\ \A c \in Children : par[c] # NoTask => DepthOf(c) <= DepthLimit

\* A retried delegate_task makes no second child, also when both calls found none.
OneChildPerRequest ==
  \A c, k \in Children : (par[c] = par[k] /\ par[c] # NoTask /\ reqOf[c] = reqOf[k]) => c = k

\* A question has one answer for ever, although callers check before their transaction.
AnswerStable == [][q.answer # "null" => q'.answer = q.answer]_treeVars

\* No task waits without an open question of its own.
WaitsForAnswer ==
  \A t \in Tasks : dst[t] = "waiting" => q.origin = t /\ q.answer = "null"

\* The invariants together: what every request, crash and retry above must preserve.
TreeInv ==
  /\ TreeTypeOK
  /\ OneChildPerRequest
  /\ WaitsForAnswer
=============================================================================
