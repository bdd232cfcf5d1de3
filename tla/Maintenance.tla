----------------------------- MODULE Maintenance -----------------------------
(* Operator-owned authority for upstream maintenance                          *)
(* (upstream_maintenance/{mod,authority,usage}.rs): a registered policy that  *)
(* can be revoked, tasks bound to one revision of it, and the worker budget   *)
(* all tasks of one invocation share.                                         *)
(*                                                                            *)
(* Submissions ask the owning authority over HTTP, so the operator's          *)
(* registrations and revocations fall between their steps.                    *)
EXTENDS Naturals, FiniteSets

CONSTANTS MtTasks,    \* tasks submitted with a maintenance binding
          MaxRev,     \* bound: policy revisions
          MtBudget    \* the admitted budget of one invocation

ASSUME MtBounds == MaxRev \in Nat \ {0} /\ MtBudget \in Nat

VARIABLES
  mtRev,       \* registered revision, 0: none
  mtRevoked,   \* Registered.revoked
  mtOwner,     \* the owning authority answers "active"
  mtTask,      \* per task: status and bound revision
  mtUsed,      \* per revision: usage of the shared invocation
  mtFenced,    \* per revision: Usage.fenced
  mtCommand,   \* tasks with a supervised control-plane command running
  mtGone,      \* history: revisions that were revoked
  mtOverran    \* history: revisions whose budget a request exceeded

mtVars == <<mtRev, mtRevoked, mtOwner, mtTask, mtUsed, mtFenced, mtCommand, mtGone, mtOverran>>

MtRevs == 1..MaxRev

MtInit ==
  /\ mtRev = 0 /\ mtRevoked = FALSE /\ mtOwner = TRUE
  /\ mtTask = [t \in MtTasks |-> [st |-> "new", rev |-> 0]]
  /\ mtUsed = [r \in MtRevs |-> 0] /\ mtFenced = [r \in MtRevs |-> FALSE]
  /\ mtCommand = {} /\ mtGone = {} /\ mtOverran = {}

-----------------------------------------------------------------------------
(* register: a repeated registration changes nothing, another one must carry   *)
(* a later revision.                                                          *)
RevisionAdvances(r) == r > mtRev

RegisterPolicy(r) ==
  /\ RevisionAdvances(r)
  /\ mtRev' = r /\ mtRevoked' = FALSE
  /\ UNCHANGED <<mtOwner, mtTask, mtUsed, mtFenced, mtCommand, mtGone, mtOverran>>

(* revoke: in one transaction with the cancellation of every task bound to     *)
(* the revision.                                                              *)
RevokePolicy ==
  /\ mtRev # 0
  /\ mtRevoked' = TRUE
  /\ mtTask' = [t \in MtTasks |-> IF mtTask[t].st = "running" /\ mtTask[t].rev = mtRev
                                  THEN [mtTask[t] EXCEPT !.st = "cancelled"] ELSE mtTask[t]]
  /\ mtGone' = mtGone \cup {mtRev}
  /\ UNCHANGED <<mtRev, mtOwner, mtUsed, mtFenced, mtCommand, mtOverran>>

(* validate_binding                                                           *)
BindingValid(r) == r = mtRev /\ ~mtRevoked

(* authorize_submission: validated, then the owning authority is asked, then   *)
(* validated again; the answer takes time.                                    *)
AuthorizeSubmission(t, r) ==
  /\ mtTask[t].st = "new"
  /\ BindingValid(r)
  /\ mtTask' = [mtTask EXCEPT ![t] = [st |-> "asking", rev |-> r]]
  /\ UNCHANGED <<mtRev, mtRevoked, mtOwner, mtUsed, mtFenced, mtCommand, mtGone, mtOverran>>

AuthorityAnswers(t) ==
  /\ mtTask[t].st = "asking"
  /\ mtTask' = IF mtOwner /\ BindingValid(mtTask[t].rev)
               THEN [mtTask EXCEPT ![t].st = "authorized"]
               ELSE [mtTask EXCEPT ![t] = [st |-> "new", rev |-> 0]]
  /\ UNCHANGED <<mtRev, mtRevoked, mtOwner, mtUsed, mtFenced, mtCommand, mtGone, mtOverran>>

(* pin, in the transaction of submit_task: plans and settings are read between  *)
(* the authorization and this transaction.                                    *)

Pin(t) ==
  /\ mtTask[t].st = "authorized"
  /\ mtTask' = IF BindingValid(mtTask[t].rev)
               THEN [mtTask EXCEPT ![t].st = "running"]
               ELSE [mtTask EXCEPT ![t] = [st |-> "new", rev |-> 0]]
  /\ UNCHANGED <<mtRev, mtRevoked, mtOwner, mtUsed, mtFenced, mtCommand, mtGone, mtOverran>>

(* binding and usage: the revision a task is bound to, and what its invocation  *)
(* has used.                                                                  *)
MtBound(t) == mtTask[t].rev
Usage(r) == mtUsed[r]

(* check_local: the policy as registered, the task and its root alive, the     *)
(* invocation not fenced.                                                     *)
CheckLocal(t) ==
  /\ mtTask[t].st = "running"
  /\ BindingValid(MtBound(t))
  /\ ~mtFenced[MtBound(t)]

-----------------------------------------------------------------------------
(* reserve, one transaction: an overrun is committed as a fence although the   *)
(* caller gets an error.                                                      *)
ReserveRolledBack(t, n) ==
  LET r == MtBound(t) IN
  /\ CheckLocal(t)
  /\ IF Usage(r) + n <= MtBudget
     THEN mtUsed' = [mtUsed EXCEPT ![r] = @ + n] /\ UNCHANGED <<mtFenced, mtOverran>>
     ELSE mtOverran' = mtOverran \cup {r} /\ UNCHANGED <<mtUsed, mtFenced>>
  /\ UNCHANGED <<mtRev, mtRevoked, mtOwner, mtTask, mtCommand, mtGone>>


Reserve(t, n) ==
  LET r == MtBound(t) IN
  /\ CheckLocal(t)
  /\ IF Usage(r) + n <= MtBudget
     THEN mtUsed' = [mtUsed EXCEPT ![r] = @ + n] /\ UNCHANGED <<mtFenced, mtOverran>>
     ELSE mtFenced' = [mtFenced EXCEPT ![r] = TRUE] /\ mtOverran' = mtOverran \cup {r}
          /\ UNCHANGED mtUsed
  /\ UNCHANGED <<mtRev, mtRevoked, mtOwner, mtTask, mtCommand, mtGone>>

(* command_output: a command of the control plane runs under a guard that      *)
(* asks check_local at every poll and the authority every second; the process  *)
(* group is killed when the guard fails.                                      *)
CommandStarts(t) ==
  /\ t \notin mtCommand /\ CheckLocal(t)
  /\ mtCommand' = mtCommand \cup {t}
  /\ UNCHANGED <<mtRev, mtRevoked, mtOwner, mtTask, mtUsed, mtFenced, mtGone, mtOverran>>


CommandGuard(t) ==
  /\ t \in mtCommand
  /\ ~CheckLocal(t) \/ ~mtOwner
  /\ mtCommand' = mtCommand \ {t}
  /\ UNCHANGED <<mtRev, mtRevoked, mtOwner, mtTask, mtUsed, mtFenced, mtGone, mtOverran>>

(* The command exits by itself (it need not).                                 *)
CommandExits(t) ==
  /\ t \in mtCommand
  /\ mtCommand' = mtCommand \ {t}
  /\ UNCHANGED <<mtRev, mtRevoked, mtOwner, mtTask, mtUsed, mtFenced, mtGone, mtOverran>>

(* The owning authority withdraws or restores the routine.                    *)
OwnerMoves ==
  /\ mtOwner' = ~mtOwner
  /\ UNCHANGED <<mtRev, mtRevoked, mtTask, mtUsed, mtFenced, mtCommand, mtGone, mtOverran>>

MtTaskStep(t) ==
  \/ \E r \in MtRevs : AuthorizeSubmission(t, r)
  \/ AuthorityAnswers(t) \/ Pin(t)
  \/ \E n \in {1, 2} : Reserve(t, n)
  \/ CommandStarts(t) \/ CommandGuard(t) \/ CommandExits(t)

MtNext ==
  \/ \E r \in MtRevs : RegisterPolicy(r)
  \/ RevokePolicy \/ OwnerMoves
  \/ \E t \in MtTasks : MtTaskStep(t)

MtSpec == MtInit /\ [][MtNext]_mtVars

-----------------------------------------------------------------------------
(* Type invariant.                                                            *)
MtTypeOK ==
  /\ mtRev \in 0..MaxRev /\ mtRevoked \in BOOLEAN /\ mtOwner \in BOOLEAN
  /\ mtTask \in [MtTasks -> [st : {"new", "asking", "authorized", "running", "cancelled"},
                             rev : 0..MaxRev]]
  /\ mtUsed \in [MtRevs -> 0..MtBudget] /\ mtFenced \in [MtRevs -> BOOLEAN]
  /\ mtCommand \subseteq MtTasks /\ mtGone \subseteq MtRevs /\ mtOverran \subseteq MtRevs

(* A revocation reaches every task of the revision: none that was being        *)
(* submitted while the policy was revoked runs afterwards.                    *)
RevocationComplete ==
  \A t \in MtTasks : mtTask[t].st = "running" => mtTask[t].rev \notin mtGone

(* A revoked revision is never valid again, whatever is registered or retried: *)
(* a task bound to it cannot spend or run a command.                          *)
RevokedNeverValid ==
  mtRev \in mtGone => mtRevoked

(* Once a request exceeded the budget of an invocation, no task of it spends    *)
(* again, also when later requests would fit.                                 *)
NothingAfterOverrun ==
  [][\A r \in mtOverran : mtUsed'[r] = mtUsed[r]]_mtVars

(* A command of a task whose revision is revoked or superseded is stopped.     *)
RevokedCommandStops ==
  \A t \in MtTasks :
    (t \in mtCommand /\ mtTask[t].rev \in mtGone) ~> (t \notin mtCommand)

\* The invariants together: what every request, crash and retry above must preserve.
MtInv ==
  /\ MtTypeOK
  /\ RevocationComplete
  /\ RevokedNeverValid
=============================================================================
