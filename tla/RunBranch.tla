------------------------------ MODULE RunBranch ------------------------------
(* The Git branch of one Run (run.rs, github_sync.rs and the part of git.rs   *)
(* that calls them): reconciling with the branch on the remote, integrating   *)
(* main, verified checkpoints, publication.                                   *)
(*                                                                            *)
(* A commit is the set of commits it contains, itself included, so that       *)
(* `git merge-base --is-ancestor a b` is a \subseteq b and a missing branch is *)
(* the empty set.  Every operation runs under integration-{task}.lock; other  *)
(* people push to, rewrite and delete the branches of the remote meanwhile,   *)
(* the daemon may die between two steps of an operation, and any Git command   *)
(* may fail.                                                                   *)
EXTENDS Naturals, FiniteSets

CONSTANTS MaxCommits,   \* bound: commits ever made
          MaxForeign,   \* bound: changes others make on the remote
          MaxRbOps        \* bound: operations begun

ASSUME RbBounds == MaxCommits \in Nat /\ MaxForeign \in Nat /\ MaxRbOps \in Nat

VARIABLES
  rbGithub,    \* settings.github.enabled
  rbHead,      \* HEAD of the Run workspace
  rbRemote,    \* the Run branch on the remote
  rbMain,      \* main on the remote
  rbBase,      \* upstreams/github/base on the remote
  rbObserved,  \* the last run.branch_observed event
  rbVerified,  \* the run.checkpoint_verified events: key, head and main
  rbLatest,    \* the head of the last of them
  rbPublished, \* heads named by run.branch_published events
  rbConflict,  \* whether the last status event is run.branch_conflict
  rbOp,        \* the operation holding the lock
  rbMade, rbMoves, rbBegun,
  rbPassed,    \* history: heads a validation command began and ended on
  rbWas        \* history: heads the remote branch has had

rbVars == <<rbGithub, rbHead, rbRemote, rbMain, rbBase, rbObserved, rbVerified,
            rbLatest, rbPublished, rbConflict, rbOp, rbMade, rbMoves, rbBegun, rbPassed, rbWas>>

rbEvents == <<rbObserved, rbVerified, rbLatest, rbPublished, rbConflict, rbPassed>>
rbRefs   == <<rbRemote, rbMain, rbBase, rbWas>>

RbKinds == {"reconcile", "main", "checkpoint", "publish", "worker"}
RbKeys  == {"k1", "k2"}
RunCommits == SUBSET (0 .. MaxCommits)
NoOp    == [kind |-> "none", pc |-> "idle", exp |-> {}, main |-> {}, got |-> {}, key |-> "k1"]

RbInit ==
  /\ rbGithub \in BOOLEAN
  /\ rbHead = {0} /\ rbMain = {0} /\ rbBase = {0}
  /\ rbRemote = {} /\ rbObserved = {} /\ rbLatest = {}
  /\ rbVerified = {} /\ rbPublished = {} /\ rbPassed = {} /\ rbWas = {}
  /\ rbConflict = FALSE
  /\ rbOp = NoOp
  /\ rbMade = 0 /\ rbMoves = 0 /\ rbBegun = 0

-----------------------------------------------------------------------------
(* A commit on top of the histories in parents.                              *)
CanCommit == rbMade < MaxCommits
NewCommit(parents) == UNION parents \cup {rbMade + 1}

(* publish_run: the head is the one of the last verified checkpoint.          *)
MayPublish == rbLatest = rbHead

(* run_branch and expected_head: the caller names the head it has seen, and   *)
(* the base it has seen where it supplies one.  A worker's integration takes  *)
(* the head it finds.                                                         *)
RbBegin ==
  \E kind \in RbKinds, key \in RbKeys, base \in {{}, rbMain} :
    /\ rbOp.pc = "idle" /\ rbBegun < MaxRbOps
    /\ kind = "main" => base # {}
    /\ kind \in {"reconcile", "publish", "worker"} => base = {}
    /\ kind # "checkpoint" => key = "k1"
    /\ kind = "publish" => MayPublish
    /\ rbOp' = [kind |-> kind, pc |-> IF kind = "publish" THEN "push?" ELSE "fetch",
                exp |-> rbHead, main |-> base, got |-> {}, key |-> key]
    /\ rbBegun' = rbBegun + 1
    /\ UNCHANGED <<rbGithub, rbHead, rbRefs, rbEvents, rbMade, rbMoves>>

At(pc)   == rbOp.pc = pc
GoTo(pc) == rbOp' = IF pc = "idle" THEN NoOp ELSE [rbOp EXCEPT !.pc = pc]

(* An error return, a failed Git command, or the daemon's death.             *)

RbGiveUp ==
  /\ rbOp.pc # "idle"
  /\ rbOp' = NoOp
  /\ UNCHANGED <<rbGithub, rbHead, rbRefs, rbEvents, rbMade, rbMoves, rbBegun>>

(* record_conflict, and record_healthy, which ends a conflict.                 *)
RecordHealthy == rbConflict' = FALSE
Conflicted ==
  /\ rbOp' = NoOp
  /\ rbConflict' = TRUE
  /\ UNCHANGED <<rbObserved, rbVerified, rbLatest, rbPublished, rbPassed>>

-----------------------------------------------------------------------------
(* last_observed_remote                                                       *)
LastObserved == rbObserved

(* fetch_run_head: a branch that was seen before must still contain what was  *)
(* seen of it.                                                                *)
FetchOk == IF rbRemote = {} THEN LastObserved = {} ELSE LastObserved \subseteq rbRemote

Related(a, b) == a \subseteq b \/ b \subseteq a

AfterReconcile ==
  CASE rbOp.kind = "reconcile" -> "idle"
    [] rbOp.kind = "main"      -> "main"
    [] OTHER                   -> IF rbGithub THEN "github" ELSE "ready"

(* reconcile_locked up to the fast-forward of the workspace.                  *)

ReconcileFetch ==
  /\ At("fetch")
  /\ UNCHANGED <<rbGithub, rbRefs, rbMade, rbMoves, rbBegun>>
  /\ IF FetchOk /\ Related(rbHead, rbRemote)
     THEN /\ rbHead' = rbHead \cup rbRemote
          /\ IF rbRemote = {}
             THEN GoTo(AfterReconcile)
             ELSE rbOp' = [rbOp EXCEPT !.pc = "observe", !.got = rbRemote]
          /\ UNCHANGED rbEvents
     ELSE Conflicted /\ UNCHANGED rbHead

(* The events at the end of reconcile_locked; then every caller but the       *)
(* worker's integration refuses a head that moved.                            *)
ReconcileObserve ==
  /\ At("observe")
  /\ rbObserved' = rbOp.got
  /\ RecordHealthy
  /\ IF rbOp.kind \in {"main", "checkpoint"} /\ rbHead # rbOp.exp
     THEN rbOp' = NoOp
     ELSE GoTo(AfterReconcile)
  /\ UNCHANGED <<rbGithub, rbHead, rbRefs, rbVerified, rbLatest, rbPublished, rbPassed,
                 rbMade, rbMoves, rbBegun>>

(* git merge of other into the workspace: nothing when it is contained, a     *)
(* fast-forward, a merge commit, or a conflict that is aborted.               *)
MergeIn(other, then) ==
  \/ /\ other \subseteq rbHead
     /\ GoTo(then)
     /\ UNCHANGED <<rbHead, rbEvents, rbMade>>
  \/ /\ rbHead \subseteq other /\ rbHead # other
     /\ rbHead' = other
     /\ GoTo(then)
     /\ UNCHANGED <<rbEvents, rbMade>>
  \/ /\ ~Related(rbHead, other) /\ CanCommit
     /\ rbHead' = NewCommit({rbHead, other})
     /\ rbMade' = rbMade + 1
     /\ GoTo(then)
     /\ UNCHANGED rbEvents
  \/ /\ ~Related(rbHead, other)
     /\ Conflicted
     /\ UNCHANGED <<rbHead, rbMade>>

(* integrate_main: main on the remote must still be the one the caller saw.   *)
IntegrateMain ==
  /\ At("main")
  /\ rbMain = rbOp.main
  /\ MergeIn(rbMain, "idle")
  /\ UNCHANGED <<rbGithub, rbRefs, rbMoves, rbBegun>>

(* github_sync::integrate: main, then the imported GitHub base.               *)
GithubMain ==
  /\ At("github")
  /\ MergeIn(rbMain, "base")
  /\ UNCHANGED <<rbGithub, rbRefs, rbMoves, rbBegun>>

GithubBase ==
  /\ At("base")
  /\ MergeIn(rbBase, "synced")
  /\ UNCHANGED <<rbGithub, rbRefs, rbMoves, rbBegun>>

GithubHealthy ==
  /\ At("synced")
  /\ RecordHealthy
  /\ IF rbOp.kind = "checkpoint" /\ rbHead # rbOp.exp THEN rbOp' = NoOp ELSE GoTo("ready")
  /\ UNCHANGED <<rbGithub, rbHead, rbRefs, rbObserved, rbVerified, rbLatest, rbPublished,
                 rbPassed, rbMade, rbMoves, rbBegun>>

-----------------------------------------------------------------------------
(* git::integrate_commit: the worker's commit is merged without fast-forward, *)
(* the combined checks run, and the result is published at once when GitHub   *)
(* is enabled.                                                                *)
WorkerMerge ==
  /\ At("ready") /\ rbOp.kind = "worker" /\ CanCommit
  /\ rbHead' = NewCommit({rbHead})
  /\ rbMade' = rbMade + 1
  /\ rbOp' = IF rbGithub THEN [rbOp EXCEPT !.pc = "push?", !.exp = rbHead'] ELSE NoOp
  /\ UNCHANGED <<rbGithub, rbRefs, rbEvents, rbMoves, rbBegun>>

(* checkpoint_identity                                                        *)
IdentityOk == rbOp.main # {} => (rbMain = rbOp.main /\ rbOp.main \subseteq rbHead)

Recorded(key) == {v \in rbVerified : v.key = key}

(* The start of the validation command: a key that is on record answers from  *)
(* the record, or is refused when the request differs.                        *)
KeyUnused == Recorded(rbOp.key) = {}
Validate ==
  /\ At("ready") /\ rbOp.kind = "checkpoint"
  /\ IdentityOk
  /\ IF KeyUnused THEN GoTo("validating") ELSE rbOp' = NoOp
  /\ UNCHANGED <<rbGithub, rbHead, rbRefs, rbEvents, rbMade, rbMoves, rbBegun>>

(* The validation command itself may commit to the workspace.                 *)
ValidationCommits ==
  /\ At("validating") /\ rbHead = rbOp.exp /\ CanCommit
  /\ rbHead' = NewCommit({rbHead})
  /\ rbMade' = rbMade + 1
  /\ UNCHANGED <<rbGithub, rbOp, rbRefs, rbEvents, rbMoves, rbBegun>>

(* The command succeeded: the head must be the one it started on and the      *)
(* identity the one it started with.                                          *)
HeadKept == rbHead = rbOp.exp
Verify ==
  /\ At("validating")
  /\ HeadKept /\ IdentityOk
  /\ rbVerified' = rbVerified \cup {[key |-> rbOp.key, head |-> rbHead, main |-> rbOp.main]}
  /\ rbLatest' = rbHead
  /\ rbPassed' = IF rbHead = rbOp.exp THEN rbPassed \cup {rbHead} ELSE rbPassed
  /\ IF rbGithub THEN GoTo("push?") ELSE rbOp' = NoOp
  /\ UNCHANGED <<rbGithub, rbHead, rbRefs, rbObserved, rbPublished, rbConflict,
                 rbMade, rbMoves, rbBegun>>

-----------------------------------------------------------------------------
(* publish_locked                                                             *)
PublishFetch ==
  /\ At("push?")
  /\ rbHead = rbOp.exp
  /\ UNCHANGED <<rbGithub, rbHead, rbRefs, rbMade, rbMoves, rbBegun>>
  /\ IF ~FetchOk THEN Conflicted
     ELSE /\ rbRemote \subseteq rbHead
          /\ GoTo(IF rbRemote = rbHead THEN "announce" ELSE "push")
          /\ UNCHANGED rbEvents

(* git push without --force: refused unless it is a fast-forward.             *)

PushForced ==
  /\ At("push")
  /\ rbRemote' = rbHead
  /\ rbWas' = rbWas \cup {rbRemote'}
  /\ GoTo("confirm")
  /\ UNCHANGED <<rbGithub, rbHead, rbMain, rbBase, rbEvents, rbMade, rbMoves, rbBegun>>

Push ==
  /\ At("push")
  /\ rbRemote' = IF rbRemote \subseteq rbHead THEN rbHead ELSE rbRemote
  /\ rbWas' = rbWas \cup {rbRemote'}
  /\ GoTo("confirm")
  /\ UNCHANGED <<rbGithub, rbHead, rbMain, rbBase, rbEvents, rbMade, rbMoves, rbBegun>>

(* The branch is fetched again whatever the push said, and only the exact     *)
(* head counts.                                                               *)
PublishConfirm ==
  /\ At("confirm")
  /\ UNCHANGED <<rbGithub, rbHead, rbRefs, rbMade, rbMoves, rbBegun>>
  /\ IF ~FetchOk THEN Conflicted
     ELSE /\ rbRemote = rbHead
          /\ GoTo("announce")
          /\ UNCHANGED rbEvents

Announce ==
  /\ At("announce")
  /\ rbObserved' = rbHead
  /\ rbPublished' = rbPublished \cup {rbHead}
  /\ rbOp' = NoOp
  /\ UNCHANGED <<rbGithub, rbHead, rbRefs, rbVerified, rbLatest, rbConflict, rbPassed,
                 rbMade, rbMoves, rbBegun>>

-----------------------------------------------------------------------------
(* Others push to the Run branch, to main and to the imported base, rewrite   *)
(* the Run branch, or delete it.                                              *)
OthersPush ==
  /\ rbMoves < MaxForeign /\ CanCommit
  /\ \/ /\ rbRemote # {}
        /\ \E b \in {rbRemote, {0}} : rbRemote' = NewCommit({b})
        /\ UNCHANGED <<rbMain, rbBase>>
     \/ rbMain' = NewCommit({rbMain}) /\ UNCHANGED <<rbRemote, rbBase>>
     \/ rbBase' = NewCommit({rbBase}) /\ UNCHANGED <<rbRemote, rbMain>>
  /\ rbWas' = rbWas \cup {rbRemote'}
  /\ rbMade' = rbMade + 1
  /\ rbMoves' = rbMoves + 1
  /\ UNCHANGED <<rbGithub, rbHead, rbEvents, rbOp, rbBegun>>

OthersReset ==
  /\ rbMoves < MaxForeign /\ rbRemote # {}
  /\ rbRemote' \in {{}, {0}} \ {rbRemote}
  /\ rbWas' = rbWas \cup {rbRemote'}
  /\ rbMoves' = rbMoves + 1
  /\ UNCHANGED <<rbGithub, rbHead, rbMain, rbBase, rbEvents, rbOp, rbMade, rbBegun>>

RbSteps ==
  \/ RbBegin \/ RbGiveUp
  \/ ReconcileFetch \/ ReconcileObserve
  \/ IntegrateMain \/ GithubMain \/ GithubBase \/ GithubHealthy
  \/ WorkerMerge \/ Validate \/ ValidationCommits \/ Verify
  \/ PublishFetch \/ Push \/ PublishConfirm \/ Announce

RbNext == RbSteps \/ OthersPush \/ OthersReset

RbSpec == RbInit /\ [][RbNext]_rbVars

-----------------------------------------------------------------------------
(* Types.                                                                     *)
RbTypeOK ==
  /\ rbGithub \in BOOLEAN /\ rbConflict \in BOOLEAN
  /\ {rbHead, rbRemote, rbMain, rbBase, rbObserved, rbLatest} \subseteq RunCommits
  /\ rbVerified \subseteq [key : RbKeys, head : RunCommits, main : RunCommits]
  /\ UNION {rbPublished, rbPassed, rbWas} \subseteq RunCommits
  /\ rbOp \in [kind : RbKinds \cup {"none"}, exp : RunCommits, main : RunCommits, got : RunCommits,
               key : RbKeys,
               pc : {"idle", "fetch", "observe", "main", "github", "base", "synced", "ready",
                     "validating", "push?", "push", "confirm", "announce"}]
  /\ (rbOp.pc = "idle") <=> (rbOp = NoOp)

(* What was observed of the remote branch is in the workspace, at every crash *)
(* point: the next comparison with the remote starts from work that is here.  *)
ObservedIsHere == rbObserved \subseteq rbHead

(* The observed history only grows: a rewound or rewritten branch is never    *)
(* taken for the one that was seen, whatever operation meets it.              *)
ObservedGrows == [][rbObserved \subseteq rbObserved']_rbVars

(* No operation removes a commit from the remote branch, even when others     *)
(* push between its fetch and its own push.                                   *)
OthersWorkKept == [][rbRemote \subseteq rbRemote' \/ ~RbSteps]_rbVars

(* A verified checkpoint names a commit the validation command started and    *)
(* ended on, and that commit contains the main the record names.              *)
VerifiedIsExact ==
  \A v \in rbVerified : v.head \in rbPassed /\ v.main \subseteq v.head

(* An idempotency key stands for one checkpoint.                              *)
KeyOneCheckpoint ==
  \A v, w \in rbVerified : v.key = w.key => v = w

(* Without the GitHub integration, whose worker merges are published at once, *)
(* only verified heads are announced as published.                            *)
PublishedIsVerified ==
  ~rbGithub => \A h \in rbPublished : \E v \in rbVerified : v.head = h

(* An announced head has been the head of the remote branch: a push that was  *)
(* refused because others pushed first is never announced.                    *)
AnnouncedArrived == rbPublished \subseteq rbWas

\* The invariants together: what every request, crash and retry above must preserve.
RbInv ==
  /\ RbTypeOK
  /\ ObservedIsHere
  /\ VerifiedIsExact
  /\ KeyOneCheckpoint
  /\ PublishedIsVerified
  /\ AnnouncedArrived
=============================================================================
