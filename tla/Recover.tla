------------------------------- MODULE Recover -------------------------------
(* Recovery of the agent's work of a failed step (run/recover.rs), with the   *)
(* operations that may run beside it on the same stopped Run: resume, cancel, *)
(* the agent's next attempt, other people's pushes to the Run branch, and the *)
(* change of the Run's frozen model and account (run/rebind_model.rs,         *)
(* run/unpin.rs).                                                              *)
(*                                                                            *)
(* The worker's branch is the sequence of its commits, each with its tree and *)
(* the recovery key in its message; the worktree is a tree.  The Run branch   *)
(* is the sequence of what was merged into it, 0 standing for other work.     *)
EXTENDS Naturals, Sequences

CONSTANTS RecKeys,       \* idempotency keys
          MaxTrees,      \* bound: contents the worktree ever has
          MaxRvMoves     \* bound: steps of others, crashes included

ASSUME RvBounds == MaxTrees \in Nat /\ MaxRvMoves \in Nat

VARIABLES
  rvTask, rvStep, rvWorker,  \* status of the task, its failed step and its worker
  rvNext,       \* state of a step that needs the failed one
  rvAttempt,    \* attempts of the step so far
  rvWt,         \* content of the worktree
  rvCommits,    \* commits of the worker's branch
  rvRun,        \* what the Run branch contains, in order
  rvMerging,    \* worker commits with an integrations row past 'queued'
  rvRows,       \* run_step_recoveries
  rvOp,         \* the recovery holding recovery-{task}.lock
  rvModel, rvPin, \* settings: the provider's model, the account pin
  rvMoves,
  rvChecked     \* history: trees the validation command passed on

rvVars == <<rvTask, rvStep, rvWorker, rvNext, rvAttempt, rvWt, rvCommits, rvRun, rvMerging,
            rvRows, rvOp, rvModel, rvPin, rvMoves, rvChecked>>

rvStatus   == <<rvTask, rvStep, rvWorker, rvNext, rvAttempt>>
rvSettings == <<rvModel, rvPin>>

NoReceipt == [phase |-> "none"]
RvIdle == [pc |-> "idle"]
Tip == Len(rvCommits)
TipTree == rvCommits[Tip].tree
Clean == rvWt = TipTree

(* A failed attempt left edits, or commits, or both.                          *)
RvInit ==
  /\ \/ rvTask = "failed" /\ rvWorker = "failed"
     \/ rvTask = "blocked" /\ rvWorker = "stopped"
  /\ rvStep = "failed" /\ rvNext = "skipped"
  /\ rvAttempt = 1
  /\ rvCommits \in {<<[tree |-> 0, key |-> ""]>>,
                    <<[tree |-> 0, key |-> ""], [tree |-> 1, key |-> ""]>>}
  /\ rvWt = 1
  /\ rvRun = <<>> /\ rvMerging = {}
  /\ rvRows = [k \in RecKeys |-> NoReceipt]
  /\ rvOp = RvIdle
  /\ rvModel = "old" /\ rvPin = TRUE
  /\ rvMoves = 0 /\ rvChecked = {}

-----------------------------------------------------------------------------
(* latest_failed, inactive and the checks at the top of recover_with_policy.  *)
Stopped ==
  /\ rvTask \in {"failed", "blocked"}
  /\ rvStep = "failed" /\ rvWorker \in {"failed", "stopped"}

(* exact_prior_integration: this commit merged on top of that Run head.       *)
ExactlyMerged(c, run) == c \in rvMerging /\ rvRun = Append(run, c)

RunHeadOk(row) ==
  \/ rvRun = row.run
  \/ row.phase = "committed" /\ row.commit = Tip /\ ExactlyMerged(Tip, row.run)

(* committed_recovery: is the head this recovery's commit?  An empty key is a *)
(* commit the agent made.                                                     *)
CommitMatches(row) ==
  IF row.ckey = "" THEN Tip = row.parent /\ TipTree = row.tree
  ELSE Tip = row.parent + 1 /\ TipTree = row.tree /\ rvCommits[Tip].key = row.ckey

NotYetCommitted(row) == row.ckey # "" /\ Tip = row.parent

RvReceipt(tree, ckey, parent) ==
  [phase |-> "prepared", tree |-> tree, ckey |-> ckey, parent |-> parent, commit |-> 0,
   attempt |-> rvAttempt, run |-> rvRun, response |-> <<>>]

(* The statuses, the failed attempt and the heads are those read at the start. *)
Proceed(key, pc) ==
  rvOp' = [pc |-> pc, key |-> key, task |-> rvTask, worker |-> rvWorker,
           attempt |-> rvAttempt, run |-> rvRun, tip |-> Tip, tree |-> TipTree,
           head |-> <<>>, skipped |-> FALSE]

(* A key seen before repeats its request; with an answer on record it returns *)
(* the answer.                                                                *)
RetryKey(key) ==
  LET row == rvRows[key] IN
    /\ rvOp = RvIdle /\ row.phase \notin {"none", "succeeded"}
    /\ Stopped /\ RunHeadOk(row)
    /\ row.attempt = rvAttempt
    /\ \/ /\ CommitMatches(row) /\ ~(row.ckey = "" /\ row.phase = "prepared")
          /\ Clean
          /\ Proceed(key, "mark")
       \/ /\ NotYetCommitted(row)
          /\ ~Clean /\ rvWt = row.tree
          /\ Proceed(key, "check")
       \/ /\ CommitMatches(row) /\ row.ckey = "" /\ row.phase = "prepared"
          /\ Clean
          /\ Proceed(key, "check")
    /\ UNCHANGED <<rvStatus, rvWt, rvCommits, rvRun, rvMerging, rvRows, rvSettings,
                   rvMoves, rvChecked>>

(* A new key names the heads as they are.  It adopts the commit of an earlier *)
(* recovery, pins a commit the agent made, or pins the dirty worktree.        *)
Adopted == {k \in RecKeys : rvRows[k].phase = "committed" /\ rvRows[k].commit = Tip}

NewKey(key) ==
  /\ rvOp = RvIdle /\ rvRows[key] = NoReceipt
  /\ Stopped
  /\ \/ /\ Clean /\ Adopted # {}
        /\ \A k \in Adopted : CommitMatches(rvRows[k])
        /\ Proceed(key, "recheck")
        /\ UNCHANGED rvRows
     \/ /\ Clean /\ Adopted = {} /\ Tip > 1
        /\ rvRows' = [rvRows EXCEPT ![key] = RvReceipt(TipTree, "", Tip)]
        /\ Proceed(key, "check")
     \/ /\ ~Clean
        /\ rvRows' = [rvRows EXCEPT ![key] = RvReceipt(rvWt, key, Tip)]
        /\ Proceed(key, "check")
  /\ UNCHANGED <<rvStatus, rvWt, rvCommits, rvRun, rvMerging, rvSettings, rvMoves, rvChecked>>

(* checked_command passes.  The tree must be the pinned one before and after. *)
UnmovedAny(row) == TRUE
Unmoved(row) == rvWt = row.tree

Check ==
  /\ rvOp.pc = "check"
  /\ LET row == rvRows[rvOp.key] IN
       /\ Unmoved(row)
       /\ row.ckey = "" => CommitMatches(row)
       /\ rvChecked' = IF rvWt = row.tree THEN rvChecked \cup {row.tree} ELSE rvChecked
       /\ rvRows' = [rvRows EXCEPT ![rvOp.key].phase = "validated"]
       /\ rvOp' = [rvOp EXCEPT !.pc = IF row.ckey = "" THEN "mark" ELSE "commit"]
  /\ UNCHANGED <<rvStatus, rvWt, rvCommits, rvRun, rvMerging, rvSettings, rvMoves>>

(* The branch for an earlier recovery's commit: the receipt is written after  *)
(* the checks, already committed.                                             *)
Recheck ==
  /\ rvOp.pc = "recheck"
  /\ Clean /\ TipTree = rvOp.tree
  /\ \E k \in RecKeys :
       /\ rvRows[k].phase = "committed" /\ rvRows[k].commit = rvOp.tip
       /\ rvRows' = [rvRows EXCEPT ![rvOp.key] =
                       [rvRows[k] EXCEPT !.attempt = rvOp.attempt, !.run = rvOp.run]]
  /\ rvChecked' = rvChecked \cup {TipTree}
  /\ rvOp' = [rvOp EXCEPT !.pc = "mark"]
  /\ UNCHANGED <<rvStatus, rvWt, rvCommits, rvRun, rvMerging, rvSettings, rvMoves>>

(* git commit of the index, which holds the pinned tree.                      *)
CommitIndex ==
  /\ rvOp.pc = "commit"
  /\ LET row == rvRows[rvOp.key] IN
       /\ Tip = row.parent
       /\ rvCommits' = Append(rvCommits, [tree |-> row.tree, key |-> row.ckey])
  /\ rvOp' = [rvOp EXCEPT !.pc = "mark"]
  /\ UNCHANGED <<rvStatus, rvWt, rvRun, rvMerging, rvRows, rvSettings, rvMoves, rvChecked>>


MarkCommitted ==
  /\ rvOp.pc = "mark"
  /\ CommitMatches(rvRows[rvOp.key])
  /\ rvRows' = [rvRows EXCEPT ![rvOp.key].phase = "committed", ![rvOp.key].commit = Tip]
  /\ rvOp' = [rvOp EXCEPT !.pc = "integrate"]
  /\ UNCHANGED <<rvStatus, rvWt, rvCommits, rvRun, rvMerging, rvSettings, rvMoves, rvChecked>>

(* git::integrate_expected: the head of the worktree as it is now, onto the   *)
(* Run head the request named, or onto nothing when that very merge is there. *)
RunHeadExpected(run) == rvRun = run \/ ExactlyMerged(Tip, run)

Contains(run, c) == \E i \in 1 .. Len(run) : run[i] = c

IntegrateExpected ==
  /\ rvOp.pc = "integrate"
  /\ Clean
  /\ RunHeadExpected(rvRows[rvOp.key].run)
  /\ IF Contains(rvRun, Tip)
     THEN UNCHANGED <<rvRun, rvMerging>>
     ELSE rvRun' = Append(rvRun, Tip) /\ rvMerging' = rvMerging \cup {Tip}
  /\ rvOp' = [rvOp EXCEPT !.pc = "dependents", !.head = rvRun']
  /\ UNCHANGED <<rvStatus, rvWt, rvCommits, rvRows, rvSettings, rvMoves, rvChecked>>

(* The final transaction compares the statuses with those read at the start.  *)
StillFailed == rvTask = rvOp.task /\ rvWorker = rvOp.worker /\ rvStep = "failed"

(* The dependents to reopen are read before it, and it reopens exactly those. *)
ReadDependents ==
  /\ rvOp.pc = "dependents"
  /\ rvOp' = [rvOp EXCEPT !.pc = "finish", !.skipped = (rvNext = "skipped")]
  /\ UNCHANGED <<rvStatus, rvWt, rvCommits, rvRun, rvMerging, rvRows, rvSettings, rvMoves,
                 rvChecked>>

Reopened == IF rvOp.skipped THEN "pending" ELSE rvNext

RvAnswer(row) == <<row.commit, rvOp.head>>

Finish ==
  /\ rvOp.pc = "finish"
  /\ StillFailed
  /\ rvOp.skipped => rvNext = "skipped"
  /\ rvStep' = "succeeded" /\ rvNext' = Reopened
  /\ rvWorker' = "idle" /\ rvTask' = "running"
  /\ rvRows' = [rvRows EXCEPT ![rvOp.key].phase = "succeeded",
                              ![rvOp.key].response = RvAnswer(rvRows[rvOp.key])]
  /\ rvOp' = RvIdle
  /\ UNCHANGED <<rvAttempt, rvWt, rvCommits, rvRun, rvMerging, rvSettings, rvMoves, rvChecked>>

(* An error return, a failed check or the process's death, at any step.       *)
RvGiveUp ==
  /\ rvOp # RvIdle
  /\ rvOp' = RvIdle
  /\ UNCHANGED <<rvStatus, rvWt, rvCommits, rvRun, rvMerging, rvRows, rvSettings, rvMoves,
                 rvChecked>>

-----------------------------------------------------------------------------
RvOthers == rvMoves < MaxRvMoves /\ rvMoves' = rvMoves + 1

(* protocol/resume.rs: failed and cancelled steps and the skipped ones behind *)
(* them are pending again.                                                    *)
FailedTaskResumes ==
  /\ RvOthers
  /\ rvStep \notin {"running", "succeeded"} /\ rvTask # "running"
  /\ rvTask' = "running" /\ rvStep' = "pending"
  /\ rvNext' = IF rvNext \in {"skipped", "cancelled"} THEN "pending" ELSE rvNext
  /\ UNCHANGED <<rvWorker, rvAttempt, rvWt, rvCommits, rvRun, rvMerging, rvRows, rvOp,
                 rvSettings, rvChecked>>

FailedTaskCancelled ==
  /\ RvOthers /\ rvTask # "cancelled"
  /\ rvTask' = "cancelled"
  /\ rvStep' = IF rvStep \in {"pending", "running"} THEN "cancelled" ELSE rvStep
  /\ rvNext' = IF rvNext = "pending" THEN "cancelled" ELSE rvNext
  /\ UNCHANGED <<rvWorker, rvAttempt, rvWt, rvCommits, rvRun, rvMerging, rvRows, rvOp,
                 rvSettings, rvChecked>>

(* The agent's next attempt, in the same worktree.                            *)
AttemptStarts ==
  /\ rvTask = "running" /\ rvStep = "pending"
  /\ rvStep' = "running" /\ rvWorker' = "working" /\ rvAttempt' = rvAttempt + 1
  /\ UNCHANGED <<rvTask, rvNext, rvWt, rvCommits, rvRun, rvMerging, rvRows, rvOp, rvSettings,
                 rvMoves, rvChecked>>

AttemptFails ==
  /\ rvStep = "running" /\ rvTask = "running"
  /\ rvStep' = "failed" /\ rvWorker' = "failed" /\ rvTask' = "failed"
  /\ rvNext' = IF rvNext = "pending" THEN "skipped" ELSE rvNext
  /\ UNCHANGED <<rvAttempt, rvWt, rvCommits, rvRun, rvMerging, rvRows, rvOp, rvSettings,
                 rvMoves, rvChecked>>

(* The agent, the validation command or a person changes the worktree, or     *)
(* commits what is in it.                                                     *)
WorktreeChanges ==
  /\ RvOthers
  /\ \/ rvWt' \in 0 .. MaxTrees \ {rvWt} /\ UNCHANGED rvCommits
     \/ /\ rvWorker = "working" /\ ~Clean
        /\ rvCommits' = Append(rvCommits, [tree |-> rvWt, key |-> ""])
        /\ UNCHANGED rvWt
  /\ UNCHANGED <<rvStatus, rvRun, rvMerging, rvRows, rvOp, rvSettings, rvChecked>>

(* Other work reaches the Run branch.                                         *)
RunMoves ==
  /\ RvOthers
  /\ rvRun' = Append(rvRun, 0)
  /\ UNCHANGED <<rvStatus, rvWt, rvCommits, rvMerging, rvRows, rvOp, rvSettings, rvChecked>>

(* rebind_model: only a stopped Run without completed or integrated work.     *)

Quiescent ==
  /\ rvTask \in {"failed", "blocked"}
  /\ rvWorker \in {"failed", "stopped"}
  /\ {rvStep, rvNext} \cap {"running", "succeeded"} = {}
  /\ rvMerging = {}

RebindModel ==
  /\ Quiescent /\ rvModel = "old"
  /\ rvModel' = "new"
  /\ UNCHANGED <<rvStatus, rvWt, rvCommits, rvRun, rvMerging, rvRows, rvOp, rvPin, rvMoves,
                 rvChecked>>

(* unpin_account: no attempt is live.                                         *)
UnpinAccount ==
  /\ rvTask \in {"running", "blocked", "failed"} /\ rvWorker # "working" /\ rvPin
  /\ rvPin' = FALSE
  /\ UNCHANGED <<rvStatus, rvWt, rvCommits, rvRun, rvMerging, rvRows, rvOp, rvModel, rvMoves,
                 rvChecked>>

RecoverSteps ==
  \/ \E k \in RecKeys : RetryKey(k) \/ NewKey(k)
  \/ Check \/ Recheck \/ CommitIndex \/ MarkCommitted \/ IntegrateExpected
  \/ ReadDependents \/ Finish \/ RvGiveUp

RvNextStep ==
  \/ RecoverSteps
  \/ FailedTaskResumes \/ FailedTaskCancelled \/ AttemptStarts \/ AttemptFails
  \/ WorktreeChanges \/ RunMoves \/ RebindModel \/ UnpinAccount

RvSpec == RvInit /\ [][RvNextStep]_rvVars

-----------------------------------------------------------------------------
RvAnswered == {k \in RecKeys : rvRows[k].phase = "succeeded"}

(* Types.                                                                     *)
RvTypeOK ==
  /\ rvTask \in {"failed", "blocked", "running", "cancelled"}
  /\ rvStep \in {"failed", "pending", "running", "succeeded", "cancelled"}
  /\ rvNext \in {"skipped", "pending", "cancelled"}
  /\ rvWorker \in {"failed", "stopped", "working", "idle"}
  /\ rvWt \in 0 .. MaxTrees /\ rvChecked \subseteq 0 .. MaxTrees
  /\ rvMerging \subseteq 1 .. Tip
  /\ \A k \in RecKeys : rvRows[k].phase \in
       {"none", "prepared", "validated", "committed", "succeeded"}
  /\ \A k \in RvAnswered : rvRows[k].commit \in 1 .. Tip

(* Unless the agent worked again in the meantime, what a recovery reports as  *)
(* the step's result has the tree its validation passed on, across crashes,   *)
(* retries and keys, and whoever edits the worktree.                          *)
RecoveredAsChecked ==
  \A k \in RvAnswered :
    rvRows[k].attempt = rvAttempt =>
      /\ rvCommits[rvRows[k].commit].tree \in rvChecked
      /\ rvCommits[rvRows[k].commit].tree = rvRows[k].tree

(* The reported Run head is the head the operator named, with at most one     *)
(* commit merged: no work the operator had not seen is accepted with it. And  *)
(* unless the agent worked again in the meantime, it contains the commit that *)
(* is reported.                                                               *)
RecoveredOnNamedHead ==
  \A k \in RvAnswered :
    LET row == rvRows[k]  run == row.response[2] IN
      /\ run = row.run \/ \E c \in 1 .. Tip : run = Append(row.run, c)
      /\ row.attempt = rvAttempt => Contains(run, row.commit)

(* A recovery never reopens a task the operator cancelled, and never declares *)
(* a step succeeded while an attempt of it may be running.                    *)
RecoveryYields ==
  [][rvStep' = "succeeded" /\ rvStep # "succeeded" =>
       rvTask \in {"failed", "blocked"} /\ rvWorker \in {"failed", "stopped"}]_rvVars

(* What a recovery unblocks really can run: no dependent step stays skipped   *)
(* behind a recovered step, unless the agent worked again, and failed again,  *)
(* after the recovery read which dependents to reopen.                        *)
DependentsReopened ==
  \A k \in RvAnswered : rvRows[k].attempt = rvAttempt => rvNext # "skipped"

(* The model of a Run is not changed once work of it was integrated.          *)
ModelFixed == [][rvMerging # {} => rvModel' = rvModel]_rvVars

\* The invariants together: what every request, crash and retry above must preserve.
RvInv ==
  /\ RvTypeOK
  /\ RecoveredAsChecked
  /\ RecoveredOnNamedHead
  /\ DependentsReopened
=============================================================================
