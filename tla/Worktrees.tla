----------------------------- MODULE Worktrees -----------------------------
(***************************************************************************)
(* The Git side of one task: the integrated worktree and the checkouts of  *)
(* its workers (git.rs), commits made for a worker under an idempotency    *)
(* key (git/commit.rs), integration with combined validation, and the      *)
(* retention that removes and restores cold checkouts (storage/cleanup.rs).*)
(*                                                                         *)
(* A worker's branch is a line of commits 0..head. Every operation is cut  *)
(* where Git and the database are changed one after the other, and the     *)
(* daemon may crash at each cut.                                           *)
(***************************************************************************)
EXTENDS Naturals

CONSTANTS
  Crew,        \* workers of the task
  Pinned,      \* the task is delegated or accepted from a controller
  BaseSet,     \* delivery.base is configured
  Origin,      \* the repository has the remote
  MaxHead,     \* bound: commits on a worker branch
  MaxFall      \* bound: crashes of the daemon

ASSUME WorktreesAssumption ==
  /\ {Pinned, BaseSet, Origin} \subseteq BOOLEAN
  /\ MaxHead \in Nat \ {0} /\ MaxFall \in Nat

VARIABLES
  wtask,       \* the task: running or succeeded
  cold,        \* nothing happened for the retention time
  agent,       \* the worker's attempt: none, starting, working
  ibranch,     \* horde/<task> exists
  itree,       \* its worktree: none, clean, or dirty after a merge was cut short
  ibase,       \* workspace_bases.source: none, the start point or recovered
  checkout,    \* the worker's worktree: none, clean, dirty
  branch,      \* workers/<task>/<worker> exists
  head,        \* its commit
  enrolled,    \* the worker row has workspace and branch
  cleaned,     \* storage.cleaned.<worker>: state and head
  merged,      \* the worker's commits in the integrated branch: 0..merged
  row,         \* integrations.state of the worker's commits
  evid,        \* its evidence names a validation
  mergeJob,         \* the integration that holds the lock
  sweep,       \* the cleanup that holds both locks: the worker, or "none"
  ckey,        \* the worker's commit request: none, prepared, succeeded, its parent and answer
  cjob,        \* a commit request is between its Git commit and its answer
  made,        \* history: commits made under the key
  passed,      \* history: the last validation of the integrated branch passed
  falls

wtVars == <<wtask, cold, agent, ibranch, itree, ibase, checkout, branch, head, enrolled,
            cleaned, merged, row, evid, mergeJob, sweep, ckey, cjob, made, passed, falls>>
gitVars    == <<ibranch, itree, ibase, checkout, branch, head, enrolled>>
mergeVars  == <<merged, row, evid, mergeJob, passed>>
commitVars == <<ckey, cjob, made>>

Commits == 0..MaxHead
NoMerge  == [w |-> "none", c |-> 0, val |-> FALSE, at |-> "none"]
NoMark == [state |-> "none", head |-> 0]
NoKey  == [state |-> "none", parent |-> 0, commit |-> 0, same |-> FALSE]
WtInit ==
  /\ wtask = "running" /\ cold = FALSE /\ agent = [w \in Crew |-> "none"]
  /\ ibranch = FALSE /\ itree = "none" /\ ibase = "none"
  /\ checkout = [w \in Crew |-> "none"] /\ branch = [w \in Crew |-> FALSE]
  /\ head = [w \in Crew |-> 0] /\ enrolled = [w \in Crew |-> FALSE]
  /\ cleaned = [w \in Crew |-> NoMark] /\ merged = [w \in Crew |-> 0]
  /\ row = [w \in Crew |-> [c \in Commits |-> "none"]]
  /\ evid = [w \in Crew |-> [c \in Commits |-> FALSE]]
  /\ mergeJob = NoMerge /\ sweep = "none" /\ ckey = [w \in Crew |-> NoKey] /\ cjob = [w \in Crew |-> FALSE]
  /\ made = [w \in Crew |-> 0] /\ passed = TRUE /\ falls = 0

Locked == mergeJob # NoMerge \/ sweep # "none"
-----------------------------------------------------------------------------
(* Attempts and allocation.                                                *)

BeginAttempt(w) ==
  /\ wtask = "running" /\ agent[w] = "none"
  /\ agent' = [agent EXCEPT ![w] = "starting"] /\ cold' = FALSE
  /\ UNCHANGED <<wtask, gitVars, cleaned, mergeVars, sweep, commitVars, falls>>

\* resolve_start: the commit a new integrated branch starts from, given whether the fetch
\* succeeded and a remote tip is known; a configured base is never replaced.
ResolveStart(fetched, tip) ==
  CASE Pinned                            -> "pinned"
    [] BaseSet /\ ~(Origin /\ fetched)   -> "refused"
    [] BaseSet \/ (Origin /\ fetched /\ tip) -> "remote"
    [] Origin /\ tip                     -> "stale"
    [] OTHER                             -> "local"
StartSources == {ResolveStart(f, t) : f, t \in BOOLEAN} \ {"refused"}
\* create_integrated: Git first, the record of the start in a second step; a branch that
\* survives is reused and a record without branch is refused.
CreateIntegrated ==
  /\ \E w \in Crew : agent[w] = "starting" /\ ~enrolled[w]
  /\ sweep = "none" /\ itree = "none" /\ (ibranch \/ (ibase = "none" /\ StartSources # {}))
  /\ ibranch' = TRUE /\ itree' = "clean"
  /\ UNCHANGED <<wtask, cold, agent, ibase, checkout, branch, head, enrolled, cleaned,
                 mergeVars, sweep, commitVars, falls>>
\* A start that Git made and a crash kept from being recorded is recovered as such.
StartRecorded == ibase' \in StartSources \cup {"recovered"}
RecordStart ==
  /\ itree # "none" /\ ibase = "none" /\ StartRecorded
  /\ UNCHANGED <<wtask, cold, agent, ibranch, itree, checkout, branch, head, enrolled, cleaned,
                 mergeVars, sweep, commitVars, falls>>

\* allocate, for a worker without registration: the worktree of its branch ...
AddWorktree(w) ==
  /\ agent[w] = "starting" /\ ~enrolled[w] /\ itree # "none" /\ ibase # "none"
  /\ checkout[w] = "none"
  /\ checkout' = [checkout EXCEPT ![w] = "clean"] /\ branch' = [branch EXCEPT ![w] = TRUE]
  /\ UNCHANGED <<wtask, cold, agent, ibranch, itree, ibase, head, enrolled, cleaned,
                 mergeVars, sweep, commitVars, falls>>
\* ... and register, which wants it clean.
RegisterCheckout(w) ==
  /\ agent[w] = "starting" /\ ~enrolled[w] /\ checkout[w] = "clean"
  /\ enrolled' = [enrolled EXCEPT ![w] = TRUE] /\ agent' = [agent EXCEPT ![w] = "working"]
  /\ UNCHANGED <<wtask, cold, ibranch, itree, ibase, checkout, branch, head, cleaned,
                 mergeVars, sweep, commitVars, falls>>

\* restore_locked: an intact checkout whose removal was only intended counts as it is;
\* otherwise the branch must still be where the receipt says.
IntactIntent(w) == checkout[w] # "none" /\ cleaned[w].state = "removing"
RestoreHead(w) == IF IntactIntent(w) THEN head[w] ELSE cleaned[w].head
RestoreCheckout(w) ==
  /\ cleaned[w] # NoMark /\ branch[w] /\ ~Locked
  /\ RestoreHead(w) = head[w]
  /\ checkout' = [checkout EXCEPT ![w] = IF @ = "none" THEN "clean" ELSE @]
  /\ cleaned' = [cleaned EXCEPT ![w] = NoMark]
\* allocate, for a registered worker: restore, then the checkout must be there.
Reallocate(w) ==
  /\ agent[w] = "starting" /\ enrolled[w]
  /\ IF cleaned[w] = NoMark THEN UNCHANGED <<checkout, cleaned>> ELSE RestoreCheckout(w)
  /\ checkout'[w] # "none"
  /\ agent' = [agent EXCEPT ![w] = "working"]
  /\ UNCHANGED <<wtask, cold, ibranch, itree, ibase, branch, head, enrolled,
                 mergeVars, sweep, commitVars, falls>>

\* The worker edits, commits in its own shell, or ends; its files may be left uncommitted.
Edit(w) ==
  /\ agent[w] = "working" /\ checkout[w] = "clean"
  /\ checkout' = [checkout EXCEPT ![w] = "dirty"]
  /\ UNCHANGED <<wtask, cold, agent, ibranch, itree, ibase, branch, head, enrolled, cleaned,
                 mergeVars, sweep, commitVars, falls>>
ShellCommit(w) ==
  /\ agent[w] = "working" /\ checkout[w] = "dirty" /\ head[w] < MaxHead
  /\ checkout' = [checkout EXCEPT ![w] = "clean"] /\ head' = [head EXCEPT ![w] = @ + 1]
  /\ UNCHANGED <<wtask, cold, agent, ibranch, itree, ibase, branch, enrolled, cleaned,
                 mergeVars, sweep, commitVars, falls>>
EndAttempt(w) ==
  /\ agent[w] # "none" /\ mergeJob.w # w /\ ~cjob[w]
  /\ agent' = [agent EXCEPT ![w] = "none"] /\ cold' = FALSE
  /\ ckey' = [ckey EXCEPT ![w].same = FALSE]
  /\ UNCHANGED <<wtask, gitVars, cleaned, mergeVars, sweep, cjob, made, falls>>
SettleWork ==
  /\ wtask = "running" /\ \A w \in Crew : agent[w] = "none"
  /\ wtask' = "succeeded" /\ cold' = FALSE
  /\ UNCHANGED <<agent, gitVars, cleaned, mergeVars, sweep, commitVars, falls>>
Reopen ==
  /\ wtask = "succeeded" /\ wtask' = "running" /\ cold' = FALSE
  /\ UNCHANGED <<agent, gitVars, cleaned, mergeVars, sweep, commitVars, falls>>
CoolDown ==
  /\ wtask = "succeeded" /\ ~cold /\ cold' = TRUE
  /\ UNCHANGED <<wtask, agent, gitVars, cleaned, mergeVars, sweep, commitVars, falls>>
-----------------------------------------------------------------------------
(* commit_work.                                                            *)

\* A new request at the expected head leaves a prepared receipt; then, or on a retry at
\* the same head, the staged tree is committed.
CommitWork(w) ==
  /\ agent[w] = "working" /\ checkout[w] = "dirty" /\ head[w] < MaxHead /\ ~cjob[w]
  /\ \/ ckey[w] = NoKey
     \/ ckey[w].state = "prepared" /\ ckey[w].same /\ ckey[w].parent = head[w]
  /\ ckey' = [ckey EXCEPT ![w] = [state |-> "prepared", parent |-> head[w], commit |-> 0, same |-> TRUE]]
  /\ \/ /\ checkout' = [checkout EXCEPT ![w] = "clean"] /\ head' = [head EXCEPT ![w] = @ + 1]
        /\ made' = [made EXCEPT ![w] = @ + 1] /\ cjob' = [cjob EXCEPT ![w] = TRUE]
     \/ UNCHANGED <<checkout, head, made, cjob>>      \* the worker changed, or a check failed
  /\ UNCHANGED <<wtask, cold, agent, ibranch, itree, ibase, branch, enrolled, cleaned,
                 mergeVars, sweep, falls>>
\* The commit is verified against the receipt and answered: the head is the parent's
\* child with the receipt's tree and provenance.
Verified(w) == head[w] = ckey[w].parent + 1 /\ made[w] > 0
CommitAnswer(w) ==
  /\ agent[w] = "working" /\ ckey[w].state = "prepared" /\ ckey[w].same /\ Verified(w) /\ checkout[w] = "clean"
  /\ ckey' = [ckey EXCEPT ![w].state = "succeeded", ![w].commit = head[w]]
  /\ cjob' = [cjob EXCEPT ![w] = FALSE]
  /\ UNCHANGED <<wtask, cold, agent, gitVars, cleaned, mergeVars, sweep, made, falls>>
\* A change after the commit ends the call; the receipt stays prepared.
CommitFails(w) ==
  /\ cjob[w] /\ cjob' = [cjob EXCEPT ![w] = FALSE]
  /\ UNCHANGED <<wtask, cold, agent, gitVars, cleaned, mergeVars, sweep, ckey, made, falls>>
-----------------------------------------------------------------------------
(* integrate.                                                              *)

\* The lock, a clean worker, the remembered validation of this commit and the queue row.
Validation(w, c, asked) == asked \/ evid[w][c]
IntegrateStart(w, asked) ==
  /\ ~Locked /\ enrolled[w] /\ agent[w] = "working" /\ checkout[w] = "clean" /\ itree = "clean"
  /\ ibase # "none"
  /\ row' = [row EXCEPT ![w][head[w]] = IF @ = "none" THEN "queued" ELSE @]
  /\ mergeJob' = [w |-> w, c |-> head[w], val |-> Validation(w, head[w], asked),
             at |-> IF head[w] <= merged[w] THEN "validate" ELSE "mark"]
  /\ cold' = FALSE
  /\ UNCHANGED <<wtask, agent, gitVars, cleaned, merged, evid, passed, sweep, commitVars, falls>>
IntegrateMark ==
  /\ mergeJob.at = "mark" /\ mergeJob' = [mergeJob EXCEPT !.at = "merge"]
  /\ row' = [row EXCEPT ![mergeJob.w][mergeJob.c] = "running"]
  /\ evid' = [evid EXCEPT ![mergeJob.w][mergeJob.c] = mergeJob.val]
  /\ UNCHANGED <<wtask, cold, agent, gitVars, cleaned, merged, passed, sweep, commitVars, falls>>
\* git merge; a conflict is aborted and recorded.
IntegrateMerge ==
  /\ mergeJob.at = "merge"
  /\ \/ /\ merged' = [merged EXCEPT ![mergeJob.w] = mergeJob.c] /\ passed' = FALSE
        /\ mergeJob' = [mergeJob EXCEPT !.at = "validate"] /\ UNCHANGED row
     \/ /\ row' = [row EXCEPT ![mergeJob.w][mergeJob.c] = "conflict"] /\ mergeJob' = NoMerge
        /\ UNCHANGED <<merged, passed>>
  /\ UNCHANGED <<wtask, cold, agent, gitVars, cleaned, evid, sweep, commitVars, falls>>
IntegrateValidate ==
  /\ mergeJob.at = "validate"
  /\ \/ mergeJob.val /\ passed' = TRUE /\ mergeJob' = [mergeJob EXCEPT !.at = "done"] /\ UNCHANGED <<row, evid>>
     \/ /\ mergeJob.val /\ passed' = FALSE /\ mergeJob' = NoMerge
        /\ row' = [row EXCEPT ![mergeJob.w][mergeJob.c] = "validation_failed"]
        /\ evid' = [evid EXCEPT ![mergeJob.w][mergeJob.c] = TRUE]
     \/ ~mergeJob.val /\ mergeJob' = [mergeJob EXCEPT !.at = "done"] /\ UNCHANGED <<row, evid, passed>>
  /\ UNCHANGED <<wtask, cold, agent, gitVars, cleaned, merged, sweep, commitVars, falls>>
IntegrateDone ==
  /\ mergeJob.at = "done" /\ mergeJob' = NoMerge /\ cold' = FALSE
  /\ row' = [row EXCEPT ![mergeJob.w][mergeJob.c] = "succeeded"]
  /\ UNCHANGED <<wtask, agent, gitVars, cleaned, merged, evid, passed, sweep, commitVars, falls>>
-----------------------------------------------------------------------------
(* cleanup.                                                                *)

\* inspect: the family succeeded, is cold and holds nothing; the checkout is the clean,
\* integrated head of its branch.
Protected ==
  wtask # "succeeded" \/ ~cold \/ \E w \in Crew : \/ agent[w] # "none"
                                                  \/ \E c \in Commits : row[w][c] \notin {"none", "succeeded"}
InspectUnmerged(w) == ~Protected /\ enrolled[w] /\ checkout[w] = "clean"
Inspect(w) ==
  /\ ~Protected /\ enrolled[w] /\ checkout[w] = "clean"
  /\ row[w][head[w]] = "succeeded" \/ head[w] <= merged[w]
\* remove: the intent is committed under both locks ...
CleanupIntent(w) ==
  /\ ~Locked /\ Inspect(w)
  /\ sweep' = w /\ cleaned' = [cleaned EXCEPT ![w] = [state |-> "removing", head |-> head[w]]]
  /\ UNCHANGED <<wtask, cold, agent, gitVars, mergeVars, commitVars, falls>>
\* ... and a second transaction inspects again, removes the worktree and says so. A crash
\* between Git and the commit leaves the intent.
CleanupRemove(w) ==
  /\ sweep = w /\ sweep' = "none"
  /\ IF Inspect(w) /\ head[w] = cleaned[w].head
     THEN /\ checkout' = [checkout EXCEPT ![w] = "none"]
          /\ \/ cleaned' = [cleaned EXCEPT ![w].state = "removed"] /\ UNCHANGED falls
             \/ falls < MaxFall /\ falls' = falls + 1 /\ UNCHANGED cleaned
     ELSE UNCHANGED <<checkout, cleaned, falls>>
  /\ UNCHANGED <<wtask, cold, agent, ibranch, itree, ibase, branch, head, enrolled,
                 mergeVars, commitVars>>
\* The daemon dies: locks and calls are gone, attempts end; a merge may be half done.
Fall ==
  /\ falls < MaxFall /\ falls' = falls + 1
  /\ mergeJob' = NoMerge /\ sweep' = "none" /\ cjob' = [w \in Crew |-> FALSE]
  /\ agent' = [w \in Crew |-> "none"] /\ ckey' = [w \in Crew |-> [ckey[w] EXCEPT !.same = FALSE]]
  /\ itree' \in IF mergeJob.at = "merge" THEN {itree, "dirty"} ELSE {itree}
  /\ UNCHANGED <<wtask, cold, ibranch, ibase, checkout, branch, head, enrolled, cleaned,
                 merged, row, evid, passed, made>>

WtNext ==
  \/ CreateIntegrated \/ RecordStart \/ SettleWork \/ Reopen \/ CoolDown
  \/ IntegrateMark \/ IntegrateMerge \/ IntegrateValidate \/ IntegrateDone \/ Fall
  \/ \E w \in Crew : \/ BeginAttempt(w) \/ AddWorktree(w) \/ RegisterCheckout(w) \/ Reallocate(w)
                     \/ Edit(w) \/ ShellCommit(w) \/ EndAttempt(w)
                     \/ CommitWork(w) \/ CommitAnswer(w) \/ CommitFails(w)
                     \/ \E asked \in BOOLEAN : IntegrateStart(w, asked)
                     \/ CleanupIntent(w) \/ CleanupRemove(w)

WtSpec == WtInit /\ [][WtNext]_wtVars
-----------------------------------------------------------------------------
\* The worktrees are well formed: a checkout is on an existing branch, and the integrated
\* branch has no commit its worker branch lacks.
WtTypeOK ==
  /\ wtask \in {"running", "succeeded"} /\ ibase \in {"none", "recovered"} \cup StartSources
  /\ itree \in {"none", "clean", "dirty"} /\ sweep \in Crew \cup {"none"}
  /\ \A w \in Crew : /\ agent[w] \in {"none", "starting", "working"}
                     /\ checkout[w] # "none" => branch[w]
                     /\ merged[w] <= head[w] /\ head[w] \in Commits

\* Retention removes nothing that is not kept elsewhere: when a registered checkout is
\* gone its head is in the integrated branch, and an uncommitted change never goes.
RemovedIsIntegrated ==
  [][\A w \in Crew : checkout[w] # "none" /\ checkout'[w] = "none"
       => checkout[w] = "clean" /\ head[w] <= merged[w] /\ agent[w] = "none"]_wtVars

\* A checkout that is gone can be restored, also after a crash between Git's removal and
\* its receipt: its receipt names the head of the retained branch.
RemovedIsRestorable ==
  \A w \in Crew : enrolled[w] /\ checkout[w] = "none" =>
    /\ branch[w] /\ cleaned[w] # NoMark /\ RestoreHead(w) = head[w]

\* No old receipt stands against a working checkout: an attempt that works has none, so
\* that its commits cannot make a later restore fail.
WorkingHasNoReceipt == \A w \in Crew : agent[w] = "working" => cleaned[w] = NoMark

\* A validation that was recorded with a merge is never skipped: the integration is
\* only called succeeded once it passed on the branch with the merge, also when a crash
\* or a failure came in between and the retry did not name it.
RecordedValidationHolds ==
  [][\A w \in Crew, c \in Commits :
       row[w][c] # "succeeded" /\ row'[w][c] = "succeeded" =>
         /\ c <= merged[w]
         /\ evid[w][c] => passed]_wtVars

\* One commit per idempotency key: a request that is repeated after a crash or a failed
\* check finds the commit it made, and its answer names a commit on the branch.
OneCommitPerKey ==
  \A w \in Crew : made[w] <= 1 /\ (ckey[w].state = "succeeded" => ckey[w].commit = ckey[w].parent + 1)

\* The invariants together: what every request, crash and retry above must preserve.
WtInv ==
  /\ WtTypeOK
  /\ RemovedIsRestorable
  /\ WorkingHasNoReceipt
  /\ OneCommitPerKey
=============================================================================
