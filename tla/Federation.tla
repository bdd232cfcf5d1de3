----------------------------- MODULE Federation -----------------------------
(***************************************************************************)
(* A controller's tasks executed by a worker runtime (federation.rs,       *)
(* federation/placement.rs, remote_submit.rs).                             *)
(*                                                                         *)
(* The controller's tick reads its links once and walks them, one call at  *)
(* a time: it sends the assignment, passes cancellation on, asks for the   *)
(* status and commits the outcome. The worker's tick fetches the owner's   *)
(* contract and applies it, or blocks the task when it cannot. A call may  *)
(* fail at the caller and be carried out all the same, then or later.      *)
(* Operators cancel, revise, revoke the worker's grant and change the      *)
(* context meanwhile, and the worker may crash.                            *)
(***************************************************************************)
EXTENDS Naturals, FiniteSets

CONSTANTS
  Delegated,     \* tasks of one root placed on the worker
  RemoteRoots,   \* those that are roots themselves (remote_submit.rs)
  Workers,       \* limits.workers of the root: remote links and attempts at a time
  Revisions,     \* sets of steps an operator adds
  MaxContext,    \* bound: versions of the root's context
  MaxFailed      \* bound: the controller's calls given up, requests lost, worker crashes

ASSUME FederationAssumption ==
  Workers \in Nat \ {0} /\ MaxContext \in Nat \ {0} /\ MaxFailed \in Nat

VARIABLES
  \* the controller
  fstatus,     \* tasks.status
  flink,       \* remote_links.state
  fplan,       \* revisions committed to tasks.plan
  fversion,    \* task_tree.version of the root
  fpacket,     \* fpacket[t]: context version in the artifact federation-input, 0 if none
  fgrant,      \* the worker is granted the project
  ftick,       \* the tick's place and what it read
  revising,    \* revising[t]: the revision an RPC thread is sending
  \* the worker
  rtask,       \* its copy of each task
  sync,        \* sync[t]: the owner's reply its tick holds
  \* the network
  wire,        \* requests to the worker not yet carried out
  failed       \* calls given up and crashes so far

fcontroller == <<fstatus, flink, fplan, fversion, fpacket, fgrant, ftick, revising>>
fedVars     == <<fcontroller, rtask, sync, wire, failed>>

FedTerminal == {"succeeded", "failed", "cancelled"}
NoRevision  == "none"
NoRevising  == [rev |-> NoRevision, done |-> FALSE]
NoSync      == [is |-> "none", version |-> 0]
Idle        == [at |-> "idle", task |-> "none", todo |-> {}, seen |-> <<>>,
                reply |-> "none", version |-> 0, cancelled |-> FALSE]
\* No such task on the worker. copies: tasks created for this assignment; adds: how
\* often each revision's steps were added; mark: external_ops federation.sync is blocked;
\* act: what the task's attempt is doing; told: a cancellation was carried out here.
Absent == [status |-> "none", version |-> 0, copies |-> 0, adds |-> [r \in Revisions |-> 0],
           mark |-> FALSE, act |-> "none", told |-> FALSE]
RemoteLive(t) == rtask[t].status \in {"running", "blocked"}

FedInit ==
  /\ fstatus \in [Delegated -> {"none", "running"}] /\ flink = [t \in Delegated |-> "none"]
  /\ fpacket = [t \in Delegated |-> 0]
  /\ fplan = [t \in Delegated |-> {}] /\ fversion = 1 /\ fgrant = TRUE /\ ftick = Idle
  /\ revising = [t \in Delegated |-> NoRevising]
  /\ rtask = [t \in Delegated |-> Absent] /\ sync = [t \in Delegated |-> NoSync]
  /\ wire = {} /\ failed = 0
-----------------------------------------------------------------------------
(* How a task gets its link.                                               *)

\* submit, or delegate_task naming a worker: the task is remote from the start.
SubmitRemote(t) ==
  /\ fstatus[t] = "none"
  /\ fstatus' = [fstatus EXCEPT ![t] = "remote"] /\ flink' = [flink EXCEPT ![t] = "pending"]
  /\ UNCHANGED <<fplan, fversion, fpacket, fgrant, ftick, revising, rtask, sync, wire, failed>>
\* route_queued: a task that has not started and finds no local slot. It was running when
\* the scheduler looked; a cancellation since is kept.
RouteQueued(t) ==
  /\ fstatus[t] \in {"running", "cancelled"} /\ flink[t] = "none" /\ fgrant
  /\ fstatus' = [fstatus EXCEPT ![t] = IF @ = "running" THEN "remote" ELSE @]
  /\ flink' = [flink EXCEPT ![t] = "pending"]
  /\ UNCHANGED <<fplan, fversion, fpacket, fgrant, ftick, revising, rtask, sync, wire, failed>>
-----------------------------------------------------------------------------
(* The controller's tick over its links.                                   *)

Seen(t) == ftick.seen[t]
FedRequest(op, arg) ==
  /\ wire' = wire \cup {[op |-> op, task |-> ftick.task, arg |-> arg]}
  /\ ftick' = [ftick EXCEPT !.at = op, !.reply = "none"]
\* The tick turns to the next link, or ends.
Leave == ftick' = [ftick EXCEPT !.at = "next", !.task = "none", !.reply = "none",
                                !.version = 0, !.cancelled = FALSE]

\* tick: the links that are not done, with the task's status of this moment.
FedTick ==
  /\ ftick.at = "idle"
  /\ LET open == {t \in Delegated : flink[t] \notin {"none", "done"}} IN
       /\ open # {}
       /\ ftick' = [Idle EXCEPT !.at = "next", !.todo = open,
                      !.seen = [t \in open |-> [state |-> flink[t], status |-> fstatus[t]]]]
  /\ UNCHANGED <<fstatus, flink, fplan, fversion, fpacket, fgrant, revising, rtask, sync, wire, failed>>
TickLink(t) ==
  /\ ftick.at = "next" /\ t \in ftick.todo
  /\ ftick' = [ftick EXCEPT !.at = "link", !.task = t, !.todo = @ \ {t}]
  /\ UNCHANGED <<fstatus, flink, fplan, fversion, fpacket, fgrant, revising, rtask, sync, wire, failed>>
TickOver ==
  /\ ftick.at = "next" /\ ftick.todo = {} /\ ftick' = Idle
  /\ UNCHANGED <<fstatus, flink, fplan, fversion, fpacket, fgrant, revising, rtask, sync, wire, failed>>

\* capacity: attempts and remote links of the root below limits.workers.
InFlight == {u \in Delegated : flink[u] \in {"sending", "running"}}
CapacityOf(t) == Cardinality(InFlight) < Workers

\* A pending link of a cancelled task was never sent. Another waits for capacity; a link
\* being sent is sent again, the prepared packet being the same artifact.
DropPending ==
  /\ ftick.at = "link" /\ Seen(ftick.task) = [state |-> "pending", status |-> "cancelled"]
  /\ flink' = [flink EXCEPT ![ftick.task] = "done"] /\ Leave
  /\ UNCHANGED <<fstatus, fplan, fversion, fpacket, fgrant, revising, rtask, sync, wire, failed>>
PreparedPacket(t) == IF fpacket[t] = 0 THEN fversion ELSE fpacket[t]
SendAssignment ==
  LET t == ftick.task IN
  /\ ftick.at = "link" /\ Seen(t).state \in {"pending", "sending"}
  /\ Seen(t) # [state |-> "pending", status |-> "cancelled"]
  /\ IF (Seen(t).state = "pending" /\ ~CapacityOf(t)) \/ ~fgrant
     THEN Leave /\ UNCHANGED <<flink, fpacket, wire>>
     ELSE /\ fpacket' = [fpacket EXCEPT ![t] = PreparedPacket(t)]
          /\ flink' = [flink EXCEPT ![t] = "sending"] /\ FedRequest("accept", NoRevision)
  /\ UNCHANGED <<fstatus, fplan, fversion, fgrant, revising, rtask, sync, failed>>
Accepted ==
  /\ ftick.at = "accept" /\ ftick.reply = "ok"
  /\ flink' = [flink EXCEPT ![ftick.task] = "running"] /\ Leave
  /\ UNCHANGED <<fstatus, fplan, fversion, fpacket, fgrant, revising, rtask, sync, wire, failed>>

\* A running link: a revoked grant cancels the worker's task first and the own one when
\* that returned; a task that was cancelled when the links were read is cancelled there;
\* then the status is asked for.
FollowLink ==
  LET t == ftick.task IN
  /\ ftick.at = "link" /\ Seen(t).state = "running"
  /\ IF ~fgrant /\ fstatus[t] # "cancelled" THEN FedRequest("revoke", NoRevision)
     ELSE IF Seen(t).status = "cancelled" THEN FedRequest("cancel", NoRevision)
     ELSE FedRequest("status", NoRevision)
  /\ UNCHANGED <<fstatus, flink, fplan, fversion, fpacket, fgrant, revising, rtask, sync, failed>>
CancelRevoked ==
  LET t == ftick.task IN
  /\ ftick.at = "revoke" /\ ftick.reply = "ok"
  /\ fstatus' = [fstatus EXCEPT ![t] = "cancelled"]
  /\ FedRequest(IF Seen(t).status = "cancelled" THEN "cancel" ELSE "status", NoRevision)
  /\ UNCHANGED <<flink, fplan, fversion, fpacket, fgrant, revising, rtask, sync, failed>>
CancelPassed ==
  /\ ftick.at = "cancel" /\ ftick.reply = "ok" /\ FedRequest("status", NoRevision)
  /\ UNCHANGED <<fstatus, flink, fplan, fversion, fpacket, fgrant, revising, rtask, sync, failed>>

\* The status reply. A cancellation committed since the links were read must reach the
\* worker first; a success under another version of the contract blocks the task.
JudgeStatusBlind ==
  LET t == ftick.task
      c == fstatus[t] = "cancelled" IN
  /\ ftick.at = "status" /\ ftick.reply # "none"
  /\ \/ ~c /\ ftick.reply = "succeeded" /\ ftick.version # fversion
        /\ fstatus' = [fstatus EXCEPT ![t] = "blocked"] /\ Leave
     \/ ftick.reply \notin FedTerminal /\ Leave /\ UNCHANGED fstatus
     \/ ftick.reply \in FedTerminal /\ (c \/ ftick.reply # "succeeded" \/ ftick.version = fversion)
        /\ ftick' = [ftick EXCEPT !.at = "commit", !.cancelled = c] /\ UNCHANGED fstatus
  /\ UNCHANGED <<flink, fplan, fversion, fpacket, fgrant, revising, rtask, sync, wire, failed>>
JudgeStatus ==
  LET t == ftick.task
      c == fstatus[t] = "cancelled"
      unsaid == c /\ Seen(t).status # "cancelled"
      stale == ~c /\ ftick.reply = "succeeded" /\ ftick.version # fversion IN
  /\ ftick.at = "status" /\ ftick.reply # "none"
  /\ \/ unsaid /\ Leave /\ UNCHANGED fstatus
     \/ stale /\ fstatus' = [fstatus EXCEPT ![t] = "blocked"] /\ Leave
     \/ ~unsaid /\ ~stale /\ ftick.reply \notin FedTerminal /\ Leave /\ UNCHANGED fstatus
     \/ ~unsaid /\ ~stale /\ ftick.reply \in FedTerminal
        /\ ftick' = [ftick EXCEPT !.at = "commit", !.cancelled = c] /\ UNCHANGED fstatus
  /\ UNCHANGED <<flink, fplan, fversion, fpacket, fgrant, revising, rtask, sync, wire, failed>>
\* The transaction that takes a child's outcome. What it writes was decided before it
\* began; a root's own (complete) looks at the status again.
TakeOutcome ==
  LET t == ftick.task IN
  /\ ftick.at = "commit" /\ t \notin RemoteRoots
  /\ fstatus' = [fstatus EXCEPT ![t] = IF ftick.cancelled THEN "cancelled" ELSE ftick.reply]
  /\ flink' = [flink EXCEPT ![t] = "done"] /\ Leave
  /\ UNCHANGED <<fplan, fversion, fpacket, fgrant, revising, rtask, sync, wire, failed>>

CompleteRoot ==
  LET t == ftick.task IN
  /\ ftick.at = "commit" /\ t \in RemoteRoots
  /\ fstatus' = [fstatus EXCEPT ![t] = IF @ = "cancelled" THEN @ ELSE ftick.reply]
  /\ flink' = [flink EXCEPT ![t] = "done"] /\ Leave
  /\ UNCHANGED <<fplan, fversion, fpacket, fgrant, revising, rtask, sync, wire, failed>>

\* The call fails here; the request may still be on its way. The link is tried again by
\* the next tick (event federation.retry_pending).
CallFails ==
  /\ ftick.at \in {"accept", "revoke", "cancel", "status"} /\ failed < MaxFailed
  /\ failed' = failed + 1 /\ Leave
  /\ UNCHANGED <<fstatus, flink, fplan, fversion, fpacket, fgrant, revising, rtask, sync, wire>>
-----------------------------------------------------------------------------
(* The worker's handlers.                                                  *)

\* accept: the same owner task is answered with the task that exists.
AcceptHere(m) ==
  IF rtask[m.task].copies > 0 THEN rtask
  ELSE [rtask EXCEPT ![m.task] = [Absent EXCEPT !.status = "running", !.version = fpacket[m.task],
                                                !.copies = 1]]
\* cancel: whatever the task's status.
CancelHere(m) == [rtask EXCEPT ![m.task].status = "cancelled", ![m.task].told = TRUE]
\* revise: the receipt of the same steps answers a repeated request; add_steps and
\* resume commit together with it, and resume refuses a task with an attempt at work.
Revised(m)   == rtask[m.task].adds[m.arg] > 0
ReviseHere(m) ==
  IF Revised(m) THEN rtask
  ELSE [rtask EXCEPT ![m.task].adds[m.arg] = @ + 1, ![m.task].status = "running"]
Refused(m) == m.op = "revise" /\ ~Revised(m) /\ rtask[m.task].act # "none"

Handle(m) ==
  /\ m \in wire /\ wire' = wire \ {m}
  /\ m.op = "accept" \/ rtask[m.task].copies > 0
  /\ rtask' = CASE m.op = "accept" -> AcceptHere(m)
                [] m.op \in {"cancel", "revoke"} -> CancelHere(m)
                [] m.op = "revise" /\ ~Refused(m) -> ReviseHere(m)
                [] OTHER -> rtask
  /\ ftick' = IF ftick.at = m.op /\ ftick.task = m.task /\ ftick.reply = "none"
              THEN [ftick EXCEPT !.reply = IF m.op = "status" THEN rtask[m.task].status ELSE "ok",
                                 !.version = rtask[m.task].version]
              ELSE ftick
  /\ UNCHANGED <<fstatus, flink, fplan, fversion, fpacket, fgrant, sync, failed>>
  /\ revising' = IF m.op = "revise" /\ revising[m.task].rev = m.arg
                 THEN [revising EXCEPT ![m.task] = IF Refused(m) THEN NoRevising
                                                   ELSE [@ EXCEPT !.done = TRUE]]
                 ELSE revising
LoseRequest(m) ==
  /\ m \in wire /\ failed < MaxFailed /\ failed' = failed + 1 /\ wire' = wire \ {m}
  /\ UNCHANGED <<fcontroller, rtask, sync>>
-----------------------------------------------------------------------------
(* The worker's tick over its origins, and its attempts.                   *)

\* the sync call about a task
SyncCall(t) ==
  /\ sync[t] = NoSync
  /\ sync' = [sync EXCEPT ![t] = IF fgrant THEN [is |-> fstatus[t], version |-> fversion]
                                 ELSE [is |-> "failed call", version |-> 0]]
  /\ UNCHANGED <<fcontroller, rtask, wire, failed>>
SyncAsk(t) == RemoteLive(t) /\ SyncCall(t)
\* A terminal task is left alone, unless it has an environment that was not removed.
SyncTerminal(t) == rtask[t].status \in FedTerminal /\ SyncCall(t)
SyncFails(t) ==
  /\ sync[t] = NoSync /\ RemoteLive(t)
  /\ sync' = [sync EXCEPT ![t] = [is |-> "failed call", version |-> 0]]
  /\ UNCHANGED <<fcontroller, rtask, wire, failed>>

\* The transaction that applies the reply: a task that only the lost contact blocked runs
\* again, unless an attempt of it is uncertain; the owner's cancellation cancels it.
Unblocks(t) == rtask[t].status = "blocked" /\ rtask[t].mark /\ rtask[t].act # "uncertain"
AdoptUncancelled(t) ==
  [rtask[t] EXCEPT !.mark = FALSE, !.version = sync[t].version,
                   !.status = IF Unblocks(t) THEN "running" ELSE @]
Adopt(t) ==
  LET woken == IF Unblocks(t) THEN "running" ELSE rtask[t].status IN
  [rtask[t] EXCEPT !.mark = FALSE, !.version = sync[t].version,
                   !.status = IF sync[t].is = "cancelled" THEN "cancelled" ELSE woken,
                   !.told = @ \/ sync[t].is = "cancelled"]
SyncApply(t) ==
  /\ sync[t].is \notin {"none", "failed call"}
  /\ rtask' = [rtask EXCEPT ![t] = Adopt(t)]
  /\ sync' = [sync EXCEPT ![t] = NoSync]
  /\ UNCHANGED <<fcontroller, wire, failed>>
\* block_sync
BlockSync(t) ==
  /\ sync[t].is = "failed call"
  /\ rtask' = IF rtask[t].status = "running"
              THEN [rtask EXCEPT ![t].status = "blocked", ![t].mark = TRUE] ELSE rtask
  /\ sync' = [sync EXCEPT ![t] = NoSync]
  /\ UNCHANGED <<fcontroller, wire, failed>>

\* An attempt starts, and ends the task one way or the other if it still runs; a crash
\* leaves it uncertain and its task blocked until an operator reconciles and resumes.
Attempt(t) ==
  /\ rtask[t].status = "running" /\ rtask[t].act = "none"
  /\ rtask' = [rtask EXCEPT ![t].act = "running"]
  /\ UNCHANGED <<fcontroller, sync, wire, failed>>
AttemptOver(t) ==
  /\ rtask[t].act = "running"
  /\ \E o \in {"succeeded", "failed"} :
       rtask' = [rtask EXCEPT ![t].act = "none",
                              ![t].status = IF @ = "running" THEN o ELSE @]
  /\ UNCHANGED <<fcontroller, sync, wire, failed>>
WorkerCrash ==
  /\ failed < MaxFailed /\ failed' = failed + 1
  /\ \E t \in Delegated : rtask[t].act = "running"
  /\ rtask' = [t \in Delegated |->
                 IF rtask[t].act = "running"
                 THEN [rtask[t] EXCEPT !.act = "uncertain",
                                       !.status = IF @ = "running" THEN "blocked" ELSE @]
                 ELSE rtask[t]]
  /\ sync' = [t \in Delegated |-> NoSync]
  /\ UNCHANGED <<fcontroller, wire>>
ReconcileResume(t) ==
  /\ rtask[t].act = "uncertain"
  /\ \E st \in {rtask[t].status, "running"} :
       rtask' = [rtask EXCEPT ![t].act = "none", ![t].status = st]
  /\ UNCHANGED <<fcontroller, sync, wire, failed>>
-----------------------------------------------------------------------------
(* Operators of the controller.                                            *)

CancelDelegated(t) ==
  /\ fstatus[t] \notin {"none", "cancelled"} /\ fstatus' = [fstatus EXCEPT ![t] = "cancelled"]
  /\ UNCHANGED <<flink, fplan, fversion, fpacket, fgrant, ftick, revising, rtask, sync, wire, failed>>
\* update_context: a finished task needs revalidation under the new version.
ChangeContext ==
  /\ fversion < MaxContext /\ fversion' = fversion + 1
  /\ fstatus' = [t \in Delegated |-> IF fstatus[t] = "succeeded" THEN "blocked" ELSE fstatus[t]]
  /\ UNCHANGED <<flink, fplan, fpacket, fgrant, ftick, revising, rtask, sync, wire, failed>>
RevokeWorker ==
  /\ fgrant /\ fgrant' = FALSE
  /\ UNCHANGED <<fstatus, flink, fplan, fversion, fpacket, ftick, revising, rtask, sync, wire, failed>>

\* revise_child: the receipt is looked up, the worker is asked, and the answer is
\* committed over whatever the task has become meanwhile.
ReviseAsk(t, r) ==
  /\ revising[t] = NoRevising /\ r \notin fplan[t] /\ flink[t] \in {"running", "done"}
  /\ rtask[t].copies > 0
  /\ revising' = [revising EXCEPT ![t].rev = r]
  /\ wire' = wire \cup {[op |-> "revise", task |-> t, arg |-> r]}
  /\ UNCHANGED <<fstatus, flink, fplan, fversion, fpacket, fgrant, ftick, rtask, sync, failed>>
ReviseCommit(t) ==
  /\ revising[t].done
  /\ fplan' = [fplan EXCEPT ![t] = @ \cup {revising[t].rev}]
  /\ flink' = [flink EXCEPT ![t] = "running"] /\ fstatus' = [fstatus EXCEPT ![t] = "remote"]
  /\ revising' = [revising EXCEPT ![t] = NoRevising]
  /\ UNCHANGED <<fversion, fpacket, fgrant, ftick, rtask, sync, wire, failed>>
ReviseFails(t) ==
  /\ revising[t] # NoRevising /\ failed < MaxFailed /\ failed' = failed + 1
  /\ revising' = [revising EXCEPT ![t] = NoRevising]
  /\ UNCHANGED <<fstatus, flink, fplan, fversion, fpacket, fgrant, ftick, rtask, sync, wire>>
-----------------------------------------------------------------------------
FedLinks ==
  \/ FedTick \/ (\E t \in Delegated : TickLink(t)) \/ TickOver \/ DropPending
  \/ SendAssignment \/ Accepted \/ FollowLink \/ CancelRevoked \/ CancelPassed
  \/ JudgeStatus \/ TakeOutcome \/ CompleteRoot
FedPlaced == \E t \in Delegated : SubmitRemote(t) \/ RouteQueued(t)
FedWorker == \E t \in Delegated :
  SyncAsk(t) \/ SyncTerminal(t) \/ SyncApply(t) \/ BlockSync(t) \/ Attempt(t) \/ AttemptOver(t) \/ ReconcileResume(t)
FedFaults ==
  CallFails \/ WorkerCrash \/ (\E m \in wire : LoseRequest(m)) \/ (\E t \in Delegated : SyncFails(t))
FedOperator ==
  \/ ChangeContext \/ RevokeWorker
  \/ \E t \in Delegated : CancelDelegated(t) \/ ReviseCommit(t) \/ ReviseFails(t)
                          \/ (\E r \in Revisions : ReviseAsk(t, r))
FedNext == FedPlaced \/ FedLinks \/ FedWorker \/ FedFaults \/ FedOperator \/ (\E m \in wire : Handle(m))

FedSpec == FedInit /\ [][FedNext]_fedVars
-----------------------------------------------------------------------------
FedTypeOK ==
  /\ fstatus \in [Delegated -> {"none", "running", "remote", "blocked"} \cup FedTerminal]
  /\ flink \in [Delegated -> {"none", "pending", "sending", "running", "done"}]
  /\ fplan \in [Delegated -> SUBSET Revisions]
  /\ fversion \in 1..MaxContext /\ fpacket \in [Delegated -> 0..MaxContext] /\ fgrant \in BOOLEAN
  /\ ftick.at \in {"idle", "next", "link", "accept", "revoke", "cancel", "status", "commit"}
  /\ \A t \in Delegated : rtask[t].status \in {"none", "running", "blocked"} \cup FedTerminal

\* However often an assignment is sent, and whichever replies are lost, the worker has one
\* task for it and has added the steps of a revision once.
CarriedOutOnce ==
  \A t \in Delegated : rtask[t].copies <= 1 /\ \A r \in Revisions : rtask[t].adds[r] <= 1

\* The controller counts a revision into the plan only when the worker has it: the plan
\* against which the result is integrated is never ahead of the work.
PlanFollowsWorker ==
  \A t \in Delegated : \A r \in fplan[t] : rtask[t].adds[r] > 0

\* A task on the worker exists only under a link that counts against the root's capacity,
\* until its outcome was taken: no work runs that nobody is accountable for.
WorkIsLinked ==
  \A t \in Delegated : rtask[t].copies > 0 => flink[t] \notin {"none", "pending"}

\* "A cancellation committed while status was in flight must reach the worker before its
\* reservation is released": a tick that takes an outcome as cancelled has told the worker.
CancelReachesWorker ==
  [][\A t \in Delegated :
       (flink[t] # "done" /\ flink'[t] = "done" /\ ftick.cancelled) => rtask[t].told]_fedVars

\* Contact restored never restarts a task whose attempt was lost in a crash: the operator
\* reconciles it first.
UncertainStaysBlocked ==
  [][\A t \in Delegated :
       (rtask[t].act = "uncertain" /\ rtask'[t].act = "uncertain" /\ rtask[t].status = "blocked")
         => rtask'[t].status # "running"]_fedVars

\* A task that stays cancelled at the controller stops for good at the worker, whatever
\* was lost on the way and whatever revision arrived late.
CancelStopsWorker ==
  \A t \in Delegated :
    <>[](fstatus[t] = "cancelled") => <>[](rtask[t].status # "running")

\* The invariants together: what every request, crash and retry above must preserve.
FedInv ==
  /\ FedTypeOK
  /\ CarriedOutOnce
  /\ PlanFollowsWorker
  /\ WorkIsLinked
=============================================================================
