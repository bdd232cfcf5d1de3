--------------------------------- MODULE Ax ---------------------------------
(* A worker that runs as a Task of an AX deployment (src/src/fleet/ax.rs,      *)
(* src/src/fleet/ax_spec.rs): the controller performs its requests one call at *)
(* a time and comes back to those that must wait, AX moves the Task through    *)
(* its phases by itself, and the Horde worker inside it drains and resumes.    *)
(* The Task, its Gateway and its Workspace are named by a random owner.        *)
EXTENDS Integers, Sequences, FiniteSets

CONSTANTS AxActs,                 \* the kinds of request
          MaxAxOps, MaxAxFaults   \* bounds: requests; crashes, refused and lost calls, edits by others

ASSUME AxAssumption == MaxAxOps \in Nat /\ MaxAxFaults \in Nat

VARIABLES axOps,     \* runtime_operations of the runtime: [act, st]
          axCur,     \* the ticker: [row, pc, seen, fit]; seen is the Task as get returned it, fit the objects delete_aux found in order
          axBox,     \* managed_runtimes: [st, res]
          axOwner,   \* ax_owner:<id> is recorded
          axHold,    \* ax_hold:<id>
          axPacket,  \* the bootstrap packet is persisted
          axEnr,     \* runtime_enrollments.state
          axAsked,   \* ax_delete_request:<id>: the row whose delete was decided (0: none)
          axTask,    \* the Task in AX: [ph, susp]
          axAux,     \* Gateway and Workspace: "none", "ours" or "edited"
          axSent,    \* how many delete_task calls each row made
          axWorker,  \* the Horde worker: [boot, drain, task, tick, busy]; tick: its scheduler found it not draining,
                     \* busy: "no", "yes" or "late" (the attempt began after the drain was set)
          axFaults

axVars == <<axOps, axCur, axBox, axOwner, axHold, axPacket, axEnr, axAsked, axTask, axAux, axSent, axWorker, axFaults>>

AxRows == 1 .. MaxAxOps
AxOpen == {"pending", "waiting", "running"}
AxNoTask == [ph |-> "none", susp |-> FALSE]
AxIdle == [row |-> 0, pc |-> "idle", seen |-> AxNoTask, fit |-> {}]

AxInit ==
    /\ axOps = <<>> /\ axCur = AxIdle /\ axBox = [st |-> "none", res |-> FALSE]
    /\ axOwner = FALSE /\ axHold = FALSE /\ axPacket = FALSE /\ axEnr = "none" /\ axAsked = 0
    /\ axTask = AxNoTask /\ axAux = [k \in {"gateway", "workspace"} |-> "none"] /\ axSent = [i \in AxRows |-> 0]
    /\ axWorker = [boot |-> FALSE, drain |-> FALSE, task |-> FALSE, tick |-> FALSE, busy |-> "no"] /\ axFaults = 0

AxFault == axFaults < MaxAxFaults /\ axFaults' = axFaults + 1
AxAct == axOps[axCur.row].act
AxGo(pc) == axCur' = [axCur EXCEPT !.pc = pc]
AxSettle(st) == axOps' = [axOps EXCEPT ![axCur.row].st = st] /\ axCur' = AxIdle
AxRunning(t) == t.ph = "Running"
\* the worker answers on its authenticated stream
Reachable == AxRunning(axTask) /\ axWorker.boot /\ axEnr = "active"

\* enqueue_operation: a lifecycle request holds dispatch in the transaction that records it
AxRequest(act) ==
    /\ Len(axOps) < MaxAxOps /\ (act = "create") = (axBox.st = "none")
    /\ axOps' = Append(axOps, [act |-> act, st |-> "pending"])
    /\ axBox' = IF act = "create" THEN [axBox EXCEPT !.st = "requested"] ELSE axBox
    /\ axHold' = (axHold \/ act \in {"start", "stop", "destroy"})
    /\ UNCHANGED <<axCur, axOwner, axPacket, axEnr, axAsked, axTask, axAux, axSent, axWorker, axFaults>>

\* tick: rows of a runtime in order, reconciliation at any time; nothing on a removed runtime or one without resource
AxPick(i) ==
    /\ axCur = AxIdle /\ i \in DOMAIN axOps /\ axOps[i].st \in {"pending", "waiting"}
    /\ axOps[i].act = "reconcile" \/ \A j \in 1 .. i - 1 : axOps[j].st \notin AxOpen
    /\ IF axBox.st = "removed" \/ (axOps[i].act \notin {"create", "reconcile"} /\ ~axBox.res)
          \/ (axOps[i].act # "create" /\ ~axOwner)
       THEN axOps' = [axOps EXCEPT ![i].st = "uncertain"] /\ UNCHANGED axCur
       ELSE axOps' = [axOps EXCEPT ![i].st = "running"]
            /\ axCur' = [row |-> i, pc |-> IF axOps[i].act = "create" THEN "issue" ELSE "get", seen |-> AxNoTask, fit |-> {}]
    /\ UNCHANGED <<axBox, axOwner, axHold, axPacket, axEnr, axAsked, axTask, axAux, axSent, axWorker, axFaults>>

\* a call AX refuses or that never reaches it
AxCallFails ==
    /\ axCur.pc \in {"get", "aux", "task", "poll", "suspend", "delete", "clean", "look", "dropGateway", "dropWorkspace", "resume", "boot"}
    /\ AxFault /\ AxSettle("uncertain")
    /\ UNCHANGED <<axBox, axOwner, axHold, axPacket, axEnr, axAsked, axTask, axAux, axSent, axWorker>>

\* what follows a call that had its effect: its answer may still be lost
AxReplied(go) == \/ go /\ UNCHANGED axFaults
                 \/ AxFault /\ AxSettle("uncertain")

(* ------------------------------ provisioning ---------------------------- *)
\* enrollment::issue returns the packet, then persist_bootstrap writes it
AxIssue ==
    /\ axCur.pc = "issue" /\ axEnr' = "pending" /\ AxGo("persist")
    /\ UNCHANGED <<axOps, axBox, axOwner, axHold, axPacket, axAsked, axTask, axAux, axSent, axWorker, axFaults>>

AxPersist ==
    /\ axCur.pc = "persist" /\ axPacket' = TRUE /\ AxGo("own")
    /\ UNCHANGED <<axOps, axBox, axOwner, axHold, axEnr, axAsked, axTask, axAux, axSent, axWorker, axFaults>>

\* the owner and the resource are committed before the first external write
AxRecordOwner ==
    /\ axCur.pc = "own" /\ axOwner' = TRUE /\ AxGo("claim")
    /\ UNCHANGED <<axOps, axBox, axHold, axPacket, axEnr, axAsked, axTask, axAux, axSent, axWorker, axFaults>>

AxRecordResource ==
    /\ axCur.pc = "claim" /\ axBox' = [axBox EXCEPT !.res = TRUE] /\ AxGo("aux")
    /\ UNCHANGED <<axOps, axOwner, axHold, axPacket, axEnr, axAsked, axTask, axAux, axSent, axWorker, axFaults>>

\* the object is the one workspace() or gateway() specifies for this profile, name and packet
AsSpecified(k) == axAux[k] # "edited"
\* the Task spec::task() asks for
NewTask == [ph |-> "Pending", susp |-> FALSE]

\* ensure_aux, one object at a time: the Workspace, then the Gateway
AxEnsureAux(k) ==
    /\ axCur.pc = "aux" /\ k = (IF axAux["workspace"] = "none" THEN "workspace" ELSE "gateway")
    /\ IF ~AsSpecified(k) \/ ~AsSpecified("workspace")
       THEN AxSettle("uncertain") /\ UNCHANGED <<axAux, axFaults>>
       ELSE /\ axAux' = [axAux EXCEPT ![k] = "ours"]
            /\ AxReplied(AxGo(IF k = "gateway" THEN "task" ELSE "aux") /\ UNCHANGED axOps)
    /\ UNCHANGED <<axBox, axOwner, axHold, axPacket, axEnr, axAsked, axTask, axSent, axWorker>>

AxUpdateTask ==
    /\ axCur.pc = "task"
    /\ axTask' = IF axTask = AxNoTask THEN NewTask ELSE axTask
    /\ AxReplied(AxGo("poll") /\ UNCHANGED axOps)
    /\ UNCHANGED <<axBox, axOwner, axHold, axPacket, axEnr, axAsked, axAux, axSent, axWorker>>

\* the loop of provision: a ready Task is given its packet, a failed or a late one is left for reconciliation
AxPoll ==
    /\ axCur.pc = "poll"
    /\ \/ AxRunning(axTask) /\ axWorker' = [axWorker EXCEPT !.boot = TRUE] /\ AxReplied(AxGo("created") /\ UNCHANGED axOps)
       \/ axTask.ph = "Failed" /\ AxSettle("uncertain") /\ UNCHANGED <<axWorker, axFaults>>
       \/ ~AxRunning(axTask) /\ AxFault /\ AxSettle("uncertain") /\ UNCHANGED axWorker
    /\ UNCHANGED <<axBox, axOwner, axHold, axPacket, axEnr, axAsked, axTask, axAux, axSent>>

(* ------------------------------- lifecycle ------------------------------ *)
\* get_task and verify_task; reconcile gives a running Task its packet again
AxGet ==
    /\ axCur.pc = "get"
    /\ axCur' = [axCur EXCEPT !.seen = axTask, !.pc = IF AxAct = "destroy" /\ axTask = AxNoTask THEN "clean" ELSE "decide"]
    /\ UNCHANGED <<axOps, axBox, axOwner, axHold, axPacket, axEnr, axAsked, axTask, axAux, axSent, axWorker, axFaults>>


AxReconcile ==
    /\ axCur.pc = "decide" /\ AxAct = "reconcile"
    /\ axWorker' = IF AxRunning(axCur.seen) /\ AxRunning(axTask) THEN [axWorker EXCEPT !.boot = TRUE] ELSE axWorker
    /\ axBox' = [axBox EXCEPT !.res = TRUE, !.st = CASE axCur.seen.ph = "Suspended" -> "stopped"
                                                     [] AxRunning(axCur.seen) -> "provisioned" [] OTHER -> "uncertain"]
    /\ AxGo("close")
    /\ UNCHANGED <<axOps, axOwner, axHold, axPacket, axEnr, axAsked, axTask, axAux, axSent, axFaults>>

AxAbsent ==
    /\ axCur.pc = "decide" /\ AxAct \in {"start", "stop"} /\ axCur.seen = AxNoTask /\ AxSettle("uncertain")
    /\ UNCHANGED <<axBox, axOwner, axHold, axPacket, axEnr, axAsked, axTask, axAux, axSent, axWorker, axFaults>>

\* the drain is skipped for a Task that is down already, and on destroy for a worker that never enrolled
NeedsDrain == /\ axCur.seen.ph \notin {"Suspended", "Terminating"}
              /\ ~(AxAct = "destroy" /\ axEnr = "pending")
\* what follows when the worker is known to be idle
AfterDrain == IF AxAct = "destroy" THEN "ask" ELSE IF axCur.seen.ph = "Suspended" THEN "stopped" ELSE "suspend"

AxHoldDownBlind ==
    /\ axCur.pc = "decide" /\ AxAct \in {"stop", "destroy"} /\ axCur.seen # AxNoTask /\ axHold' = TRUE
    /\ AxGo(AfterDrain)
    /\ UNCHANGED <<axOps, axBox, axOwner, axPacket, axEnr, axAsked, axTask, axAux, axSent, axWorker, axFaults>>

\* stop and destroy: dispatch is held, then the worker is asked to drain
AxHoldDown ==
    /\ axCur.pc = "decide" /\ AxAct \in {"stop", "destroy"} /\ axCur.seen # AxNoTask /\ axHold' = TRUE
    /\ AxGo(IF NeedsDrain THEN "drain" ELSE AfterDrain)
    /\ UNCHANGED <<axOps, axBox, axOwner, axPacket, axEnr, axAsked, axTask, axAux, axSent, axWorker, axFaults>>


\* runtime_drain: the worker takes no more work and says whether it has any; silence is waited out
AxDrain ==
    /\ axCur.pc = "drain"
    /\ IF Reachable THEN axWorker' = [axWorker EXCEPT !.drain = TRUE] ELSE UNCHANGED axWorker
    /\ IF Reachable /\ axWorker.busy = "no" THEN AxGo(AfterDrain) /\ UNCHANGED axOps ELSE AxSettle("waiting")
    /\ UNCHANGED <<axBox, axOwner, axHold, axPacket, axEnr, axAsked, axTask, axAux, axSent, axFaults>>

AxSuspend ==
    /\ axCur.pc = "suspend"
    /\ IF axCur.seen.susp THEN AxSettle("waiting") /\ UNCHANGED <<axTask, axFaults>>
       ELSE /\ axTask' = IF axTask = AxNoTask THEN AxNoTask ELSE [axTask EXCEPT !.susp = TRUE]
            /\ AxReplied(AxSettle("waiting"))
    /\ UNCHANGED <<axBox, axOwner, axHold, axPacket, axEnr, axAsked, axAux, axSent, axWorker>>

AxStopped ==
    /\ axCur.pc = "stopped" /\ axBox' = [axBox EXCEPT !.st = "stopped"] /\ AxGo("close")
    /\ UNCHANGED <<axOps, axOwner, axHold, axPacket, axEnr, axAsked, axTask, axAux, axSent, axWorker, axFaults>>

\* new_delete_request: the decision of each request is persisted before its one delete call
NewDelete == axAsked # axCur.row
AxAskDelete ==
    /\ axCur.pc = "ask" /\ axAsked' = axCur.row
    /\ IF NewDelete THEN AxGo("delete") /\ UNCHANGED axOps ELSE AxSettle("waiting")
    /\ UNCHANGED <<axBox, axOwner, axHold, axPacket, axEnr, axTask, axAux, axSent, axWorker, axFaults>>

AxDelete ==
    /\ axCur.pc = "delete"
    /\ axTask' = IF axTask = AxNoTask THEN AxNoTask ELSE [axTask EXCEPT !.ph = "Terminating"]
    /\ axSent' = [axSent EXCEPT ![axCur.row] = @ + 1] /\ AxReplied(AxSettle("waiting"))
    /\ UNCHANGED <<axBox, axOwner, axHold, axPacket, axEnr, axAsked, axAux, axWorker>>

\* delete_aux: get the Gateway, get the Workspace, delete the Gateway, delete the Workspace, each a call of its own
AxLook(k) ==
    /\ axCur.pc = (IF k = "gateway" THEN "clean" ELSE "look")
    /\ IF AsSpecified(k) THEN /\ axCur' = [axCur EXCEPT !.pc = IF k = "gateway" THEN "look" ELSE "dropGateway", !.fit = @ \cup {k}]
                              /\ UNCHANGED axOps
                         ELSE AxSettle("uncertain")
    /\ UNCHANGED <<axBox, axOwner, axHold, axPacket, axEnr, axAsked, axTask, axAux, axSent, axWorker, axFaults>>

AxDeleteAux(k) ==
    /\ axCur.pc = (IF k = "gateway" THEN "dropGateway" ELSE "dropWorkspace")
    /\ axAux' = [axAux EXCEPT ![k] = "none"]
    /\ AxReplied(AxGo(IF k = "gateway" THEN "dropWorkspace" ELSE "removed") /\ UNCHANGED axOps)
    /\ UNCHANGED <<axBox, axOwner, axHold, axPacket, axEnr, axAsked, axTask, axSent, axWorker>>

\* tick revokes the enrollment, then records the removal
AxRemoved ==
    /\ axCur.pc = "removed" /\ axEnr' = "revoked" /\ AxGo("forget")
    /\ UNCHANGED <<axOps, axBox, axOwner, axHold, axPacket, axAsked, axTask, axAux, axSent, axWorker, axFaults>>

AxForget ==
    /\ axCur.pc = "forget" /\ axBox' = [axBox EXCEPT !.st = "removed"] /\ AxGo("close")
    /\ UNCHANGED <<axOps, axOwner, axHold, axPacket, axEnr, axAsked, axTask, axAux, axSent, axWorker, axFaults>>

\* start: a suspended Task is resumed and waited for; a running one gets its packet and the worker is resumed
StartStep == IF axCur.seen.susp THEN "resume" ELSE IF AxRunning(axCur.seen) THEN "boot" ELSE "late"
AxStart ==
    /\ axCur.pc = "decide" /\ AxAct = "start" /\ axCur.seen # AxNoTask /\ axHold' = TRUE
    /\ IF StartStep = "late" THEN AxSettle("waiting") ELSE AxGo(StartStep) /\ UNCHANGED axOps
    /\ UNCHANGED <<axBox, axOwner, axPacket, axEnr, axAsked, axTask, axAux, axSent, axWorker, axFaults>>

AxResume ==
    /\ axCur.pc = "resume" /\ axTask' = IF axTask = AxNoTask THEN AxNoTask ELSE [axTask EXCEPT !.susp = FALSE]
    /\ AxReplied(AxSettle("waiting"))
    /\ UNCHANGED <<axBox, axOwner, axHold, axPacket, axEnr, axAsked, axAux, axSent, axWorker>>

AxBoot ==
    /\ axCur.pc = "boot" /\ AxRunning(axTask) /\ axWorker' = [axWorker EXCEPT !.boot = TRUE] /\ AxGo("awake")
    /\ UNCHANGED <<axOps, axBox, axOwner, axHold, axPacket, axEnr, axAsked, axTask, axAux, axSent, axFaults>>


\* runtime_resume answered with a live process: dispatch is released
AxAwake ==
    /\ axCur.pc = "awake"
    /\ IF Reachable THEN axWorker' = [axWorker EXCEPT !.drain = FALSE, !.busy = IF @ = "late" THEN "yes" ELSE @] /\ AxGo("release") /\ UNCHANGED axOps
       ELSE AxSettle("waiting") /\ UNCHANGED axWorker
    /\ UNCHANGED <<axBox, axOwner, axHold, axPacket, axEnr, axAsked, axTask, axAux, axSent, axFaults>>

AxRelease ==
    /\ axCur.pc = "release" /\ axHold' = FALSE /\ AxGo("created")
    /\ UNCHANGED <<axOps, axBox, axOwner, axPacket, axEnr, axAsked, axTask, axAux, axSent, axWorker, axFaults>>

\* tick records "provisioned"; a create does not take back "ready"
AxProvisioned ==
    /\ axCur.pc = "created" /\ axBox' = [axBox EXCEPT !.res = TRUE, !.st = "provisioned"] /\ AxGo("close")
    /\ UNCHANGED <<axOps, axOwner, axHold, axPacket, axEnr, axAsked, axTask, axAux, axSent, axWorker, axFaults>>

AxClose ==
    /\ axCur.pc = "close" /\ AxSettle("succeeded")
    /\ UNCHANGED <<axBox, axOwner, axHold, axPacket, axEnr, axAsked, axTask, axAux, axSent, axWorker, axFaults>>

\* the controller's daemon dies: recover_operations leaves the row uncertain
AxDies ==
    /\ axCur # AxIdle /\ AxFault /\ AxSettle("uncertain")
    /\ UNCHANGED <<axBox, axOwner, axHold, axPacket, axEnr, axAsked, axTask, axAux, axSent, axWorker>>

(* -------------------------- AX and the worker --------------------------- *)
\* AX moves the Task to what was asked of it
AxMoves ==
    /\ \/ axTask.ph = "Pending" /\ axTask' = [axTask EXCEPT !.ph = "Running"]
       \/ axTask.ph = "Running" /\ axTask.susp /\ axTask' = [axTask EXCEPT !.ph = "Suspended"]
       \/ axTask.ph = "Suspended" /\ ~axTask.susp /\ axTask' = [axTask EXCEPT !.ph = "Running"]
       \/ axTask.ph = "Terminating" /\ axTask' = AxNoTask
    /\ axWorker' = IF axTask' = AxNoTask THEN [axWorker EXCEPT !.task = FALSE, !.tick = FALSE, !.busy = "no"] ELSE axWorker
    /\ UNCHANGED <<axOps, axCur, axBox, axOwner, axHold, axPacket, axEnr, axAsked, axAux, axSent, axFaults>>

AxFails ==
    /\ axTask.ph = "Pending" /\ axEnr = "pending" /\ AxFault /\ axTask' = [axTask EXCEPT !.ph = "Failed"]
    /\ UNCHANGED <<axOps, axCur, axBox, axOwner, axHold, axPacket, axEnr, axAsked, axAux, axSent, axWorker>>

\* somebody edits one of the auxiliary objects
AxEdited(k) ==
    /\ axAux[k] = "ours" /\ AxFault /\ axAux' = [axAux EXCEPT ![k] = "edited"]
    /\ UNCHANGED <<axOps, axCur, axBox, axOwner, axHold, axPacket, axEnr, axAsked, axTask, axSent, axWorker>>

\* the worker enrols with its packet
AxEnrolls ==
    /\ AxRunning(axTask) /\ axWorker.boot /\ axEnr = "pending" /\ axEnr' = "active"
    /\ UNCHANGED <<axOps, axCur, axBox, axOwner, axHold, axPacket, axAsked, axTask, axAux, axSent, axWorker, axFaults>>

\* the controller places a task on a worker whose inventory is ready
AxDispatch ==
    /\ ~axHold /\ Reachable /\ ~axWorker.drain /\ ~axWorker.task /\ axBox.st # "removed"
    /\ axWorker' = [axWorker EXCEPT !.task = TRUE]
    /\ UNCHANGED <<axOps, axCur, axBox, axOwner, axHold, axPacket, axEnr, axAsked, axTask, axAux, axSent, axFaults>>

\* the worker's scheduler: a tick reads draining once, then awaits
AxTickReads ==
    /\ AxRunning(axTask) /\ axWorker.boot /\ ~axWorker.drain /\ ~axWorker.tick
    /\ axWorker' = [axWorker EXCEPT !.tick = TRUE]
    /\ UNCHANGED <<axOps, axCur, axBox, axOwner, axHold, axPacket, axEnr, axAsked, axTask, axAux, axSent, axFaults>>

\* begin: draining is not read again
AxBegins ==
    /\ AxRunning(axTask) /\ axWorker.tick /\ axWorker.task /\ axWorker.busy = "no"
    /\ axWorker' = [axWorker EXCEPT !.task = FALSE, !.busy = IF axWorker.drain THEN "late" ELSE "yes"]
    /\ UNCHANGED <<axOps, axCur, axBox, axOwner, axHold, axPacket, axEnr, axAsked, axTask, axAux, axSent, axFaults>>

AxTickEnds ==
    /\ AxRunning(axTask) /\ axWorker.tick /\ axWorker' = [axWorker EXCEPT !.tick = FALSE]
    /\ UNCHANGED <<axOps, axCur, axBox, axOwner, axHold, axPacket, axEnr, axAsked, axTask, axAux, axSent, axFaults>>

AxWorkEnds ==
    /\ AxRunning(axTask) /\ axWorker.busy # "no" /\ axWorker' = [axWorker EXCEPT !.busy = "no"]
    /\ UNCHANGED <<axOps, axCur, axBox, axOwner, axHold, axPacket, axEnr, axAsked, axTask, axAux, axSent, axFaults>>

AxTick == (\E i \in AxRows : AxPick(i)) \/ AxIssue \/ AxPersist \/ AxRecordOwner \/ AxRecordResource \/ (\E k \in DOMAIN axAux : AxEnsureAux(k)) \/ AxUpdateTask
          \/ AxPoll \/ AxGet \/ AxReconcile \/ AxAbsent \/ AxHoldDown \/ AxDrain \/ AxSuspend \/ AxStopped \/ AxAskDelete
          \/ AxDelete \/ (\E k \in DOMAIN axAux : AxLook(k) \/ AxDeleteAux(k)) \/ AxRemoved \/ AxForget \/ AxStart \/ AxResume \/ AxBoot \/ AxAwake \/ AxRelease
          \/ AxProvisioned \/ AxClose
AxNext == (\E act \in AxActs : AxRequest(act)) \/ AxTick \/ AxCallFails \/ AxDies \/ AxMoves \/ AxFails
          \/ (\E k \in DOMAIN axAux : AxEdited(k)) \/ AxEnrolls
          \/ AxDispatch \/ AxTickReads \/ AxBegins \/ AxTickEnds \/ AxWorkEnds

AxSpec == AxInit /\ [][AxNext]_axVars

(* ------------------------------ properties ------------------------------ *)
\* the types of the records and of the AX objects
AxTypeOK ==
    /\ \A i \in DOMAIN axOps : (axOps[i].st = "running") <=> (axCur.row = i)
    /\ axBox.st \in {"none", "requested", "provisioned", "stopped", "uncertain", "removed"}
    /\ axTask.ph \in {"none", "Pending", "Running", "Failed", "Suspended", "Terminating"}
    /\ axAux \in [{"gateway", "workspace"} -> {"none", "ours", "edited"}]
    /\ axEnr \in {"none", "pending", "active", "revoked"} /\ axSent \in [AxRows -> 0 .. MaxAxOps]

\* An attempt that runs on a worker when the drain reaches it has ended before the Task is suspended or deleted, and
\* none of its later ticks begins another: the drain, the hold and the exception for workers that never enrolled leave
\* no other window ("Stop drains Horde work before suspending the AX Task", docs/ax.md). Only a tick that had read
\* draining before the drain may still begin its attempt after the worker answered that it is drained.
DownMeansIdle == (axTask.susp \/ axTask.ph \in {"Suspended", "Terminating"}) => axWorker.busy # "yes"

\* Dispatch is held from the moment a Task is to be suspended or deleted until the worker has answered again.
DownMeansHeld == (axTask.susp \/ axTask.ph \in {"Suspended", "Terminating"} \/ axWorker.drain) => axHold

\* Whatever exists in AX can be found again after a crash: its owner and its name were recorded before it was made.
AxNoOrphan == (axTask # AxNoTask \/ \E k \in DOMAIN axAux : axAux[k] # "none") => (axOwner /\ axBox.res /\ axPacket)

\* A runtime recorded as removed has left nothing of its own in AX and cannot enrol.
AxRemovedIsGone == axBox.st = "removed" => /\ axTask = AxNoTask /\ axEnr = "revoked"
                                           /\ \A k \in DOMAIN axAux : axAux[k] # "ours"

\* An object somebody else changed is never overwritten, and neither object is deleted before a look at both found
\* them as they were made, or gone. (An edit between the look and the delete is lost: AX deletes whatever has the name.)
DeletedAsFound == [][\A k \in DOMAIN axAux :
                        (axAux[k] = "edited" /\ axAux'[k] # "edited") \/ (axAux[k] = "ours" /\ axAux'[k] = "none")
                            => axCur.fit = DOMAIN axAux /\ axAux'[k] = "none"]_axVars

\* One request deletes the Task at most once, however often it is taken up again; a lost answer is not replayed.
DeleteOnce == \A i \in AxRows : axSent[i] <= 1

\* A destroy whose turn has come ends, removed or left uncertain for the operator, as long as the worker
\* finishes its work. (It may never get its turn: a stop of a worker that never enrolled waits for ever.)
AxDestroySettles == \A i \in AxRows :
    (i \in DOMAIN axOps /\ axOps[i].act = "destroy" /\ \A j \in 1 .. i - 1 : axOps[j].st \notin AxOpen)
        ~> (\A j \in DOMAIN axOps : axOps[j].st \in AxOpen => j # i)

\* The invariants together: what every request, crash and retry above must preserve.
AxInv ==
  /\ AxTypeOK
  /\ DownMeansIdle
  /\ DownMeansHeld
  /\ AxNoOrphan
  /\ AxRemovedIsGone
  /\ DeleteOnce
=============================================================================
