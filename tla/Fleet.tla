-------------------------------- MODULE Fleet --------------------------------
(* The controller's durable queue of administrative operations on managed     *)
(* worker runtimes (src/src/fleet.rs): requests are recorded first, a ticker   *)
(* performs one at a time against the container provider or the worker itself, *)
(* and a daemon that died in the middle leaves the operation uncertain.        *)
(* Rows of `ops` are in rowid order; a row is the request with its id.         *)
EXTENDS Integers, Sequences, FiniteSets, FiniteSetsExt

CONSTANTS FleetRuntimes, Ready,  \* Ready: runtimes that were created and enrolled earlier
          FleetActs,             \* the kinds of operation requested
          MaxOps, MaxCrashes     \* bounds: requests, daemon deaths

ASSUME FleetAssumption == Ready \subseteq FleetRuntimes /\ MaxOps \in Nat /\ MaxCrashes \in Nat

VARIABLES ops,      \* runtime_operations: [rt, act, st, ph]; ph is the saved phase of an image update
          managedBox,  \* managed_runtimes.state
          knownBox,    \* managed_runtimes.resource IS NOT NULL
          specImage,     \* the image managed_runtimes.spec records
          enr,      \* runtime_enrollments.state
          boxImage,      \* the provider's container: its image, or "none"
          heldBox,     \* the worker's draining setting, kept in its volume
          wst,      \* the worker's receipt for the request of each row
          wruns,    \* how often the worker carried that request out
          paused,   \* fleet_updates_paused
          ackedOps,    \* failed updates the operator has resumed after
          opCursor,   \* fleet_operation_cursor
          aged,     \* rows created more than 1800 s ago; late: replaced more than 120 s ago
          late,
          fleetCur,      \* the operation the ticker is performing: [row, pc, out]
          release,  \* [good, safe]: the new image comes up; its schema permits rollback
          daemonUp, crashes

fleetVars == <<ops, managedBox, knownBox, specImage, enr, boxImage, heldBox, wst, wruns, paused, ackedOps, opCursor, aged, late, fleetCur, release, daemonUp, crashes>>

Rows == 1 .. MaxOps
TickIdle == [row |-> 0, pc |-> "idle", out |-> "none"]
OpenStates == {"pending", "waiting", "running"}
RemoteActs == {"restart", "skills"}

FleetInit ==
    /\ ops = <<>> /\ wst = [i \in Rows |-> "none"] /\ wruns = [i \in Rows |-> 0]
    /\ managedBox = [r \in FleetRuntimes |-> IF r \in Ready THEN "ready" ELSE "none"]
    /\ knownBox = [r \in FleetRuntimes |-> r \in Ready] /\ specImage = [r \in FleetRuntimes |-> "v1"]
    /\ enr = [r \in FleetRuntimes |-> IF r \in Ready THEN "active" ELSE "none"]
    /\ boxImage = [r \in FleetRuntimes |-> IF r \in Ready THEN "v1" ELSE "none"]
    /\ heldBox = [r \in FleetRuntimes |-> FALSE]
    /\ paused = FALSE /\ ackedOps = {} /\ opCursor = 0 /\ aged = {} /\ late = {} /\ fleetCur = TickIdle
    /\ release \in [good : BOOLEAN, safe : BOOLEAN] /\ daemonUp = TRUE /\ crashes = 0

\* runtime_create/_destroy/_restart/_update/_skills_update/_reconcile: the request is recorded, nothing is done yet
EnqueueOperation(r, act) ==
    /\ Len(ops) < MaxOps /\ act \in FleetActs
    /\ IF act = "create" THEN managedBox[r] = "none" ELSE managedBox[r] # "none"
    /\ ops' = Append(ops, [rt |-> r, act |-> act, st |-> "pending", ph |-> "none"])
    /\ managedBox' = IF act = "create" THEN [managedBox EXCEPT ![r] = "requested"] ELSE managedBox
    /\ UNCHANGED <<knownBox, specImage, enr, boxImage, heldBox, wst, wruns, paused, ackedOps, opCursor, aged, late, fleetCur, release, daemonUp, crashes>>

\* runtime_updates_resume
UpdatesResume ==
    /\ paused /\ paused' = FALSE
    /\ ackedOps' = {i \in DOMAIN ops : ops[i].act = "update" /\ ops[i].st \in {"failed", "uncertain"}}
    /\ UNCHANGED <<ops, managedBox, knownBox, specImage, enr, boxImage, heldBox, wst, wruns, opCursor, aged, late, fleetCur, release, daemonUp, crashes>>

\* mutant: an update is taken although another one failed
Eligible(i) ==
    /\ ops[i].st \in {"pending", "waiting"}
    /\ paused => ops[i].act # "update"
    /\ ops[i].act = "reconcile" \/ \A j \in 1 .. i - 1 : ops[j].rt = ops[i].rt => ops[j].st \notin OpenStates
\* mutant: always the oldest row

\* the row the query returns: the first eligible one past the cursor, else the first
NextRow == LET all == {i \in DOMAIN ops : Eligible(i)}
               past == {i \in all : i > opCursor}
           IN Min(IF past # {} THEN past ELSE all)

\* tick, first half: the row becomes running and the cursor moves past it
TickPick ==
    /\ daemonUp /\ fleetCur = TickIdle /\ \E i \in DOMAIN ops : Eligible(i)
    /\ LET i == NextRow IN
         /\ ops' = [ops EXCEPT ![i].st = "running"] /\ opCursor' = i
         /\ fleetCur' = [row |-> i, pc |-> "start", out |-> "none"]
    /\ UNCHANGED <<managedBox, knownBox, specImage, enr, boxImage, heldBox, wst, wruns, paused, ackedOps, aged, late, release, daemonUp, crashes>>

CurOp == ops[fleetCur.row]
OpAt(pc) == daemonUp /\ fleetCur.row # 0 /\ fleetCur.pc = pc
OpGo(pc) == fleetCur' = [fleetCur EXCEPT !.pc = pc]
OpOut(st) == fleetCur' = [fleetCur EXCEPT !.pc = "settle", !.out = st]
NotRemoved(r) == managedBox[r] # "removed"

\* an ensure! or a provider command failed before anything happened
OpError ==
    /\ OpAt("start")
    /\ \/ ~NotRemoved(CurOp.rt)
       \/ CurOp.act = "update" /\ CurOp.ph = "replacing"
       \/ CurOp.act \in RemoteActs \cup {"update"} /\ enr[CurOp.rt] # "active"
       \/ CurOp.act \in {"destroy", "update"} /\ ~knownBox[CurOp.rt]
       \/ CurOp.act \in {"destroy", "reconcile"} /\ boxImage[CurOp.rt] = "none"
       \/ CurOp.act = "create" /\ boxImage[CurOp.rt] # "none"
    /\ OpOut("uncertain")
    /\ UNCHANGED <<ops, managedBox, knownBox, specImage, enr, boxImage, heldBox, wst, wruns, paused, ackedOps, opCursor, aged, late, release, daemonUp, crashes>>

\* runtime_create: the enrollment packet is issued and persisted, the container is made, the resource is recorded
CreateIssue ==
    /\ OpAt("start") /\ CurOp.act = "create" /\ NotRemoved(CurOp.rt) /\ boxImage[CurOp.rt] = "none"
    /\ enr' = IF enr[CurOp.rt] = "none" THEN [enr EXCEPT ![CurOp.rt] = "pending"] ELSE enr
    /\ OpGo("provision")
    /\ UNCHANGED <<ops, managedBox, knownBox, specImage, boxImage, heldBox, wst, wruns, paused, ackedOps, opCursor, aged, late, release, daemonUp, crashes>>
CreateProvision ==
    /\ OpAt("provision")
    /\ \/ boxImage' = [boxImage EXCEPT ![CurOp.rt] = specImage[CurOp.rt]] /\ (OpGo("record") \/ OpOut("uncertain"))
       \/ boxImage' = boxImage /\ OpOut("uncertain")
    /\ UNCHANGED <<ops, managedBox, knownBox, specImage, enr, heldBox, wst, wruns, paused, ackedOps, opCursor, aged, late, release, daemonUp, crashes>>
CreateRecord ==
    /\ OpAt("record")
    /\ knownBox' = [knownBox EXCEPT ![CurOp.rt] = TRUE]
    /\ managedBox' = IF managedBox[CurOp.rt] = "ready" THEN managedBox ELSE [managedBox EXCEPT ![CurOp.rt] = "provisioned"]
    /\ OpOut("succeeded")
    /\ UNCHANGED <<ops, specImage, enr, boxImage, heldBox, wst, wruns, paused, ackedOps, opCursor, aged, late, release, daemonUp, crashes>>

\* container_update: release manifest, drain, replacement, health check; each tick goes as far as it can
UpdateManifest ==
    /\ OpAt("start") /\ CurOp.act = "update" /\ CurOp.ph = "none" /\ NotRemoved(CurOp.rt) /\ enr[CurOp.rt] = "active" /\ knownBox[CurOp.rt]
    /\ \/ ops' = [ops EXCEPT ![fleetCur.row].ph = "draining"] /\ fleetCur' = fleetCur
       \/ ops' = ops /\ OpOut("uncertain")
    /\ UNCHANGED <<managedBox, knownBox, specImage, enr, boxImage, heldBox, wst, wruns, paused, ackedOps, opCursor, aged, late, release, daemonUp, crashes>>
UpdateDrain ==
    /\ OpAt("start") /\ CurOp.act = "update" /\ CurOp.ph = "draining" /\ NotRemoved(CurOp.rt)
    /\ \/ fleetCur.row \in aged /\ OpOut("failed") /\ UNCHANGED <<ops, heldBox>>
       \/ /\ fleetCur.row \notin aged
          /\ heldBox' = IF boxImage[CurOp.rt] = "none" THEN heldBox ELSE [heldBox EXCEPT ![CurOp.rt] = TRUE]
          /\ \/ OpOut("waiting") /\ ops' = ops     \* not drained yet, or the answer was lost
             \/ boxImage[CurOp.rt] # "none" /\ ops' = [ops EXCEPT ![fleetCur.row].ph = "replacing"] /\ OpGo("replace")
       \/ fleetCur.row \notin aged /\ OpOut("waiting") /\ UNCHANGED <<ops, heldBox>>   \* the request was lost
    /\ UNCHANGED <<managedBox, knownBox, specImage, enr, boxImage, wst, wruns, paused, ackedOps, opCursor, aged, late, release, daemonUp, crashes>>
\* replace_container: the old container is removed, then one with the other image is made over the same volume
ReplaceRemoves ==
    /\ OpAt("replace") \/ OpAt("restore")
    /\ \/ boxImage' = [boxImage EXCEPT ![CurOp.rt] = "none"] /\ (OpGo(IF fleetCur.pc = "replace" THEN "replace2" ELSE "restore2") \/ OpOut("uncertain"))
       \/ boxImage' = boxImage /\ OpOut("uncertain")
    /\ UNCHANGED <<ops, managedBox, knownBox, specImage, enr, heldBox, wst, wruns, paused, ackedOps, opCursor, aged, late, release, daemonUp, crashes>>
ReplaceMakes ==
    /\ OpAt("replace2") \/ OpAt("restore2")
    /\ \/ /\ boxImage' = [boxImage EXCEPT ![CurOp.rt] = IF fleetCur.pc = "replace2" THEN "v2" ELSE specImage[CurOp.rt]]
          /\ OpOut("uncertain") \/ OpOut(IF fleetCur.pc = "replace2" THEN "health" ELSE "failed")
       \/ boxImage' = boxImage /\ OpOut("uncertain")
    /\ UNCHANGED <<ops, managedBox, knownBox, specImage, enr, heldBox, wst, wruns, paused, ackedOps, opCursor, aged, late, release, daemonUp, crashes>>
BoxAnswers(r) == boxImage[r] # "none" /\ (boxImage[r] = "v2" => release.good)
\* mutant: any answer counts as healthy
\* the version that runtime_status reports is the requested one
BoxHealthy(r) == boxImage[r] = "v2" /\ release.good
UpdateHealth ==
    /\ OpAt("start") /\ CurOp.act = "update" /\ CurOp.ph = "health" /\ NotRemoved(CurOp.rt)
    /\ \/ /\ BoxHealthy(CurOp.rt)
          /\ \/ heldBox' = [heldBox EXCEPT ![CurOp.rt] = FALSE] /\ (OpGo("specImage") \/ OpOut("uncertain"))
             \/ heldBox' = heldBox /\ OpOut("uncertain")
       \/ fleetCur.row \notin late /\ OpOut("waiting") /\ heldBox' = heldBox
       \/ fleetCur.row \in late /\ ~BoxHealthy(CurOp.rt) /\ heldBox' = heldBox
            /\ IF release.safe THEN OpGo("restore") ELSE OpOut("failed")
    /\ UNCHANGED <<ops, managedBox, knownBox, specImage, enr, boxImage, wst, wruns, paused, ackedOps, opCursor, aged, late, release, daemonUp, crashes>>
UpdateRecords ==
    /\ OpAt("specImage") /\ specImage' = [specImage EXCEPT ![CurOp.rt] = "v2"] /\ OpOut("succeeded")
    /\ UNCHANGED <<ops, managedBox, knownBox, enr, boxImage, heldBox, wst, wruns, paused, ackedOps, opCursor, aged, late, release, daemonUp, crashes>>

\* mutant: a repeated request is recorded again
\* management::remote_command on the worker: a request id that is already recorded returns its receipt
Receipt(i) == IF wst[i] = "none" THEN "accepted" ELSE wst[i]
\* send_management: the call may be lost, its answer may be lost, or the answer is the receipt
SendManagement ==
    /\ OpAt("start") /\ CurOp.act \in RemoteActs /\ NotRemoved(CurOp.rt) /\ enr[CurOp.rt] = "active"
    /\ \/ /\ UNCHANGED wst
          /\ OpOut(IF fleetCur.row \in aged THEN "failed" ELSE "waiting")
       \/ /\ BoxAnswers(CurOp.rt) /\ wst' = [wst EXCEPT ![fleetCur.row] = Receipt(fleetCur.row)]
          /\ \/ OpOut(IF fleetCur.row \in aged THEN "failed" ELSE "waiting")
             \/ OpOut(CASE wst[fleetCur.row] = "done" -> "succeeded" [] wst[fleetCur.row] = "failed" -> "failed" [] OTHER -> "waiting")
    /\ UNCHANGED <<ops, managedBox, knownBox, specImage, enr, boxImage, heldBox, wruns, paused, ackedOps, opCursor, aged, late, release, daemonUp, crashes>>
\* the worker carries out what it accepted (management::local_commands; see Update)
WorkerCarries(i) ==
    /\ i \in DOMAIN ops /\ wst[i] = "accepted" /\ boxImage[ops[i].rt] # "none"
    /\ \E st \in {"done", "failed"} : wst' = [wst EXCEPT ![i] = st]
    /\ wruns' = [wruns EXCEPT ![i] = @ + 1]
    /\ UNCHANGED <<ops, managedBox, knownBox, specImage, enr, boxImage, heldBox, paused, ackedOps, opCursor, aged, late, fleetCur, release, daemonUp, crashes>>

\* runtime_destroy: the container is removed, the enrollment revoked, the runtime marked removed
DestroyBox ==
    /\ OpAt("start") /\ CurOp.act = "destroy" /\ NotRemoved(CurOp.rt) /\ knownBox[CurOp.rt] /\ boxImage[CurOp.rt] # "none"
    /\ \/ boxImage' = [boxImage EXCEPT ![CurOp.rt] = "none"] /\ (OpGo("revoke") \/ OpOut("uncertain"))
       \/ boxImage' = boxImage /\ OpOut("uncertain")
    /\ UNCHANGED <<ops, managedBox, knownBox, specImage, enr, heldBox, wst, wruns, paused, ackedOps, opCursor, aged, late, release, daemonUp, crashes>>
\* mutant: the enrollment is left as it is
DestroyRevoke ==
    /\ OpAt("revoke") /\ enr' = [enr EXCEPT ![CurOp.rt] = "revoked"] /\ OpGo("removed")
    /\ UNCHANGED <<ops, managedBox, knownBox, specImage, boxImage, heldBox, wst, wruns, paused, ackedOps, opCursor, aged, late, release, daemonUp, crashes>>
DestroyRecord ==
    /\ OpAt("removed") /\ managedBox' = [managedBox EXCEPT ![CurOp.rt] = "removed"] /\ OpOut("succeeded")
    /\ UNCHANGED <<ops, knownBox, specImage, enr, boxImage, heldBox, wst, wruns, paused, ackedOps, opCursor, aged, late, release, daemonUp, crashes>>
\* runtime_reconcile: the operator names the resource; its label must be this runtime's
ReconcileResource ==
    /\ OpAt("start") /\ CurOp.act = "reconcile" /\ NotRemoved(CurOp.rt) /\ boxImage[CurOp.rt] # "none"
    /\ knownBox' = [knownBox EXCEPT ![CurOp.rt] = TRUE] /\ managedBox' = [managedBox EXCEPT ![CurOp.rt] = "provisioned"]
    /\ OpOut("succeeded")
    /\ UNCHANGED <<ops, specImage, enr, boxImage, heldBox, wst, wruns, paused, ackedOps, opCursor, aged, late, release, daemonUp, crashes>>

\* tick, second half: the outcome is stored; an update that did not go well stops the others
OpSettle ==
    /\ OpAt("settle")
    /\ ops' = [ops EXCEPT ![fleetCur.row].st = IF fleetCur.out = "health" THEN "waiting" ELSE fleetCur.out,
                          ![fleetCur.row].ph = IF fleetCur.out = "health" THEN "health" ELSE @]
    /\ paused' = (paused \/ (CurOp.act = "update" /\ fleetCur.out \in {"failed", "uncertain"}))
    /\ fleetCur' = TickIdle
    /\ UNCHANGED <<managedBox, knownBox, specImage, enr, boxImage, heldBox, wst, wruns, ackedOps, opCursor, aged, late, release, daemonUp, crashes>>

\* enrollment::activate: the worker in the container reports with its packet (see Pairing)
FleetActivate(r) ==
    /\ daemonUp /\ boxImage[r] # "none" /\ enr[r] = "pending"
    /\ enr' = [enr EXCEPT ![r] = "active"] /\ managedBox' = [managedBox EXCEPT ![r] = "ready"]
    /\ UNCHANGED <<ops, knownBox, specImage, boxImage, heldBox, wst, wruns, paused, ackedOps, opCursor, aged, late, fleetCur, release, daemonUp, crashes>>
FleetTime(i) ==
    /\ i \in DOMAIN ops /\ ops[i].st \in OpenStates
    /\ \/ i \notin aged /\ aged' = aged \cup {i} /\ late' = late
       \/ ops[i].ph = "health" /\ i \notin late /\ late' = late \cup {i} /\ aged' = aged
    /\ UNCHANGED <<ops, managedBox, knownBox, specImage, enr, boxImage, heldBox, wst, wruns, paused, ackedOps, opCursor, fleetCur, release, daemonUp, crashes>>

FleetCrash ==
    /\ daemonUp /\ crashes < MaxCrashes /\ daemonUp' = FALSE /\ crashes' = crashes + 1 /\ fleetCur' = TickIdle
    /\ UNCHANGED <<ops, managedBox, knownBox, specImage, enr, boxImage, heldBox, wst, wruns, paused, ackedOps, opCursor, aged, late, release>>
\* mutant: what was running is left running
\* mutant: an interrupted operation counts as failed, as if nothing had happened
InterruptedFailed(op) == IF op.st # "running" THEN op.st ELSE IF op.act = "skills" THEN "waiting" ELSE "failed"
Interrupted(op) == IF op.st # "running" THEN op.st ELSE IF op.act = "skills" THEN "waiting" ELSE "uncertain"
\* mutant: an interrupted update does not stop the others
\* recover_operations, at the start of the daemon
RecoverOperations ==
    /\ ~daemonUp /\ daemonUp' = TRUE
    /\ paused' = (paused \/ \E i \in DOMAIN ops : ops[i].st = "running" /\ ops[i].act = "update")
    /\ ops' = [i \in DOMAIN ops |-> [ops[i] EXCEPT !.st = Interrupted(ops[i])]]
    /\ UNCHANGED <<managedBox, knownBox, specImage, enr, boxImage, heldBox, wst, wruns, ackedOps, opCursor, aged, late, fleetCur, release, crashes>>

FleetTick == TickPick \/ OpError \/ CreateIssue \/ CreateProvision \/ CreateRecord \/ UpdateManifest \/ UpdateDrain
             \/ ReplaceRemoves \/ ReplaceMakes \/ UpdateHealth \/ UpdateRecords \/ SendManagement
             \/ DestroyBox \/ DestroyRevoke \/ DestroyRecord \/ ReconcileResource \/ OpSettle
FleetNext == FleetTick \/ UpdatesResume \/ FleetCrash \/ RecoverOperations
             \/ (\E r \in FleetRuntimes : FleetActivate(r) \/ \E a \in FleetActs : EnqueueOperation(r, a))
             \/ (\E i \in Rows : WorkerCarries(i) \/ FleetTime(i))

FleetSpec == FleetInit /\ [][FleetNext]_fleetVars

-----------------------------------------------------------------------------
\* Every column holds a value the code writes, and only the row being performed is running.
FleetTypeOK ==
    /\ \A i \in DOMAIN ops : /\ ops[i].st \in OpenStates \cup {"succeeded", "failed", "uncertain"}
                             /\ ops[i].ph \in {"none", "draining", "replacing", "health"}
                             /\ daemonUp => (ops[i].st = "running" <=> i = fleetCur.row)
    /\ managedBox \in [FleetRuntimes -> {"none", "requested", "provisioned", "ready", "removed"}]
    /\ boxImage \in [FleetRuntimes -> {"none", "v1", "v2"}]
    /\ enr \in [FleetRuntimes -> {"none", "pending", "active", "revoked"}]

\* An update that failed, or whose daemon died in the middle, stops every further update until the
\* operator resumes them (fleet_updates_paused, set by tick and by recover_operations).
FailedUpdatePauses ==
    \A i \in DOMAIN ops : ops[i].act = "update" /\ ops[i].st \in {"failed", "uncertain"} => paused \/ i \in ackedOps

\* While updates are paused no update is begun, whatever the order in which operations were requested.
PausedStartsNone ==
    [][\A i \in DOMAIN ops : paused /\ ops[i].act = "update" /\ ops[i].st # "running" => ops'[i].st # "running"]_fleetVars

\* A worker takes on work under a new image only after that image came up and reported its version:
\* a container with an image that does not come up stays drained (container_update).
HeldUntilHealthy ==
    \A r \in FleetRuntimes : boxImage[r] = "v2" /\ ~release.good => heldBox[r]

\* A request that is sent again because its answer was lost, or because the daemon was restarted, is carried out once.
RequestRunsOnce == \A i \in Rows : wruns[i] <= 1

\* A container that exists is recorded, or the create that made it is still visible as running or uncertain,
\* so that reconcile can find it: no crash or lost answer leaves a container nobody knows of.
NoOrphanContainer ==
    \A r \in FleetRuntimes : boxImage[r] # "none" =>
        knownBox[r] \/ \E i \in DOMAIN ops : ops[i].rt = r /\ ops[i].act = "create" /\ ops[i].st \in {"running", "uncertain"}

\* A runtime reported as removed has no container, its credentials are revoked, and it stays so.
RemovedIsGone ==
    \A r \in FleetRuntimes : managedBox[r] = "removed" => boxImage[r] = "none" /\ enr[r] \notin {"pending", "active"}

\* An operation at the head of its runtime's queue is tried however long other runtimes keep theirs waiting
\* (the cursor advances even when an operation must wait for a disconnected runtime).
TriedInTurn ==
    \A i \in Rows :
        (i \in DOMAIN ops /\ ops[i].st = "pending" /\ ops[i].act # "update"
           /\ \A j \in 1 .. i - 1 : ops[j].rt = ops[i].rt => ops[j].st \notin OpenStates)
        ~> (i \in DOMAIN ops => ops[i].st # "pending")

\* The invariants together: what every request, crash and retry above must preserve.
FleetInv ==
  /\ FleetTypeOK
  /\ FailedUpdatePauses
  /\ HeldUntilHealthy
  /\ RequestRunsOnce
  /\ NoOrphanContainer
  /\ RemovedIsGone
=============================================================================
