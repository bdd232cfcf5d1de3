-------------------------------- MODULE Lima --------------------------------
(* Virtual machines on a provisioning host (src/src/lima.rs,                   *)
(* src/src/lima/ownership.rs) managed by a controller over the network         *)
(* (src/src/fleet/project_host.rs). The controller keeps a row per request and *)
(* sends it to the host until the host's own row for it has ended; the host    *)
(* performs its rows with limactl. Rows have the same number on both sides:    *)
(* the request id. Commands a dead daemon had started end before its successor *)
(* looks at the guests.                                                        *)
EXTENDS Integers, Sequences, FiniteSets, FiniteSetsExt

CONSTANTS VmIds, VmNames,          \* runtimes; possible guest names in the Lima home
          VmActs,                  \* the kinds of request
          VmCpus, HostCpus,        \* reserved per guest; of the host
          MaxVmOps, MaxVmFaults    \* bounds: requests; crashes, lost answers and failed commands

ASSUME VmAssumption == /\ VmCpus \in Nat /\ HostCpus \in Nat
                       /\ MaxVmOps \in Nat /\ MaxVmFaults \in Nat

VARIABLES ctlOps,     \* the controller's runtime_operations: [rt, act, st]
          ctlBox,     \* its managed_runtimes: [st, res]
          ctlPacket,  \* the bootstrap packet it persisted (0: none)
          vmToken,    \* the packet whose token the enrollment accepts (0: none or revoked)
          ctlCur,     \* its ticker: [row, pc, ans]; ans is the host's row as the last answer gave it
          hostOps,    \* the host's row of each request
          hostRes,    \* the result kept with a finished row: the runtime as the host recorded it
          hostBox, hostPacket,
          hostCur,    \* the host's ticker: [row, pc]
          claim,      \* lima-resource-claims: name -> runtime
          manifest,   \* ownership.json: the configuration recorded for a runtime (0: no file)
          authorized, \* creation-authorized
          guest,      \* what limactl lists: name -> record or NoGuest
          vmName,     \* resource_name: a short hash, so two runtimes may share one
          hostVersion, \* version of the host's program, which decides configurations
          guardOk,    \* the host filter enforces the approved egress
          vmFaults

vmCtlVars  == <<ctlOps, ctlBox, ctlPacket, vmToken, ctlCur>>
vmHostVars == <<hostOps, hostRes, hostBox, hostPacket, hostCur, claim, manifest, authorized, guest, hostVersion>>
vmVars   == <<vmCtlVars, vmHostVars, vmName, guardOk, vmFaults>>

VmRows == 1 .. MaxVmOps
VmOpen == {"pending", "waiting", "running"}
NoGuest == [owner |-> "none", st |-> "none", conf |-> 0, pk |-> 0, ok |-> FALSE]
VmIdle == [row |-> 0, pc |-> "idle"]
CtlIdle == [row |-> 0, pc |-> "idle", ans |-> "none"]
FirstVm == CHOOSE g \in VmIds : TRUE   \* names are interchangeable: the first request is its
NewBox == [st |-> "none", res |-> FALSE]

VmInit ==
    /\ ctlOps = <<>> /\ ctlBox = [g \in VmIds |-> NewBox] /\ ctlCur = CtlIdle
    /\ ctlPacket = [g \in VmIds |-> 0] /\ vmToken = [g \in VmIds |-> 0]
    /\ hostOps = [i \in VmRows |-> "none"] /\ hostRes = [i \in VmRows |-> NewBox] /\ hostBox = [g \in VmIds |-> NewBox] /\ hostCur = VmIdle
    /\ hostPacket = [g \in VmIds |-> 0] /\ claim = [n \in VmNames |-> "none"]
    /\ manifest = [g \in VmIds |-> 0] /\ authorized = [g \in VmIds |-> FALSE]
    /\ vmName \in [VmIds -> VmNames] /\ hostVersion = 1 /\ guardOk = TRUE /\ vmFaults = 0
    /\ guest \in [VmNames -> {NoGuest, [NoGuest EXCEPT !.owner = "foreign", !.st = "running"]}]
    /\ vmName[FirstVm] = (CHOOSE n \in VmNames : TRUE) /\ \A n \in VmNames : guest[n] # NoGuest => n = vmName[FirstVm]

Fault == vmFaults < MaxVmFaults /\ vmFaults' = vmFaults + 1

(* ------------------------------ controller ------------------------------ *)
\* enqueue_operation on the controller
VmRequest(g, act) ==
    /\ Len(ctlOps) < MaxVmOps /\ (ctlOps = <<>> => g = FirstVm)
    /\ IF act = "create" THEN ctlBox[g].st = "none" ELSE ctlBox[g].st # "none"
    /\ ctlOps' = Append(ctlOps, [rt |-> g, act |-> act, st |-> "pending"])
    /\ ctlBox' = IF act = "create" THEN [ctlBox EXCEPT ![g].st = "requested"] ELSE ctlBox
    /\ UNCHANGED <<ctlPacket, vmToken, ctlCur, vmHostVars, vmName, guardOk, vmFaults>>

CtlRt == ctlOps[ctlCur.row].rt
CtlAct == ctlOps[ctlCur.row].act

\* tick takes a row; send_host_operation begins
HostOpPick(i) ==
    /\ ctlCur = CtlIdle /\ i \in DOMAIN ctlOps /\ ctlOps[i].st \in {"pending", "waiting"}
    /\ ctlOps[i].act = "reconcile" \/ \A j \in 1 .. i - 1 : ctlOps[j].rt = ctlOps[i].rt => ctlOps[j].st \notin VmOpen
    /\ ctlOps' = [ctlOps EXCEPT ![i].st = "running"] /\ ctlCur' = [row |-> i, pc |-> "send", ans |-> "none"]
    /\ UNCHANGED <<ctlBox, ctlPacket, vmToken, vmHostVars, vmName, guardOk, vmFaults>>

\* the packet of the first attempt is sent again: path.exists()
NeedsPacket(g) == CtlAct = "create" /\ ctlPacket[g] = 0

CtlUncertain == ctlOps' = [ctlOps EXCEPT ![ctlCur.row].st = "uncertain"] /\ ctlCur' = CtlIdle

\* the runtime was removed: tick refuses the row
HostOpRefused ==
    /\ ctlCur.pc = "send" /\ ctlBox[CtlRt].st = "removed" /\ CtlUncertain
    /\ UNCHANGED <<ctlBox, ctlPacket, vmToken, vmHostVars, vmName, guardOk, vmFaults>>

\* enrollment::issue commits a new token, then persist_bootstrap writes the packet that holds it
IssuePacket ==
    /\ ctlCur.pc = "send" /\ ctlBox[CtlRt].st # "removed" /\ NeedsPacket(CtlRt)
    /\ vmToken' = [vmToken EXCEPT ![CtlRt] = @ + 1] /\ vmToken[CtlRt] <= MaxVmFaults
    /\ ctlCur' = [ctlCur EXCEPT !.pc = "persist"]
    /\ UNCHANGED <<ctlOps, ctlBox, ctlPacket, vmHostVars, vmName, guardOk, vmFaults>>

PersistPacket ==
    /\ ctlCur.pc = "persist" /\ ctlPacket' = [ctlPacket EXCEPT ![CtlRt] = vmToken[CtlRt]]
    /\ ctlCur' = [ctlCur EXCEPT !.pc = "call"]
    /\ UNCHANGED <<ctlOps, ctlBox, vmToken, vmHostVars, vmName, guardOk, vmFaults>>

HaveToSend == ctlCur.pc = "call" \/ (ctlCur.pc = "send" /\ ctlBox[CtlRt].st # "removed" /\ ~NeedsPacket(CtlRt))

ReservesRunning(g) == hostBox[g].st \in {"requested", "provisioned"}
\* local_vm_reservations: everything that was not removed keeps its reservation
Reserves(g) == hostBox[g].st \notin {"none", "removed"}
ReservedCpus == VmCpus * Cardinality({g \in VmIds : Reserves(g)})
AdmitLocalVm == ReservedCpus + VmCpus <= HostCpus

\* persist_bootstrap on the host
PacketAccepted(g, p) == hostPacket[g] \in {0, p}

\* remote_command on the host: its row is made once; a request it refuses is answered with an error
HostAccepts(i, g, act) ==
    IF hostOps[i] # "none" THEN UNCHANGED <<hostOps, hostBox, hostPacket>>
    ELSE IF act = "create" THEN
         /\ PacketAccepted(g, ctlPacket[g]) /\ hostPacket' = [hostPacket EXCEPT ![g] = ctlPacket[g]]
         /\ IF AdmitLocalVm
            THEN hostOps' = [hostOps EXCEPT ![i] = "pending"] /\ hostBox' = [hostBox EXCEPT ![g].st = "requested"]
            ELSE UNCHANGED <<hostOps, hostBox>>
    ELSE /\ hostBox[g].st # "none" /\ hostOps' = [hostOps EXCEPT ![i] = "pending"]
         /\ UNCHANGED <<hostBox, hostPacket>>

HostRefuses(i, g, act) == hostOps[i] = "none" /\ (IF act = "create" THEN ~PacketAccepted(g, ctlPacket[g]) ELSE hostBox[g].st = "none")

\* federation::call(host, "manage"): the answer may be lost after the host acted on it
HostCall ==
    /\ HaveToSend
    /\ \/ HostAccepts(ctlCur.row, CtlRt, CtlAct)
       \/ HostRefuses(ctlCur.row, CtlRt, CtlAct) /\ UNCHANGED <<hostOps, hostBox, hostPacket>>
    /\ \/ ctlCur' = [ctlCur EXCEPT !.pc = "answer", !.ans = hostOps'[ctlCur.row]] /\ UNCHANGED <<ctlOps, vmFaults>>
       \/ Fault /\ ctlOps' = [ctlOps EXCEPT ![ctlCur.row].st = "waiting"] /\ ctlCur' = CtlIdle
    /\ UNCHANGED <<ctlBox, ctlPacket, vmToken, hostRes, hostCur, claim, manifest, authorized, guest, hostVersion, vmName, guardOk>>

HostCallFails ==
    /\ HaveToSend /\ Fault
    /\ ctlOps' = [ctlOps EXCEPT ![ctlCur.row].st = "waiting"] /\ ctlCur' = CtlIdle
    /\ UNCHANGED <<ctlBox, ctlPacket, vmToken, vmHostVars, vmName, guardOk>>

\* the state record_host_result writes; a create never takes back "ready", and reconcile repeats what the host saw then
HostResult(r) ==
    CASE CtlAct = "destroy" -> "removed" [] CtlAct = "stop" -> "stopped"
      [] CtlAct = "reconcile" -> (IF r.st \in {"stopped", "provisioned"} THEN r.st ELSE "uncertain")
      [] OTHER -> "provisioned"

MayRecord(st) == st = "succeeded"

\* the answer is recorded and then the row: one transaction each
RecordHostResult ==
    /\ ctlCur.pc = "answer" /\ MayRecord(ctlCur.ans)
    /\ ctlBox' = [ctlBox EXCEPT ![CtlRt] = [st |-> HostResult(hostRes[ctlCur.row]), res |-> hostRes[ctlCur.row].res \/ @.res]]
    /\ vmToken' = IF CtlAct = "destroy" THEN [vmToken EXCEPT ![CtlRt] = 0] ELSE vmToken
    /\ ctlCur' = [ctlCur EXCEPT !.pc = "close"]
    /\ UNCHANGED <<ctlOps, ctlPacket, vmHostVars, vmName, guardOk, vmFaults>>

CloseHostOp ==
    /\ \/ ctlCur.pc = "close" /\ ctlOps' = [ctlOps EXCEPT ![ctlCur.row].st = "succeeded"]
       \/ /\ ctlCur.pc = "answer" /\ ~MayRecord(ctlCur.ans)
          /\ ctlOps' = [ctlOps EXCEPT ![ctlCur.row].st = IF ctlCur.ans = "uncertain" THEN "failed" ELSE "waiting"]
    /\ ctlCur' = CtlIdle
    /\ UNCHANGED <<ctlBox, ctlPacket, vmToken, vmHostVars, vmName, guardOk, vmFaults>>

\* the controller's daemon dies and recover_operations runs when it is back
ControllerDies ==
    /\ ctlCur # CtlIdle /\ Fault /\ CtlUncertain
    /\ UNCHANGED <<ctlBox, ctlPacket, vmToken, vmHostVars, vmName, guardOk>>

(* --------------------------------- host --------------------------------- *)
HRow == hostCur.row
HRt  == ctlOps[HRow].rt
HAct == ctlOps[HRow].act
HName == vmName[HRt]
HGo(pc) == hostCur' = [hostCur EXCEPT !.pc = pc]
HSettle(st) == hostOps' = [hostOps EXCEPT ![HRow] = st] /\ hostCur' = VmIdle
HFail == HSettle("uncertain")
HKeep == UNCHANGED <<vmCtlVars, hostRes, hostPacket, hostVersion, vmName, guardOk>>

HostPick(i) ==
    /\ hostCur = VmIdle /\ hostOps[i] = "pending"
    /\ ctlOps[i].act = "reconcile" \/ \A j \in 1 .. i - 1 : ctlOps[j].rt = ctlOps[i].rt => hostOps[j] \notin VmOpen
    /\ hostOps' = [hostOps EXCEPT ![i] = "running"] /\ hostCur' = [row |-> i, pc |-> "prepare"]
    /\ UNCHANGED <<hostBox, claim, manifest, authorized, guest, vmFaults>> /\ HKeep

\* claim_resource: a claim is never overwritten
Claimed(g) == claim[vmName[g]] \in {"none", g}

\* the configuration of the first preparation stays; an upgraded program does not change it
RecordedConf(g) == IF manifest[g] # 0 THEN manifest[g] ELSE hostVersion

\* the resource a lifecycle operation works on: the recorded one, or for destroy the one the manifest names
HasResource(g, act) == act = "reconcile" \/ hostBox[g].res \/ (act = "destroy" /\ manifest[g] # 0)

\* prepare: the claim
VmPrepare ==
    /\ hostCur.pc = "prepare"
    /\ IF hostBox[HRt].st # "removed" /\ Claimed(HRt)
          /\ (HAct = "create" \/ (HasResource(HRt, HAct) /\ manifest[HRt] # 0))
       THEN claim' = [claim EXCEPT ![HName] = HRt] /\ HGo("manifest") /\ UNCHANGED hostOps
       ELSE HFail /\ UNCHANGED claim
    /\ UNCHANGED <<hostBox, manifest, authorized, guest, vmFaults>> /\ HKeep

\* then ownership.json, unless it is there
VmWriteOwnership ==
    /\ hostCur.pc = "manifest" /\ manifest' = [manifest EXCEPT ![HRt] = RecordedConf(HRt)]
    /\ HGo(IF HAct = "create" THEN "authorize" ELSE "lookup")
    /\ UNCHANGED <<hostOps, hostBox, claim, authorized, guest, vmFaults>> /\ HKeep

\* a limactl or guard command that fails before it had any effect
CommandFails ==
    /\ hostCur.pc \in {"authorize", "create", "lookup", "act", "install"} /\ Fault /\ HFail
    /\ UNCHANGED <<hostBox, claim, manifest, authorized, guest>> /\ HKeep

\* creation is authorised durably only after a complete list showed no guest of that name
MayAuthorize(g) == authorized[g] \/ guest[vmName[g]] = NoGuest

\* prerequisites(apply) and the creation-authorized file
VmAuthorize ==
    /\ hostCur.pc = "authorize"
    /\ IF guardOk /\ MayAuthorize(HRt)
       THEN authorized' = [authorized EXCEPT ![HRt] = TRUE] /\ HGo("create") /\ UNCHANGED hostOps
       ELSE HFail /\ UNCHANGED authorized
    /\ UNCHANGED <<hostBox, claim, manifest, guest, vmFaults>> /\ HKeep

\* limactl start --name from the stored configuration
VmCreate ==
    /\ hostCur.pc = "create"
    /\ guest' = [guest EXCEPT ![HName] = [owner |-> IF @ = NoGuest THEN HRt ELSE @.owner, st |-> "running",
                                          conf |-> manifest[HRt], pk |-> @.pk, ok |-> FALSE]]
    /\ HGo("verify") /\ UNCHANGED <<hostOps, hostBox, claim, manifest, authorized, vmFaults>> /\ HKeep


\* verify_running: a guest whose host filter is not enforced is stopped by force; a failed stop is only reported
VmVerify ==
    /\ hostCur.pc = "verify"
    /\ \/ /\ guardOk /\ guest' = [guest EXCEPT ![HName].ok = TRUE]
          /\ HGo(IF HAct = "create" THEN "install" ELSE "record") /\ UNCHANGED <<hostOps, vmFaults>>
       \/ /\ ~guardOk /\ guest' = [guest EXCEPT ![HName].st = "stopped"] /\ HFail /\ UNCHANGED vmFaults
       \/ ~guardOk /\ Fault /\ HFail /\ UNCHANGED guest
    /\ UNCHANGED <<hostBox, claim, manifest, authorized>> /\ HKeep

\* binary, bootstrap.env and the unit are written into the guest, and its service enabled
VmInstall ==
    /\ hostCur.pc = "install" /\ guest' = [guest EXCEPT ![HName].pk = hostPacket[HRt]] /\ HGo("record")
    /\ UNCHANGED <<hostOps, hostBox, claim, manifest, authorized, vmFaults>> /\ HKeep

\* lifecycle looks at the guest: absence completes only a destroy; a guest without authorisation is somebody else's
MayTouch(g) == authorized[g]
VmLookup ==
    /\ hostCur.pc = "lookup"
    /\ CASE HAct \in {"start", "reconcile"} /\ ~guardOk -> HFail
         [] guest[HName] = NoGuest -> (IF HAct = "destroy" THEN HGo("record") /\ UNCHANGED hostOps ELSE HFail)
         [] ~MayTouch(HRt) -> HFail
         [] OTHER -> HGo(IF HAct = "reconcile" THEN "record" ELSE "act") /\ UNCHANGED hostOps
    /\ guest' = IF HAct = "reconcile" /\ hostCur'.pc = "record" THEN [guest EXCEPT ![HName].ok = TRUE] ELSE guest
    /\ UNCHANGED <<hostBox, claim, manifest, authorized, vmFaults>> /\ HKeep

\* limactl start, stop or delete --force
VmAct ==
    /\ hostCur.pc = "act"
    /\ guest' = [guest EXCEPT ![HName] = CASE HAct = "destroy" -> NoGuest
                                           [] HAct = "stop" -> [@ EXCEPT !.st = "stopped"]
                                           [] OTHER -> [@ EXCEPT !.st = "running", !.ok = @ /\ guest[HName].st = "running"]]
    /\ HGo(IF HAct = "start" THEN "verify" ELSE "record")
    /\ UNCHANGED <<hostOps, hostBox, claim, manifest, authorized, vmFaults>> /\ HKeep

\* tick writes managed_runtimes

HostRecord ==
    /\ hostCur.pc = "record"
    /\ hostBox' = [hostBox EXCEPT ![HRt] =
         [st |-> CASE HAct = "destroy" -> "removed" [] HAct = "stop" -> "stopped"
                   [] HAct = "reconcile" /\ guest[HName].st = "stopped" -> "stopped" [] OTHER -> "provisioned",
          res |-> @.res \/ HAct \in {"create", "reconcile"}]]
    /\ HGo("close") /\ UNCHANGED <<hostOps, claim, manifest, authorized, guest, vmFaults>> /\ HKeep

HostClose ==
    /\ hostCur.pc = "close" /\ HSettle("succeeded") /\ hostRes' = [hostRes EXCEPT ![HRow] = hostBox[HRt]]
    /\ UNCHANGED <<vmCtlVars, hostBox, hostPacket, claim, manifest, authorized, guest, hostVersion, vmName, guardOk, vmFaults>>

\* the host's daemon dies; it may come back as a newer program
HostDies ==
    /\ hostCur # VmIdle /\ Fault /\ HFail /\ hostVersion' \in {hostVersion, 2}
    /\ UNCHANGED <<vmCtlVars, hostRes, hostBox, hostPacket, claim, manifest, authorized, guest, vmName, guardOk>>

\* an administrator changes the host's filter rules
GuardChanges ==
    /\ guardOk /\ Fault /\ guardOk' = FALSE
    /\ UNCHANGED <<vmCtlVars, vmHostVars, vmName>>

VmController == HostOpRefused \/ IssuePacket \/ PersistPacket \/ HostCall
                \/ HostCallFails \/ RecordHostResult \/ CloseHostOp
VmHost == (\E i \in VmRows : HostPick(i)) \/ VmPrepare \/ VmWriteOwnership \/ VmAuthorize \/ VmCreate \/ VmVerify \/ VmInstall \/ VmLookup
          \/ VmAct \/ HostRecord \/ HostClose
VmNext == (\E g \in VmIds, act \in VmActs : VmRequest(g, act))
          \/ (\E i \in VmRows : HostOpPick(i)) \/ VmController \/ VmHost \/ CommandFails \/ ControllerDies \/ HostDies \/ GuardChanges

VmSpec == VmInit /\ [][VmNext]_vmVars

(* ------------------------------ properties ------------------------------ *)
\* the types of the tables, files and guests
VmTypeOK ==
    /\ \A i \in DOMAIN ctlOps : ctlOps[i].st \in {"pending", "waiting", "running", "succeeded", "failed", "uncertain"}
    /\ \A i \in VmRows : (ctlOps # <<>> /\ i \in DOMAIN ctlOps /\ ctlOps[i].st = "running") <=> (ctlCur.row = i)
    /\ \A i \in VmRows : (hostOps[i] = "running") <=> (hostCur.row = i)
    /\ \A n \in VmNames : guest[n].owner \in VmIds \cup {"none", "foreign"} /\ claim[n] \in VmIds \cup {"none"}

\* Guests that exist never need more CPUs than the host has: what a crashed, failed or uncertain operation
\* may have left behind keeps its reservation until a destroy saw it gone (local_vm_reservations).
HostNotOversold == VmCpus * Cardinality({n \in VmNames : guest[n].owner \in VmIds}) <= HostCpus

\* No operation changes a guest that another runtime or another program created, even one of the same
\* name: claim_resource, the creation-authorized file and the lookup before it.
OthersGuestsKept == [][\A n \in VmNames :
    (guest[n] # NoGuest /\ guest'[n] # guest[n]) => (hostCur # VmIdle /\ guest[n].owner = HRt)]_vmVars

\* A guest runs the configuration that was recorded when it was first prepared, whatever version of the
\* program performed its creation or works on it later (prepare, stored_configuration).
GuestAsRecorded == \A g \in VmIds : guest[vmName[g]].owner = g => guest[vmName[g]].conf = manifest[g]

\* When the last create or start of a guest is reported as done, a guest that runs was verified after
\* it started to be behind the enforced host filter (verify_running).
StartedGuarded == \A i \in DOMAIN ctlOps :
    (/\ hostOps[i] = "succeeded" /\ ctlOps[i].act \in {"create", "start"}
     /\ \A j \in DOMAIN ctlOps : (j # i /\ ctlOps[j].rt = ctlOps[i].rt /\ ctlOps[j].act # "create") => hostOps[j] = "none")
       => LET v == guest[vmName[ctlOps[i].rt]] IN v.st = "running" => v.ok

\* A runtime the controller shows as removed has no guest on the host and no token that still enrols it
\* (record_host_result is applied only to a finished operation).
RemovedThereToo == \A g \in VmIds :
    ctlBox[g].st = "removed" => (vmToken[g] = 0 /\ \A n \in VmNames : guest[n].owner # g)

\* A guest was given the packet whose token the controller accepts: a request that is repeated after a lost
\* answer or a crash does not invalidate the packet a guest was built with.
PacketStillValid == \A g \in VmIds : LET v == guest[vmName[g]] IN
    (v.owner = g /\ v.pk # 0) => vmToken[g] \in {v.pk, 0}

\* The invariants together: what every request, crash and retry above must preserve.
VmInv ==
  /\ VmTypeOK
  /\ HostNotOversold
  /\ GuestAsRecorded
  /\ StartedGuarded
  /\ RemovedThereToo
  /\ PacketStillValid
=============================================================================
