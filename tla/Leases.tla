------------------------------- MODULE Leases -------------------------------
(***************************************************************************)
(* Reservations that a worker runtime holds at its controller              *)
(* (project_runtime.rs, accounts/remote.rs, accounts/credentials.rs and    *)
(* federation/account_control.rs): one project, one account, and remote    *)
(* steps, each on a worker of its own.                                     *)
(*                                                                         *)
(* A worker asks for project capacity, then for the account and its        *)
(* credential, and returns both in the opposite order. A call may fail at  *)
(* the caller and still be carried out, then or later. The operator        *)
(* revokes, grants and replaces the credential meanwhile, and the          *)
(* controller asks the workers to remove the copies they received.         *)
(***************************************************************************)
EXTENDS Naturals, FiniteSets

CONSTANTS
  RemoteSteps,     \* steps of tasks sent to workers
  ProjectLimit,    \* projects.concurrency
  AccountLimit,    \* accounts.concurrency
  MaxLease,        \* bound: request ids drawn per step
  MaxCredential,   \* bound: credential versions
  MaxGrant,        \* bound: grant generations
  MaxLost          \* bound: calls given up by their caller, and deaths of a worker

ASSUME LeasesAssumption ==
  /\ ProjectLimit \in Nat \ {0} /\ AccountLimit \in Nat \ {0} /\ MaxLease \in Nat \ {0}
  /\ MaxCredential \in Nat \ {0} /\ MaxGrant \in Nat \ {0} /\ MaxLost \in Nat

VARIABLES
  \* the controller's tables, by request
  projectRes,    \* project_remote_reservations.state
  accountRes,    \* account_remote_reservations: [state, version]
  delivery,      \* credential_deliveries: [state, version]
  credVersion, granted,   \* current credential; generation of the grant, 0 if revoked
  grants,        \* generations given so far
  linked,        \* linked[s]: the assignment is active at the controller
  \* each worker
  lease,         \* remote_account_leases: [state, req]
  call,          \* the call the worker's tick waits for: [at, reply]
  live,          \* attempts of the step that are running or uncertain
  open,          \* the step is pending and its task is running
  copy,          \* copy[s]: credential versions on the worker's disk
  mine,          \* mine[s]: [version, auth, grant, revoked] of the worker's own account row
  \* the network
  calls,         \* requests to the controller that are not yet carried out
  removals,      \* requests to workers to remove a copy, and how far they are
  lostCalls          \* how many were given up

leaseVars == <<projectRes, accountRes, delivery, credVersion, granted, grants, linked,
               lease, call, live, open, copy, mine, calls, removals, lostCalls>>
controllerVars == <<projectRes, accountRes, delivery, credVersion, granted, grants, linked>>
workerVars     == <<lease, call, live, open, copy, mine>>

Requests  == RemoteSteps \X (1..MaxLease)
Req(s)    == <<s, lease[s].req>>
Waits(s)  == call[s].at
NoReply   == [is |-> "none", version |-> 0, grant |-> 0]
NoCall    == [at |-> "idle", reply |-> NoReply]
Hung(s)   == call[s].at # "idle"
Answer(s, is) == [is |-> is, version |-> credVersion, grant |-> granted]
HeldProjects == {r \in Requests : projectRes[r] = "active"}
HeldAccounts == {r \in Requests : accountRes[r].state \in {"active", "revoked"}}

LeasesInit ==
  /\ projectRes = [r \in Requests |-> "none"]
  /\ accountRes = [r \in Requests |-> [state |-> "none", version |-> 0]]
  /\ delivery = [r \in Requests |-> [state |-> "none", version |-> 0]]
  /\ credVersion = 1 /\ granted = 1 /\ grants = 1
  /\ open \in [RemoteSteps -> BOOLEAN] /\ linked = open
  /\ lease = [s \in RemoteSteps |-> [state |-> "none", req |-> 0]]
  /\ call = [s \in RemoteSteps |-> NoCall]
  /\ live = [s \in RemoteSteps |-> FALSE]
  /\ copy = [s \in RemoteSteps |-> {}]
  /\ mine = [s \in RemoteSteps |-> [version |-> 0, auth |-> FALSE, grant |-> 0, revoked |-> 0]]
  /\ calls = {} /\ removals = {} /\ lostCalls = 0
-----------------------------------------------------------------------------
(* The worker's tick.                                                      *)

Send(s, m, r) ==
  /\ calls' = calls \cup {[m |-> m, req |-> r]}
  /\ call' = [call EXCEPT ![s] = [at |-> m, reply |-> NoReply]]
Rest(s) == call' = [call EXCEPT ![s] = NoCall] /\ UNCHANGED calls
CountLost(lost) ==
  IF lost THEN lostCalls < MaxLost /\ lostCalls' = lostCalls + 1 ELSE UNCHANGED lostCalls
SetLease(s, st) == lease' = [lease EXCEPT ![s].state = st]

\* acquire_remote: the request id is durable before the controller is asked; a lease
\* that is pending or active is asked for again under the same id.
AcquireRemote(s) ==
  /\ ~Hung(s) /\ open[s] /\ ~live[s] /\ lease[s].state # "release_pending"
  /\ IF lease[s].state \in {"none", "released"}
     THEN /\ lease[s].req < MaxLease
          /\ lease' = [lease EXCEPT ![s] = [state |-> "pending", req |-> @.req + 1]]
     ELSE UNCHANGED lease
  /\ Send(s, "project_acquire", <<s, lease'[s].req>>)
  /\ UNCHANGED <<controllerVars, live, open, copy, mine, removals, lostCalls>>

AcquireAccount(s) ==
  /\ Waits(s) = "project_acquire"
  /\ \/ call[s].reply.is = "granted" /\ Send(s, "account_acquire", Req(s))
     \/ call[s].reply.is = "no" /\ Rest(s)
  /\ UNCHANGED <<controllerVars, lease, live, open, copy, mine, removals, lostCalls>>

\* receive: an envelope of a revoked grant, or of an older version, is refused; the
\* current version is taken again only if its material is still here, or was removed
\* and granted anew.
Receivable(s, e) ==
  /\ mine[s].revoked < e.grant
  /\ e.version >= mine[s].version
  /\ e.version = mine[s].version =>
       \/ e.version \in copy[s]
       \/ ~mine[s].auth /\ mine[s].revoked > 0
ReceiveCredential(s) ==
  /\ Waits(s) = "account_acquire" /\ call[s].reply.is = "bound"
  /\ Receivable(s, call[s].reply)
  /\ copy' = [copy EXCEPT ![s] = @ \cup {call[s].reply.version}]
  /\ mine' = [mine EXCEPT ![s] =
       [version |-> call[s].reply.version, auth |-> TRUE, revoked |-> mine[s].revoked,
        grant   |-> IF mine[s].grant = 0 THEN call[s].reply.grant ELSE mine[s].grant]]
  /\ SetLease(s, "active")
  /\ call' = [call EXCEPT ![s] = [at |-> "begin", reply |-> NoReply]]
  /\ UNCHANGED <<controllerVars, live, open, calls, removals, lostCalls>>

\* release_remote: nothing while an attempt is live; the account first.
ReleaseWhileLive(s) ==
  /\ lease[s].state # "released" /\ lease[s].req > 0
  /\ Send(s, "account_release", Req(s))
ReleaseRemote(s) ==
  /\ ~live[s] /\ lease[s].state # "released" /\ lease[s].req > 0
  /\ Send(s, "account_release", Req(s))

\* An acquisition that failed, was refused, or delivered what cannot be received.
AcquireFailed(s) ==
  /\ Waits(s) \in {"project_acquire", "account_acquire"}
  /\ \/ call[s].reply.is \in {"none", "error", "null"}
     \/ call[s].reply.is = "bound" /\ ~Receivable(s, call[s].reply)
  /\ ReleaseRemote(s) /\ CountLost(call[s].reply.is = "none")
  /\ UNCHANGED <<controllerVars, lease, live, open, copy, mine, removals>>

\* begin reserves the received account; the operator may have cancelled the task, or
\* the controller removed the account, since.
BeginRemote(s) ==
  /\ Waits(s) = "begin"
  /\ \/ /\ open[s] /\ mine[s].grant # 0 /\ mine[s].auth
        /\ live' = [live EXCEPT ![s] = TRUE] /\ Rest(s)
     \/ /\ ~open[s] \/ mine[s].grant = 0 \/ ~mine[s].auth
        /\ ReleaseRemote(s) /\ UNCHANGED live
  /\ UNCHANGED <<controllerVars, lease, open, copy, mine, removals, lostCalls>>

\* The attempt ends, by itself or because its account was revoked; the step is over
\* or will be tried again. The tick that reaps it returns the lease.
AttemptEnds(s) ==
  /\ live[s] /\ ~Hung(s) /\ live' = [live EXCEPT ![s] = FALSE]
  /\ open' \in {open, [open EXCEPT ![s] = FALSE]}
  /\ UNCHANGED <<controllerVars, lease, call, copy, mine, calls, removals, lostCalls>>
ReapLease(s) ==
  /\ ~Hung(s) /\ lease[s].state = "active" /\ ReleaseRemote(s)
  /\ UNCHANGED <<controllerVars, lease, live, open, copy, mine, removals, lostCalls>>

\* reconcile_releases: leases of cancelled tasks and finished steps, and the ones
\* whose release failed.
ReconcileReleases(s) ==
  /\ ~Hung(s) /\ ~live[s]
  /\ \/ lease[s].state \in {"pending", "active"} /\ ~open[s] /\ SetLease(s, "release_pending")
     \/ lease[s].state = "release_pending" /\ UNCHANGED lease
  /\ Send(s, "account_release", Req(s))
  /\ UNCHANGED <<controllerVars, live, open, copy, mine, removals, lostCalls>>

ReleaseNext(s) ==
  /\ Waits(s) \in {"account_release", "project_release"}
  /\ \/ /\ call[s].reply.is = "released" /\ Waits(s) = "account_release"
        /\ Send(s, "project_release", Req(s)) /\ UNCHANGED lease
     \/ /\ call[s].reply.is = "released" /\ Waits(s) = "project_release"
        /\ SetLease(s, "released") /\ Rest(s)
     \/ /\ call[s].reply.is \in {"none", "error"}
        /\ SetLease(s, "release_pending") /\ Rest(s)
  /\ CountLost(call[s].reply.is = "none")
  /\ UNCHANGED <<controllerVars, live, open, copy, mine, removals>>

\* The task is cancelled, at the controller and then at the worker.
CancelAssignment(s) ==
  /\ linked[s] /\ linked' = [linked EXCEPT ![s] = FALSE]
  /\ UNCHANGED <<projectRes, accountRes, delivery, credVersion, granted, grants,
                 workerVars, calls, removals, lostCalls>>
CancelStep(s) ==
  /\ ~linked[s] /\ open[s] /\ open' = [open EXCEPT ![s] = FALSE]
  /\ UNCHANGED <<controllerVars, lease, call, live, copy, mine, calls, removals, lostCalls>>

\* The worker's daemon dies and comes back: a live attempt stays, as uncertain. What
\* the dead process had sent is carried out before its successor asks, or never.
WorkerDies(s) ==
  /\ Hung(s) /\ call' = [call EXCEPT ![s] = NoCall]
  /\ calls' = {c \in calls : c.req[1] # s} /\ CountLost(TRUE)
  /\ UNCHANGED <<controllerVars, lease, live, open, copy, mine, removals>>
-----------------------------------------------------------------------------
(* The controller: account_operation.                                      *)

\* The answer goes to the call itself, if its caller still waits.
Reply(c, is) ==
  LET s == c.req[1] IN
  call' = IF Waits(s) = c.m /\ Req(s) = c.req /\ call[s].reply = NoReply
          THEN [call EXCEPT ![s].reply = Answer(s, is)] ELSE call
Handled(c) == calls' = calls \ {c}

ProjectAcquire(c) ==
  LET r == c.req  s == r[1] IN
  /\ c.m = "project_acquire"
  /\ \/ /\ linked[s] /\ projectRes[r] = "active" /\ Reply(c, "granted")
        /\ UNCHANGED projectRes
     \/ /\ linked[s] /\ projectRes[r] = "none" /\ Cardinality(HeldProjects) < ProjectLimit
        /\ projectRes' = [projectRes EXCEPT ![r] = "active"] /\ Reply(c, "granted")
     \/ /\ linked[s] /\ projectRes[r] = "none" /\ Cardinality(HeldProjects) >= ProjectLimit
        /\ Reply(c, "no") /\ UNCHANGED projectRes
     \/ /\ ~linked[s] \/ projectRes[r] = "released"
        /\ Reply(c, "error") /\ UNCHANGED projectRes
  /\ Handled(c)
  /\ UNCHANGED <<accountRes, delivery, credVersion, granted, grants, linked,
                 lease, live, open, copy, mine, removals, lostCalls>>

\* reserve_remote and provision.
Renewable(r) ==
  accountRes[r] = [state |-> "active", version |-> credVersion] /\ granted > 0
Deliverable(r) ==
  \/ delivery[r].state = "none"
  \/ delivery[r] = [state |-> "delivered", version |-> credVersion]
AccountAcquire(c) ==
  LET r == c.req  s == r[1]
      admitted == linked[s] /\ projectRes[r] = "active"
      free     == granted > 0 /\ Cardinality(HeldAccounts) < AccountLimit
      new      == admitted /\ accountRes[r].state = "none" /\ free
  IN
  /\ c.m = "account_acquire"
  /\ \/ /\ new \/ (admitted /\ Renewable(r) /\ Deliverable(r))
        /\ accountRes' = [accountRes EXCEPT ![r] = [state |-> "active", version |-> credVersion]]
        /\ delivery' = [delivery EXCEPT ![r] = [state |-> "delivered", version |-> credVersion]]
        /\ Reply(c, "bound")
     \/ /\ admitted /\ accountRes[r].state = "none" /\ ~free
        /\ Reply(c, "null") /\ UNCHANGED <<accountRes, delivery>>
     \/ /\ ~admitted \/ (accountRes[r].state # "none" /\ ~(Renewable(r) /\ Deliverable(r)))
        /\ Reply(c, "error") /\ UNCHANGED <<accountRes, delivery>>
  /\ Handled(c)
  /\ UNCHANGED <<projectRes, credVersion, granted, grants, linked,
                 lease, live, open, copy, mine, removals, lostCalls>>

\* A request that was never reserved counts as released.
AccountRelease(c) ==
  LET r == c.req IN
  /\ c.m = "account_release"
  /\ accountRes' = IF accountRes[r].state = "none" THEN accountRes
                   ELSE [accountRes EXCEPT ![r].state = "released"]
  /\ Reply(c, "released") /\ Handled(c)
  /\ UNCHANGED <<projectRes, delivery, credVersion, granted, grants, linked,
                 lease, live, open, copy, mine, removals, lostCalls>>

ReleaseUnrecorded(c) ==
  LET r == c.req IN
  /\ c.m = "project_release"
  /\ projectRes' = IF projectRes[r] = "active" THEN [projectRes EXCEPT ![r] = "released"]
                   ELSE projectRes
  /\ Reply(c, "released") /\ Handled(c)
  /\ UNCHANGED <<accountRes, delivery, credVersion, granted, grants, linked,
                 lease, live, open, copy, mine, removals, lostCalls>>
\* A release that overtakes its acquire is recorded, so that the acquire is refused.
ProjectRelease(c) ==
  LET r == c.req IN
  /\ c.m = "project_release" /\ projectRes' = [projectRes EXCEPT ![r] = "released"]
  /\ Reply(c, "released") /\ Handled(c)
  /\ UNCHANGED <<accountRes, delivery, credVersion, granted, grants, linked,
                 lease, live, open, copy, mine, removals, lostCalls>>
-----------------------------------------------------------------------------
(* The operator at the controller, and the copies it takes back.           *)

RevokeGrant ==
  /\ granted > 0 /\ granted' = 0
  /\ accountRes' = [r \in Requests |-> IF accountRes[r].state = "active"
                      THEN [accountRes[r] EXCEPT !.state = "revoked"] ELSE accountRes[r]]
  /\ delivery' = [r \in Requests |-> IF delivery[r].state = "delivered"
                    THEN [delivery[r] EXCEPT !.state = "revocation_pending"] ELSE delivery[r]]
  /\ UNCHANGED <<projectRes, credVersion, grants, linked, workerVars, calls, removals, lostCalls>>

GrantAgain ==
  /\ granted = 0 /\ grants < MaxGrant /\ grants' = grants + 1 /\ granted' = grants + 1
  /\ UNCHANGED <<projectRes, accountRes, delivery, credVersion, linked, workerVars,
                 calls, removals, lostCalls>>

ReplaceCredential ==
  /\ granted > 0 /\ credVersion < MaxCredential /\ credVersion' = credVersion + 1
  /\ delivery' = [r \in Requests |-> IF delivery[r].state = "delivered"
                    THEN [delivery[r] EXCEPT !.state = "replacement_pending"] ELSE delivery[r]]
  /\ UNCHANGED <<projectRes, accountRes, granted, grants, linked, workerVars, calls, removals, lostCalls>>

\* reconcile_credentials.
AskRemoval(r) ==
  /\ removals = {} /\ delivery[r].state \in {"revocation_pending", "replacement_pending"}
  /\ removals' = removals \cup {[m |-> delivery[r].state, s |-> r[1],
                                 v |-> delivery[r].version, at |-> "sent"]}
  /\ UNCHANGED <<controllerVars, workerVars, calls, lostCalls>>

\* The answer, unless it was lost: every delivery it stands for is over.
Removed(m, ok) ==
  LET done == {r \in Requests : r[1] = m.s /\ delivery[r] = [state |-> m.m, version |-> m.v]} IN
  \/ UNCHANGED delivery
  \/ ok /\ delivery' = [r \in Requests |-> IF r \in done
                          THEN [delivery[r] EXCEPT !.state = "removed"] ELSE delivery[r]]

\* The request is answered, or goes on: requests, ticks and other calls run in between.
RemovalAnswered(m, ok) == removals' = removals \ {m} /\ Removed(m, ok)
GoesTo(m, st) == removals' = (removals \ {m}) \cup {[m EXCEPT !.at = st]} /\ UNCHANGED delivery
OnlyRemoval == UNCHANGED <<projectRes, accountRes, credVersion, granted, grants, linked,
                           lease, call, live, open, calls, lostCalls>>

\* remove_received: the grant goes at once and is noted as revoked.
RemoveReceived(m) ==
  /\ m.m = "revocation_pending" /\ m.at = "sent" /\ GoesTo(m, "revoked")
  /\ mine' = [mine EXCEPT ![m.s] =
       [version |-> mine[m.s].version, auth |-> mine[m.s].auth, grant |-> 0,
        revoked |-> IF mine[m.s].grant > 0 THEN mine[m.s].grant ELSE mine[m.s].revoked]]
  /\ OnlyRemoval /\ UNCHANGED copy
\* Then, like retire_received for a project that is still granted, it looks for attempts.
CountAttempts(m) ==
  /\ \/ m.m = "revocation_pending" /\ m.at = "revoked"
     \/ m.m = "replacement_pending" /\ m.at = "sent"
  /\ \/ /\ live[m.s] \/ (m.m = "replacement_pending" /\ mine[m.s].grant = 0)
        /\ RemovalAnswered(m, FALSE)
     \/ /\ ~live[m.s] /\ (m.m = "replacement_pending" => mine[m.s].grant > 0)
        /\ GoesTo(m, "counted")
  /\ OnlyRemoval /\ UNCHANGED <<mine, copy>>
RemainingGrants(m) ==
  /\ m.m = "revocation_pending" /\ m.at = "counted"
  /\ \/ mine[m.s].grant > 0 /\ RemovalAnswered(m, TRUE)
     \/ mine[m.s].grant = 0 /\ GoesTo(m, "ungranted")
  /\ OnlyRemoval /\ UNCHANGED <<mine, copy>>
\* All of the material, or the versions up to the replaced one.
DeleteMaterial(m) ==
  /\ \/ m.m = "revocation_pending" /\ m.at = "ungranted" /\ copy' = [copy EXCEPT ![m.s] = {}]
     \/ /\ m.m = "replacement_pending" /\ m.at = "counted"
        /\ copy' = [copy EXCEPT ![m.s] = {v \in @ : v > m.v}]
  /\ GoesTo(m, "deleted") /\ OnlyRemoval /\ UNCHANGED mine
\* retire_received: a newer version that arrived keeps the account authenticated.
RetireReceived(m) ==
  /\ m.m = "replacement_pending" /\ m.at = "deleted"
  /\ \/ mine[m.s].version > m.v /\ RemovalAnswered(m, TRUE)
     \/ mine[m.s].version <= m.v /\ GoesTo(m, "outdated")
  /\ OnlyRemoval /\ UNCHANGED <<mine, copy>>
ClearAuthenticated(m) ==
  /\ m.at = IF m.m = "revocation_pending" THEN "deleted" ELSE "outdated"
  /\ mine' = [mine EXCEPT ![m.s].auth = FALSE] /\ RemovalAnswered(m, TRUE)
  /\ OnlyRemoval /\ UNCHANGED copy
\* The request is lost on its way, or with the process that serves it.
RemovalLost(m) ==
  /\ RemovalAnswered(m, FALSE) /\ OnlyRemoval /\ UNCHANGED <<mine, copy>>

RemovalStep(m) ==
  \/ RemoveReceived(m) \/ CountAttempts(m) \/ RemainingGrants(m) \/ DeleteMaterial(m)
  \/ RetireReceived(m) \/ ClearAuthenticated(m) \/ RemovalLost(m)

\* cleanup_ungranted: the tick removes what an interrupted removal left.
CleanupUngranted(s) ==
  /\ ~Hung(s) /\ ~live[s] /\ mine[s].grant = 0 /\ (mine[s].auth \/ copy[s] # {})
  /\ copy' = [copy EXCEPT ![s] = {}] /\ mine' = [mine EXCEPT ![s].auth = FALSE]
  /\ OnlyRemoval /\ UNCHANGED <<delivery, removals>>
-----------------------------------------------------------------------------
WorkerStep(s) ==
  \/ AcquireRemote(s) \/ AcquireAccount(s) \/ ReceiveCredential(s) \/ AcquireFailed(s)
  \/ BeginRemote(s) \/ ReapLease(s) \/ ReconcileReleases(s) \/ ReleaseNext(s)

LeasesWork ==
  \/ \E s \in RemoteSteps : WorkerStep(s) \/ AttemptEnds(s) \/ CancelAssignment(s)
                            \/ CancelStep(s) \/ WorkerDies(s)
  \/ \E c \in calls : ProjectAcquire(c) \/ AccountAcquire(c) \/ AccountRelease(c)
                      \/ ProjectRelease(c)
LeasesOperator ==
  \/ RevokeGrant \/ GrantAgain \/ ReplaceCredential \/ \E r \in Requests : AskRemoval(r)
  \/ \E m \in removals : RemovalStep(m)
  \/ \E s \in RemoteSteps : CleanupUngranted(s)
LeasesNext == LeasesWork \/ LeasesOperator

LeasesSpec == LeasesInit /\ [][LeasesNext]_leaseVars
-----------------------------------------------------------------------------
LeasesTypeOK ==
  /\ projectRes \in [Requests -> {"none", "active", "released"}]
  /\ accountRes \in [Requests -> [state : {"none", "active", "revoked", "released"},
                                  version : 0..MaxCredential]]
  /\ delivery \in [Requests -> [state : {"none", "delivered", "revocation_pending",
                                         "replacement_pending", "removed"},
                                version : 0..MaxCredential]]
  /\ credVersion \in 1..MaxCredential /\ granted \in 0..grants /\ grants \in 1..MaxGrant
  /\ linked \in [RemoteSteps -> BOOLEAN] /\ live \in [RemoteSteps -> BOOLEAN]
  /\ open \in [RemoteSteps -> BOOLEAN]
  /\ lease \in [RemoteSteps -> [state : {"none", "pending", "active", "release_pending",
                                         "released"}, req : 0..MaxLease]]
  /\ copy \in [RemoteSteps -> SUBSET (1..MaxCredential)] /\ lostCalls \in 0..MaxLost
  /\ \A s \in RemoteSteps :
       /\ call[s].at \in {"idle", "project_acquire", "account_acquire", "begin",
                          "account_release", "project_release"}
       /\ call[s].reply.is \in {"none", "granted", "no", "error", "null", "bound", "released"}
       /\ mine[s].version \in 0..MaxCredential /\ mine[s].grant \in 0..MaxGrant
       /\ mine[s].revoked \in 0..MaxGrant

\* Remote attempts of a project stay within its concurrency across the fleet, and a
\* reservation is given back only when its attempt is over, whatever calls were lost,
\* late or repeated: the reservations implement Quota.
FleetQuota == INSTANCE Quota WITH
  Units <- Requests, QuotaLimit <- ProjectLimit, held <- HeldProjects,
  inUse <- {Req(s) : s \in {t \in RemoteSteps : live[t]}}
FleetWithinLimit == FleetQuota!QuotaSpec

\* No attempt runs on an account reservation that the controller has given away, so
\* the attempts on the account are within its concurrency too.
RunsOnItsAccount == \A s \in RemoteSteps : live[s] => Req(s) \in HeldAccounts

\* Once a worker has returned a lease the project's capacity is free again, even when
\* an acquire that was given up arrives after the release.
ProjectCapacityReturned ==
  \A s \in RemoteSteps : lease[s].state = "released" => projectRes[Req(s)] # "active"

\* A late envelope does not bring back a grant that the controller took from the
\* worker: a new grant has a newer generation than the one that was revoked.
RevokedGrantStaysOut ==
  \A s \in RemoteSteps : mine[s].grant > 0 => mine[s].grant > mine[s].revoked

\* The invariants together: what every request, crash and retry above must preserve.
LeasesInv ==
  /\ LeasesTypeOK
  /\ RunsOnItsAccount
  /\ ProjectCapacityReturned
  /\ RevokedGrantStaysOut
=============================================================================
