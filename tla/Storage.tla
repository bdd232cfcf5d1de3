------------------------------ MODULE Storage ------------------------------
(***************************************************************************)
(* Host disk pressure (storage.rs, storage/pressure.rs): the monitor's     *)
(* state with its hysteresis, the incidents it records, the operator's     *)
(* cleanup hook, the requests sent to attempts, and admission.             *)
(*                                                                         *)
(* One monitor cycle measures and commits in a blocking task and publishes *)
(* afterwards; the daemon may crash between the two, and a hook runs       *)
(* beside the cycles until it ends or times out.                           *)
(***************************************************************************)
EXTENDS Naturals, FiniteSets, FiniteSetsExt

CONSTANTS
  Volumes,      \* watched filesystems
  TaskVolumes,  \* those admission looks at: data root, project root and repository
  Held,         \* attempts
  MaxIncident,  \* bound: incidents
  MaxOutage     \* bound: crashes of the daemon and failed cycles

ASSUME StorageAssumption == TaskVolumes \subseteq Volumes /\ TaskVolumes # {}

\* Free space by the policy's thresholds.
None == 0       \* the probe failed
BelowMin == 1
BelowWarning == 2
BelowResume == 3
Headroom == 4

VARIABLES
  free,       \* free space of each volume
  pressureRow,      \* storage.pressure: state and incident
  measured,   \* what the finished blocking task returned, not yet published
  shared,     \* the watch channel's value
  hookRow,    \* storage.cleanup_hook: the incident it names
  hookRun,    \* incidents whose hook runs
  hookRuns,   \* history: hooks started for each incident
  requests,      \* storage-cleanup messages: incident and attempt
  admitted,       \* attempts that run
  incidents,  \* incidents so far
  rested,     \* history: all volumes had recovery headroom since attempts were last held
  outages

storageVars == <<free, pressureRow, measured, shared, hookRow, hookRun, hookRuns, requests, admitted,
                 incidents, rested, outages>>

Unavailable == [state |-> "paused", id |-> 0]
Healthy == [state |-> "healthy", id |-> 0]
Nothing == [state |-> "none", id |-> 0, claimed |-> FALSE]
StorageInit ==
  /\ free = [v \in Volumes |-> Headroom] /\ pressureRow = Healthy /\ measured = Nothing
  /\ shared = Unavailable /\ hookRow = 0 /\ hookRun = {} /\ hookRuns = [i \in 1..MaxIncident |-> 0]
  /\ requests = {} /\ admitted = {} /\ incidents = 0 /\ rested = TRUE /\ outages = 0

\* report: the smallest free space, or no measure if any volume cannot be read.
Free(volumes) == Min({free[v] : v \in volumes})
\* next.
NextState(previous, f) ==
  CASE f < BelowWarning -> "paused"
    [] f = Headroom -> "healthy"
    [] previous = "paused" -> "paused"
    [] f = BelowWarning \/ previous = "cleanup_requested" -> "cleanup_requested"
    [] OTHER -> "healthy"

\* refresh persists a transition only, under the id of the incident.
IncidentId(state) ==
  CASE state = pressureRow.state -> pressureRow.id [] pressureRow.state = "healthy" -> incidents + 1 [] OTHER -> pressureRow.id
\* claim_hook: once per incident, and only while no hook of this daemon runs.
ClaimsEager(id, state) == state # "healthy" /\ hookRow # id
Claims(id, state) == hookRun = {} /\ state # "healthy" /\ hookRow # id
Measure ==
  LET state == NextState(pressureRow.state, Free(Volumes))
      id == IncidentId(state)
  IN /\ measured = Nothing /\ id <= MaxIncident
     /\ pressureRow' = [state |-> state, id |-> id] /\ incidents' = Max({incidents, id})
     /\ measured' = [state |-> state, id |-> id, claimed |-> Claims(id, state)]
     /\ hookRow' = IF Claims(id, state) THEN id ELSE hookRow
     /\ rested' = (rested \/ Free(Volumes) = Headroom)
     /\ UNCHANGED <<free, shared, hookRun, hookRuns, requests, admitted, outages>>
\* send_replace, and the claimed hook is spawned.
Publish ==
  /\ measured # Nothing /\ measured' = Nothing
  /\ shared' = [state |-> measured.state, id |-> measured.id]
  /\ IF measured.claimed
     THEN /\ hookRun' = hookRun \cup {measured.id}
          /\ hookRuns' = [hookRuns EXCEPT ![measured.id] = @ + 1]
     ELSE UNCHANGED <<hookRun, hookRuns>>
  /\ rested' = (rested /\ measured.state # "paused")
  /\ UNCHANGED <<free, pressureRow, hookRow, requests, admitted, incidents, outages>>
\* A cycle that fails publishes that health is unavailable.
CycleFails ==
  /\ measured = Nothing /\ outages < MaxOutage /\ outages' = outages + 1
  /\ shared' = Unavailable
  /\ UNCHANGED <<free, pressureRow, measured, hookRow, hookRun, hookRuns, requests, admitted, incidents, rested>>
\* The hook ends or times out and records its outcome under its own incident.
HookEnds ==
  /\ \E i \in hookRun : hookRow' = i /\ hookRun' = hookRun \ {i}
  /\ UNCHANGED <<free, pressureRow, measured, shared, hookRuns, requests, admitted, incidents, rested, outages>>
\* The daemon is restarted: the channel starts unavailable, hook and attempts are gone.
StorageCrash ==
  /\ outages < MaxOutage /\ outages' = outages + 1
  /\ shared' = Unavailable /\ measured' = Nothing /\ hookRun' = {} /\ admitted' = {}
  /\ UNCHANGED <<free, pressureRow, hookRow, hookRuns, requests, incidents, rested>>

\* admission: a fresh measure of the task's own volumes, and the published state.
Admissible == NextState(pressureRow.state, Free(TaskVolumes)) = "healthy" /\ shared.state = "healthy"
Admit(a) ==
  /\ a \notin admitted /\ Admissible /\ admitted' = admitted \cup {a}
  /\ UNCHANGED <<free, pressureRow, measured, shared, hookRow, hookRun, hookRuns, requests, incidents, rested, outages>>
\* notify: one cleanup request for each incident and attempt.
Notify(a) ==
  /\ a \in admitted /\ shared.state # "healthy" /\ <<shared.id, a>> \notin requests
  /\ requests' = requests \cup {<<shared.id, a>>}
  /\ UNCHANGED <<free, pressureRow, measured, shared, hookRow, hookRun, hookRuns, admitted, incidents, rested, outages>>
AttemptLeaves(a) ==
  /\ a \in admitted /\ admitted' = admitted \ {a}
  /\ UNCHANGED <<free, pressureRow, measured, shared, hookRow, hookRun, hookRuns, requests, incidents, rested, outages>>
\* Space comes and goes; nobody requests while the disk was fine.
Disk(v) ==
  /\ free' \in [Volumes -> None..Headroom]
  /\ \A u \in Volumes \ {v} : free'[u] = free[u]
  /\ free'[v] # free[v]
  /\ UNCHANGED <<pressureRow, measured, shared, hookRow, hookRun, hookRuns, requests, admitted, incidents, rested, outages>>

StorageNext ==
  \/ Measure \/ Publish \/ CycleFails \/ HookEnds \/ StorageCrash
  \/ \E a \in Held : Admit(a) \/ Notify(a) \/ AttemptLeaves(a)
  \/ \E v \in Volumes : Disk(v)

StorageSpec == StorageInit /\ [][StorageNext]_storageVars
-----------------------------------------------------------------------------
\* The pressure state is well formed: an incident has one of the ids given out.
StorageTypeOK ==
  /\ pressureRow.state \in {"healthy", "cleanup_requested", "paused"} /\ pressureRow.id \in 0..incidents
  /\ shared.state \in {"healthy", "cleanup_requested", "paused"}
  /\ hookRow \in 0..incidents /\ hookRun \subseteq 1..incidents /\ admitted \subseteq Held
  /\ requests \subseteq (0..incidents) \X Held

\* "Separate recovery headroom prevents oscillation" (docs/architecture.md): attempts that
\* were held for a measured shortage are released, and work is admitted, only after every
\* watched volume had recovery headroom; a restart of the daemon does not forget the hold.
ReleasedWithHeadroom == shared.state = "healthy" => rested

\* The cleanup command "runs once per pressure incident" (docs/runtime-management.md): a
\* hook that outlives its incident, a restart or a change of state within the incident
\* never starts a second one.
HookOncePerIncident == \A i \in 1..MaxIncident : hookRuns[i] <= 1

\* An incident that lasts gets its hook, also when the hook of an earlier incident is
\* still running when it begins.
IncidentGetsHook == (pressureRow.state # "healthy") ~> (hookRow = pressureRow.id \/ pressureRow.state = "healthy")

\* The invariants together: what every request, crash and retry above must preserve.
StorageInv ==
  /\ StorageTypeOK
  /\ ReleasedWithHeadroom
  /\ HookOncePerIncident
=============================================================================
