---------------------------- MODULE Environment ----------------------------
(***************************************************************************)
(* Disposable application environments (environment.rs) of one root task,  *)
(* some on the controller itself and some on a worker runtime, which holds *)
(* a lease of the root's limit for them (federation.rs, environment_lease).*)
(*                                                                         *)
(* An environment step reserves a port, inserts its row, waits for the     *)
(* lease, starts the application, records its process, tests, stops it and *)
(* returns the lease. The step may be aborted anywhere and the daemon may  *)
(* crash anywhere; what is left is reconciled at startup and by the        *)
(* maintenance loop. After a crash a recorded pid may belong to a stranger.*)
(***************************************************************************)
EXTENDS Naturals, FiniteSets

CONSTANTS
  Envs,         \* environment ids
  Composed,     \* environments of the compose runner; the others are single processes
  OnWorker,     \* those of the worker's task; the others run at the controller
  Ports,        \* loopback ports the kernel hands out
  RootLimit,    \* limits.environments
  MaxUpset      \* bound: crashes, failed lease calls and pid reuses

ASSUME EnvironmentAssumption ==
  OnWorker \subseteq Envs /\ Composed \subseteq Envs /\ RootLimit \in Nat \ {0} /\ MaxUpset \in Nat

VARIABLES
  est,        \* app_environments.state, "none" before the row
  run,        \* where execute() is, "gone" when no future exists
  eproc,      \* the group of the recorded pid: none, ours, orphans (ours, leader dead),
              \* foreign (a stranger has the pid), strays (a stranger's, leader dead)
  known,      \* pid and identity are recorded, or the project's compose.json is written
  port,       \* the port the environment was given, 0 if none
  reserved,   \* RESERVED_PORTS of the daemon
  files,      \* scratch directory and env file with the bundle's values exist
  swept,      \* reconcile stopped the processes and waits for the lease call
  envLease,   \* the controller holds a remote_environment_leases row for the worker's task
  startup,    \* rows the restarted daemons have still to reconcile
  envHold,    \* rows whose attempt a storage.pause receipt names, the task not cancelled
  upset

envVars == <<est, run, eproc, known, port, reserved, files, swept, envLease, startup, envHold, upset>>

NoPort == 0
EnvInit ==
  /\ est = [e \in Envs |-> "none"] /\ run = [e \in Envs |-> "gone"]
  /\ eproc = [e \in Envs |-> "none"] /\ known = [e \in Envs |-> FALSE]
  /\ port = [e \in Envs |-> NoPort] /\ reserved = {} /\ files = [e \in Envs |-> FALSE]
  /\ swept = [e \in Envs |-> FALSE] /\ envLease = FALSE /\ startup = {} /\ envHold = {}
  /\ upset = 0

Upset == upset < MaxUpset /\ upset' = upset + 1
EnvLive(e) == est[e] \notin {"none", "removed"}
\* available: the root's own environments and the leases.
HeldAtRoot == Cardinality({e \in Envs \ OnWorker : EnvLive(e)}) + (IF envLease THEN 1 ELSE 0)
AvailableAt(e) ==
  IF e \in OnWorker THEN Cardinality({f \in OnWorker : EnvLive(f)}) < RootLimit
  ELSE HeldAtRoot < RootLimit
-----------------------------------------------------------------------------
(* execute().                                                              *)

\* A port is busy while a listener or an application of ours is bound to it.
Bound == {port[e] : e \in {f \in Envs : run[f] \in {"prepare", "leased"}
                                        \/ eproc[f] \in {"ours", "orphans"}}}
ReservePort(p)    == p \notin Bound /\ p \notin reserved
\* The scratch directory and the env file with the bundle's values; cleanup_env_manifest
\* and the removal of the directory take both away.
MaterializeEnv(e)     == [files EXCEPT ![e] = TRUE]
CleanupEnvManifest(e) == [files EXCEPT ![e] = FALSE]
\* reserve_port, the row under the limit, and the private files.
EnvStart(e) ==
  /\ est[e] = "none" /\ startup = {} /\ AvailableAt(e)
  /\ \E p \in Ports : /\ ReservePort(p)
                      /\ port' = [port EXCEPT ![e] = p] /\ reserved' = reserved \cup {p}
  /\ est' = [est EXCEPT ![e] = "preparing"] /\ run' = [run EXCEPT ![e] = "prepare"]
  /\ files' = MaterializeEnv(e)
  /\ UNCHANGED <<envHold, eproc, known, swept, envLease, startup, upset>>

\* environment_lease(acquire): an existing lease of the task answers; otherwise one is
\* taken if the root has room, and the caller asks again if it has not.
EnvAcquire(e) ==
  /\ run[e] = "prepare"
  /\ e \in OnWorker => envLease \/ HeldAtRoot < RootLimit
  /\ envLease' = (envLease \/ e \in OnWorker)
  /\ run' = [run EXCEPT ![e] = "leased"]
  /\ UNCHANGED <<envHold, est, eproc, known, port, reserved, files, swept, startup, upset>>

\* The listener closes and the application starts; its pid is written after that.
EnvSpawn(e) ==
  /\ run[e] = "leased" /\ e \notin Composed
  /\ run' = [run EXCEPT ![e] = "spawned"] /\ eproc' = [eproc EXCEPT ![e] = "ours"]
  /\ UNCHANGED <<envHold, est, known, port, reserved, files, swept, envLease, startup, upset>>
RecordProcess(e) ==
  /\ run[e] = "spawned" /\ run' = [run EXCEPT ![e] = "app"]
  /\ known' = [known EXCEPT ![e] = TRUE] /\ est' = [est EXCEPT ![e] = "starting"]
  /\ UNCHANGED <<envHold, eproc, port, reserved, files, swept, envLease, startup, upset>>
\* A compose project is known by its private file before any container starts.
ComposeUp(e) ==
  /\ run[e] = "leased" /\ e \in Composed
  /\ run' = [run EXCEPT ![e] = "app"] /\ eproc' = [eproc EXCEPT ![e] = "ours"]
  /\ known' = [known EXCEPT ![e] = TRUE]
  /\ UNCHANGED <<envHold, est, port, reserved, files, swept, envLease, startup, upset>>
EnvTest(e) ==
  /\ run[e] = "app" /\ est[e] \in {"preparing", "starting"} /\ est' = [est EXCEPT ![e] = "testing"]
  /\ UNCHANGED <<envHold, run, eproc, known, port, reserved, files, swept, envLease, startup, upset>>

\* Disk pressure stops the processes of the attempt and writes a storage.pause receipt,
\* which the release deletes, and the guard's drop too as far as the disk lets it.
HoldApp(e) ==
  /\ run[e] \in {"spawned", "app"} /\ e \notin envHold /\ envHold' = envHold \cup {e}
  /\ UNCHANGED <<est, run, eproc, known, port, reserved, files, swept, envLease, startup, upset>>
ReleaseApp(e) ==
  /\ run[e] \in {"spawned", "app"} /\ e \in envHold /\ envHold' = envHold \ {e}
  /\ UNCHANGED <<est, run, eproc, known, port, reserved, files, swept, envLease, startup, upset>>
DropReceipt(e) == envHold' \in {envHold, envHold \ {e}}

\* Whatever the outcome: cleanup_pending, then the group is killed and waited for.
EnvFinish(e) ==
  /\ run[e] \in {"prepare", "leased", "app"}
  /\ est' = [est EXCEPT ![e] = "cleanup_pending"] /\ run' = [run EXCEPT ![e] = "stopping"]
  /\ UNCHANGED <<envHold, eproc, known, port, reserved, files, swept, envLease, startup, upset>>
EnvStop(e) ==
  /\ run[e] = "stopping"
  /\ \/ eproc' = [eproc EXCEPT ![e] = "none"]
        /\ est' = [est EXCEPT ![e] = "removed"] /\ run' = [run EXCEPT ![e] = "release"]
        /\ UNCHANGED reserved
     \/ e \in Composed /\ known[e] /\ run' = [run EXCEPT ![e] = "gone"] /\ reserved' = reserved \ {port[e]}
        /\ UNCHANGED <<est, eproc>>   \* docker compose down failed
  /\ DropReceipt(e)
  /\ UNCHANGED <<known, port, files, swept, envLease, startup, upset>>
\* environment_lease(release) deletes the task's lease; then the files go. If the call
\* fails the row becomes cleanup_pending again (Drop of Owned).
EnvRelease(e) ==
  /\ run[e] = "release" /\ run' = [run EXCEPT ![e] = "gone"] /\ reserved' = reserved \ {port[e]}
  /\ \/ /\ envLease' = (envLease /\ e \notin OnWorker)
        /\ files' = CleanupEnvManifest(e) /\ UNCHANGED <<est, upset>>
     \/ /\ e \in OnWorker /\ Upset /\ envLease' \in {envLease, FALSE}
        /\ est' = [est EXCEPT ![e] = "cleanup_pending"]
        /\ UNCHANGED files
  /\ UNCHANGED <<envHold, eproc, known, port, swept, startup>>

\* The future is dropped (cancellation, an error on the way): the process it knows of is
\* killed and the row is left for the maintenance loop.
EnvAbortSurviving(e) ==
  /\ run[e] # "gone" /\ (run[e] = "release" => e \in OnWorker)
  /\ run' = [run EXCEPT ![e] = "gone"] /\ reserved' = reserved \ {port[e]}
  /\ est' = [est EXCEPT ![e] = "removed"]
  /\ DropReceipt(e)
  /\ UNCHANGED <<eproc, known, port, files, swept, envLease, startup, upset>>
EnvAbort(e) ==
  /\ run[e] # "gone" /\ (run[e] = "release" => e \in OnWorker)
  /\ run' = [run EXCEPT ![e] = "gone"] /\ reserved' = reserved \ {port[e]}
  /\ eproc' = [eproc EXCEPT ![e] = IF e \in Composed THEN @ ELSE "none"]
  /\ est' = [est EXCEPT ![e] = "cleanup_pending"]
  /\ DropReceipt(e)
  /\ UNCHANGED <<known, port, files, swept, envLease, startup, upset>>
-----------------------------------------------------------------------------
(* Crash, and what the machine does on its own.                            *)

EnvCrash ==
  /\ Upset /\ startup = {}
  /\ run' = [e \in Envs |-> "gone"] /\ reserved' = {} /\ swept' = [e \in Envs |-> FALSE]
  /\ startup' = {e \in Envs : EnvLive(e)}
  /\ UNCHANGED <<envHold, est, eproc, known, port, files, envLease>>
LeaderExits(e) ==
  /\ e \notin Composed /\ eproc[e] = "ours" /\ eproc' = [eproc EXCEPT ![e] = "orphans"]
  /\ UNCHANGED <<envHold, est, run, known, port, reserved, files, swept, envLease, startup, upset>>
\* A machine restart ended the application and its pid went to another process.
PidReused(e) ==
  /\ Upset /\ run[e] = "gone" /\ known[e] /\ e \notin Composed /\ eproc[e] \in {"ours", "orphans"}
  /\ startup # {}
  /\ eproc' = [eproc EXCEPT ![e] = "foreign"]
  /\ UNCHANGED <<envHold, est, run, known, port, reserved, files, swept, envLease, startup>>
\* It ends; what it started may keep its group.
ForeignExits(e) ==
  /\ eproc[e] = "foreign" /\ \E left \in {"none", "strays"} : eproc' = [eproc EXCEPT ![e] = left]
  /\ UNCHANGED <<envHold, est, run, known, port, reserved, files, swept, envLease, startup, upset>>
\* The operator cancels the task of a row that a receipt holds: the receipt counts no more.
OperatorCancels(e) ==
  /\ run[e] = "gone" /\ e \in envHold /\ envHold' = envHold \ {e}
  /\ UNCHANGED <<est, run, eproc, known, port, reserved, files, swept, envLease, startup, upset>>
-----------------------------------------------------------------------------
(* reconcile (at startup, every live row) and cleanup_pending (after that, *)
(* rows left behind whose attempt is over).                                *)

Selected(e) == e \in startup
               \/ (est[e] \in {"cleanup_pending", "held"} /\ run[e] = "gone" /\ startup = {})
\* "A crashed storage hold is deliberately left for operator recovery": a row whose attempt
\* a receipt names is passed over as it is.
Due(e) == Selected(e) /\ e \notin envHold
PassOver(e) ==
  /\ e \in startup \cap envHold /\ ~swept[e] /\ startup' = startup \ {e}
  /\ UNCHANGED <<est, run, eproc, known, port, reserved, files, swept, envLease, envHold, upset>>
\* The recorded group is killed if the identity matches, and, whoever is in it, when no
\* process has the pid; a stranger with the pid holds the environment.
SameProcess(e) == eproc[e] = "ours"      \* pid, start time, group and boot are as recorded
LeaderDead(e)  == eproc[e] \in {"orphans", "strays"}
SweepTarget(e) == IF known[e] /\ (SameProcess(e) \/ LeaderDead(e)) THEN "none" ELSE eproc[e]
Sweep(e) ==
  /\ Due(e) /\ ~swept[e]
  /\ eproc' = [eproc EXCEPT ![e] = SweepTarget(e)]
  /\ IF known[e] /\ eproc'[e] = "foreign"
     THEN /\ est' = [est EXCEPT ![e] = "held"] /\ startup' = startup \ {e}
          /\ UNCHANGED swept
     ELSE swept' = [swept EXCEPT ![e] = TRUE] /\ UNCHANGED <<est, startup>>
  /\ UNCHANGED <<envHold, run, known, port, reserved, files, envLease, upset>>
\* docker compose down fails: the row is passed over as it is.
SweepFails(e) ==
  /\ Due(e) /\ ~swept[e] /\ e \in Composed /\ known[e] /\ Upset
  /\ startup' = startup \ {e}
  /\ UNCHANGED <<envHold, est, run, eproc, known, port, reserved, files, swept, envLease>>
\* The lease is returned, the env file and the scratch directory go, the row is removed.
\* A failed call leaves the row for the next round.
SweepRelease(e) ==
  /\ swept[e] /\ swept' = [swept EXCEPT ![e] = FALSE] /\ startup' = startup \ {e}
  /\ \/ /\ envLease' = (envLease /\ e \notin OnWorker)
        /\ files' = CleanupEnvManifest(e) /\ est' = [est EXCEPT ![e] = "removed"]
        /\ UNCHANGED upset
     \/ /\ e \in OnWorker /\ Upset /\ envLease' \in {envLease, FALSE}
        /\ est' = [est EXCEPT ![e] = "cleanup_pending"] /\ UNCHANGED files
  /\ UNCHANGED <<envHold, run, eproc, known, port, reserved>>
-----------------------------------------------------------------------------
EnvStep(e) ==
  \/ EnvStart(e) \/ EnvAcquire(e) \/ EnvSpawn(e) \/ RecordProcess(e) \/ ComposeUp(e) \/ EnvTest(e)
  \/ EnvFinish(e) \/ EnvStop(e) \/ EnvRelease(e) \/ EnvAbort(e)
  \/ HoldApp(e) \/ ReleaseApp(e) \/ OperatorCancels(e)
  \/ LeaderExits(e) \/ PidReused(e) \/ ForeignExits(e)
  \/ PassOver(e) \/ Sweep(e) \/ SweepFails(e) \/ SweepRelease(e)
EnvNext == EnvCrash \/ \E e \in Envs : EnvStep(e)
EnvSpec == EnvInit /\ [][EnvNext]_envVars
-----------------------------------------------------------------------------
EnvTypeOK ==
  /\ est \in [Envs -> {"none", "preparing", "starting", "testing", "cleanup_pending",
                       "held", "removed"}]
  /\ run \in [Envs -> {"gone", "prepare", "leased", "spawned", "app", "stopping", "release"}]
  /\ eproc \in [Envs -> {"none", "ours", "orphans", "foreign", "strays"}]
  /\ port \in [Envs -> Ports \cup {NoPort}] /\ reserved \subseteq Ports
  /\ HeldAtRoot <= RootLimit

\* Two applications never get one port: not while one of them has closed its listener and
\* has not bound yet, and not when one outlived the daemon that started it.
PortsApart ==
  \A e, f \in Envs :
    (e # f /\ port[e] = port[f] /\ port[e] # NoPort)
      => \/ ~(run[e] # "gone" \/ eproc[e] \in {"ours", "orphans"})
         \/ ~(run[f] # "gone" \/ eproc[f] \in {"ours", "orphans"})

\* An environment whose process was recorded is removed only when its group is dead, on
\* every path: normal end, abort, crash and restart.
RemovedMeansStopped ==
  \A e \in Envs : (est[e] = "removed" /\ known[e]) => eproc[e] \notin {"ours", "orphans"}

\* What is left for cleanup is cleaned, unless a stranger has the pid or a storage receipt
\* names the attempt; and cleaned all the same once the stranger or the receipt is gone.
PendingIsCleaned ==
  \A e \in Envs : est[e] = "cleanup_pending" ~> est[e] \in {"removed", "held"} \/ e \in envHold

\* The invariants together: what every request, crash and retry above must preserve.
EnvInv ==
  /\ EnvTypeOK
  /\ PortsApart
  /\ RemovedMeansStopped
=============================================================================
