-------------------------------- MODULE Update --------------------------------
(* A worker replaces its own binary (src/src/update.rs) or restarts            *)
(* (management::local_commands) on request: a helper process drains the        *)
(* daemon, records the handoff, switches the launcher link, stops the daemon   *)
(* and watches its replacement; the replacement decides the handoff itself,    *)
(* because the service manager may kill the helper with the old daemon.        *)
EXTENDS Integers, Sequences, FiniteSets

CONSTANTS MaxDeaths,   \* bound: deaths of the daemon
          MaxResumes   \* bound: runtime_resume by the operator

ASSUME UpdateAssumption == MaxDeaths \in Nat /\ MaxResumes \in Nat

VARIABLES linkTo,      \* the release the launcher link "current" points to
          dm,        \* the daemon: [ver, ph], ph one of "none", "boot", "open", "up"
          exited,    \* how the last daemon ended: "failure" is restarted by a supervisor
          draining,  \* runtime_settings.draining
          freed,     \* the operator or a restart lifted the hold since the helper drained
          ticking,   \* the scheduler's tick in progress has found the runtime not draining
          busy,      \* an attempt is running
          stopAsked, \* shutdown.request
          restartReq,\* runtime_settings.restart_requested
          hand,      \* update_handoff.state
          rows,      \* local commands not taken up yet, by rowid
          uop, rop,  \* state of the update and of the restart operation
          helper,    \* where the update helper is
          byOp,      \* the helper was started for the operation uop, not from the command line
          schema,    \* the release that wrote the database's schema
          build,     \* [supervised, good, migrates]: service installed; the new binary comes up; it migrates
          deaths, resumes

updVars == <<linkTo, dm, exited, draining, freed, ticking, busy, stopAsked, restartReq, hand, rows, uop, rop, helper, byOp, schema, build, deaths, resumes>>
hostVars == <<dm, exited, ticking, busy, stopAsked>>       \* the daemon process
NoDaemon == [ver |-> "none", ph |-> "none"]
Settled == {"succeeded", "blocked", "failed"}

UpdInit ==
    /\ linkTo = "old" /\ dm = [ver |-> "old", ph |-> "up"] /\ exited = "clean" /\ draining = FALSE /\ freed = FALSE
    /\ ticking = FALSE /\ busy = FALSE /\ stopAsked = FALSE /\ restartReq = FALSE /\ hand = "none" /\ rows = <<>>
    /\ uop = "none" /\ rop = "none" /\ helper = "none" /\ byOp = FALSE /\ schema = "old" /\ deaths = 0 /\ resumes = 0
    /\ build \in [supervised : BOOLEAN, good : BOOLEAN, migrates : BOOLEAN]

\* management::remote_command: the request is recorded, to be taken up in arrival order
AcceptCommand ==
    /\ dm.ph = "up"
    /\ \/ uop = "none" /\ uop' = "local_pending" /\ rop' = rop /\ rows' = Append(rows, "update")
       \/ rop = "none" /\ rop' = "local_pending" /\ uop' = uop /\ rows' = Append(rows, "restart")
    /\ UNCHANGED <<linkTo, draining, freed, restartReq, hand, helper, byOp, schema, build, deaths, resumes, hostVars>>
\* management::local_commands on a runtime_update row: the helper is spawned
UpdateCommand ==
    /\ dm.ph = "up" /\ rows # <<>> /\ Head(rows) = "update" /\ rows' = Tail(rows)
    /\ \/ helper = "none" /\ uop' = "running" /\ helper' = "verify" /\ byOp' = TRUE
       \/ uop' = "failed" /\ UNCHANGED <<helper, byOp>>
    /\ UNCHANGED <<linkTo, draining, freed, restartReq, hand, rop, schema, build, deaths, resumes, hostVars>>
\* management::local_commands on a runtime_restart row: drain, then stop so that the supervisor starts it again
RestartCommand ==
    /\ dm.ph = "up" /\ rows # <<>> /\ Head(rows) = "restart"
    /\ \/ busy /\ draining' = TRUE /\ rop' = "draining" /\ rows' = rows /\ UNCHANGED <<restartReq, stopAsked, freed>>
       \/ busy /\ draining' = TRUE /\ rop' = "blocked" /\ rows' = Tail(rows) /\ UNCHANGED <<restartReq, stopAsked, freed>>
       \/ /\ ~busy /\ ~build.supervised /\ draining' = TRUE /\ rop' = "failed" /\ rows' = Tail(rows)
          /\ UNCHANGED <<restartReq, stopAsked, freed>>
       \/ /\ ~busy /\ build.supervised /\ rop' = "restarting" /\ rows' = Tail(rows)
          /\ restartReq' = TRUE /\ stopAsked' = TRUE /\ draining' = FALSE /\ freed' = TRUE
    /\ UNCHANGED <<linkTo, dm, exited, ticking, busy, hand, uop, helper, byOp, schema, build, deaths, resumes>>
\* runtime_resume by the operator
OperatorResumes ==
    /\ dm.ph = "up" /\ draining /\ resumes < MaxResumes /\ resumes' = resumes + 1
    /\ draining' = FALSE /\ freed' = TRUE
    /\ UNCHANGED <<linkTo, restartReq, hand, rows, uop, rop, helper, byOp, schema, build, deaths, hostVars>>
\* the daemon's loop: a tick begins unless a stop was asked for; it reads draining once and then awaits
UpdTick ==
    /\ dm.ph = "up" /\ ~ticking /\ ~stopAsked /\ ~draining /\ ticking' = TRUE
    /\ UNCHANGED <<linkTo, dm, exited, draining, freed, busy, stopAsked, restartReq, hand, rows, uop, rop, helper, byOp, schema, build, deaths, resumes>>
\* begin: draining is not read again
UpdWorkStarts ==
    /\ ticking /\ ~busy /\ busy' = TRUE
    /\ UNCHANGED <<linkTo, dm, exited, draining, freed, ticking, stopAsked, restartReq, hand, rows, uop, rop, helper, byOp, schema, build, deaths, resumes>>
UpdTickEnds ==
    /\ ticking /\ ticking' = FALSE
    /\ UNCHANGED <<linkTo, dm, exited, draining, freed, busy, stopAsked, restartReq, hand, rows, uop, rop, helper, byOp, schema, build, deaths, resumes>>
\* an attempt ends
UpdWorkEnds ==
    /\ dm.ph = "up" /\ busy /\ busy' = FALSE
    /\ UNCHANGED <<linkTo, dm, exited, draining, freed, ticking, stopAsked, restartReq, hand, rows, uop, rop, helper, byOp, schema, build, deaths, resumes>>

\* the event loop ends, between two ticks: a requested restart is an exit the supervisor does not accept
DaemonStops ==
    /\ dm.ph = "up" /\ stopAsked /\ ~ticking /\ ticking' = FALSE
    /\ dm' = NoDaemon /\ stopAsked' = FALSE /\ busy' = FALSE
    /\ exited' = IF restartReq THEN "failure" ELSE "clean"
    /\ restartReq' = FALSE
    /\ UNCHANGED <<linkTo, draining, freed, hand, rows, uop, rop, helper, byOp, schema, build, deaths, resumes>>
\* mutant: attempts survive their daemon
DaemonDies ==
    /\ dm.ph # "none" /\ deaths < MaxDeaths /\ deaths' = deaths + 1
    /\ dm' = NoDaemon /\ exited' = "failure" /\ busy' = FALSE /\ ticking' = FALSE
    /\ UNCHANGED <<linkTo, draining, freed, stopAsked, restartReq, hand, rows, uop, rop, helper, byOp, schema, build, resumes>>
\* systemd Restart=on-failure, launchd KeepAlive; otherwise somebody runs `horde start`
LaunchHelper ==
    /\ dm.ph = "none" /\ (build.supervised => exited = "failure")
    /\ dm' = [ver |-> linkTo, ph |-> "boot"]
    /\ UNCHANGED <<linkTo, exited, draining, freed, ticking, busy, stopAsked, restartReq, hand, rows, uop, rop, helper, byOp, schema, build, deaths, resumes>>
\* Store::open: a newer binary migrates the schema, an older one refuses a newer schema
OpenStore ==
    /\ dm.ph = "boot"
    /\ IF dm.ver = "old" /\ schema = "new"
         THEN dm' = NoDaemon /\ exited' = "failure" /\ schema' = schema
         ELSE /\ dm' = [dm EXCEPT !.ph = "open"] /\ exited' = exited
              /\ schema' = IF dm.ver = "new" /\ build.migrates THEN "new" ELSE schema
    /\ UNCHANGED <<linkTo, draining, freed, ticking, busy, stopAsked, restartReq, hand, rows, uop, rop, helper, byOp, build, deaths, resumes>>
\* a release that does not come up ends after it has opened the store
StartupFails ==
    /\ dm.ph = "open" /\ dm.ver = "new" /\ ~build.good /\ dm' = NoDaemon /\ exited' = "failure"
    /\ UNCHANGED <<linkTo, draining, freed, ticking, busy, stopAsked, restartReq, hand, rows, uop, rop, helper, byOp, schema, build, deaths, resumes>>

\* mutant: the version and the executable are not compared
\* complete_handoff compares version and executable with the recorded ones
IdentityMatches == dm.ver = "new"
\* mutant: the hold is lifted whatever was started
HoldAfterNone == FALSE
HoldAfter == ~IdentityMatches
\* mutant: only the setting is written, the helper is left to write the operation
DecidedOpNone == uop
DecidedOp == IF byOp /\ uop = "running" THEN (IF IdentityMatches THEN "succeeded" ELSE "blocked") ELSE uop
\* end of startup: the restart that led here succeeded, and the handoff is decided before any work is scheduled
StartupCompletes ==
    /\ dm.ph = "open" /\ (dm.ver = "new" => build.good)
    /\ dm' = [dm EXCEPT !.ph = "up"] /\ stopAsked' = FALSE
    /\ rop' = IF rop = "restarting" THEN "succeeded" ELSE rop
    /\ IF hand = "pending"
         THEN /\ hand' = (IF IdentityMatches THEN "completed" ELSE "blocked")
              /\ draining' = HoldAfter /\ freed' = (IF HoldAfter THEN FALSE ELSE freed)
              /\ uop' = DecidedOp
         ELSE UNCHANGED <<hand, draining, freed, uop>>
    /\ UNCHANGED <<linkTo, exited, ticking, busy, restartReq, rows, helper, byOp, schema, build, deaths, resumes>>

\* update::run, the helper. main.rs stores the outcome of an operation, unless the helper's old binary cannot open the database any more
HelperEnds(st) ==
    /\ helper' = "ended"
    /\ uop' = IF ~byOp \/ uop \in {"succeeded", "blocked"} \/ schema = "new" THEN uop ELSE st
HelperVerifies ==
    /\ helper = "verify"
    /\ \/ HelperEnds("failed") /\ UNCHANGED <<draining, freed>>          \* download, signature, checksum, --version
       \/ dm.ph = "up" /\ helper' = "drain" /\ draining' = TRUE /\ freed' = FALSE /\ uop' = uop
       \/ dm.ph # "up" /\ helper' = "linkTo" /\ UNCHANGED <<draining, freed, uop>>
    /\ UNCHANGED <<linkTo, restartReq, hand, rows, rop, byOp, schema, build, deaths, resumes, hostVars>>
\* the poll of runtime_status; a drain that times out, or a daemon that went away, ends the helper
HelperDrains ==
    /\ helper = "drain"
    /\ \/ dm.ph = "up" /\ draining /\ ~busy /\ helper' = "backup" /\ uop' = uop
       \/ HelperEnds("failed")
    /\ UNCHANGED <<linkTo, draining, freed, restartReq, hand, rows, rop, byOp, schema, build, deaths, resumes, hostVars>>
\* VACUUM INTO, the release directory takes its name, prepare_handoff
HelperPrepares ==
    /\ helper = "backup" /\ hand' = "pending" /\ helper' = "linkTo"
    /\ UNCHANGED <<linkTo, draining, freed, restartReq, rows, uop, rop, byOp, schema, build, deaths, resumes, hostVars>>
HelperLinks ==
    /\ helper = "linkTo" /\ linkTo' = "new"
    /\ IF hand = "pending" THEN helper' = "stop" /\ uop' = uop ELSE HelperEnds("succeeded")
    /\ UNCHANGED <<draining, freed, restartReq, hand, rows, rop, byOp, schema, build, deaths, resumes, hostVars>>
HelperStops ==
    /\ helper = "stop" /\ restartReq' = TRUE
    /\ IF dm.ph = "up" THEN stopAsked' = TRUE /\ helper' = "gone" /\ uop' = uop ELSE HelperEnds("failed") /\ stopAsked' = stopAsked
    /\ UNCHANGED <<linkTo, dm, exited, ticking, busy, draining, freed, hand, rows, rop, byOp, schema, build, deaths, resumes>>
\* the socket is gone, or 30 s passed; without a supervisor the helper starts the release itself
HelperLaunches ==
    /\ helper = "gone" /\ helper' = "health"
    /\ dm' = IF dm.ph = "none" /\ ~build.supervised THEN [ver |-> "new", ph |-> "boot"] ELSE dm
    /\ UNCHANGED <<linkTo, exited, ticking, busy, stopAsked, draining, freed, restartReq, hand, rows, uop, rop, byOp, schema, build, deaths, resumes>>
HelperSeesHealth ==
    /\ helper = "health"
    /\ \/ dm = [ver |-> "new", ph |-> "up"] /\ hand = "completed" /\ draining' = FALSE /\ HelperEnds("succeeded")
       \/ helper' = "cancel" /\ UNCHANGED <<draining, uop>>               \* 30 s without an answer
    /\ UNCHANGED <<linkTo, freed, restartReq, hand, rows, rop, byOp, schema, build, deaths, resumes, hostVars>>
\* mutant: the helper's timeout does not look whether the replacement finished meanwhile
\* cancel_handoff, serialized with complete_handoff
HelperCancels ==
    /\ helper = "cancel"
    /\ IF hand = "completed" THEN HelperEnds("succeeded") /\ hand' = hand
                             ELSE hand' = "blocked" /\ helper' = "schema" /\ uop' = uop
    /\ UNCHANGED <<linkTo, draining, freed, restartReq, rows, rop, byOp, schema, build, deaths, resumes, hostVars>>
\* PRAGMA user_version: a migrated database forbids the rollback
HelperReadsSchema ==
    /\ helper = "schema"
    /\ IF schema = "new" THEN HelperEnds("failed") ELSE helper' = "rollback" /\ uop' = uop
    /\ UNCHANGED <<linkTo, draining, freed, restartReq, hand, rows, rop, byOp, schema, build, deaths, resumes, hostVars>>
HelperRollsBack ==
    /\ helper = "rollback" /\ linkTo' = "old" /\ HelperEnds("failed")
    /\ UNCHANGED <<draining, freed, restartReq, hand, rows, rop, byOp, schema, build, deaths, resumes, hostVars>>
\* the service manager kills the helper with the daemon's process group
HelperKilled ==
    /\ helper \notin {"none", "ended"} /\ build.supervised /\ dm.ph = "none" /\ helper' = "ended"
    /\ UNCHANGED <<linkTo, draining, freed, restartReq, hand, rows, uop, rop, byOp, schema, build, deaths, resumes, hostVars>>
\* `horde update` from the command line
CliUpdate ==
    /\ helper = "none" /\ helper' = "verify"
    /\ UNCHANGED <<linkTo, draining, freed, restartReq, hand, rows, uop, rop, byOp, schema, build, deaths, resumes, hostVars>>

UpdHelper == HelperVerifies \/ HelperDrains \/ HelperPrepares \/ HelperLinks \/ HelperStops \/ HelperLaunches
             \/ HelperSeesHealth \/ HelperCancels \/ HelperReadsSchema \/ HelperRollsBack
UpdStartup == OpenStore \/ StartupFails \/ StartupCompletes
UpdNext == AcceptCommand \/ UpdateCommand \/ RestartCommand \/ OperatorResumes \/ UpdTick \/ UpdWorkStarts \/ UpdTickEnds \/ UpdWorkEnds \/ DaemonStops
           \/ DaemonDies \/ LaunchHelper \/ UpdStartup \/ UpdHelper \/ HelperKilled \/ CliUpdate

UpdSpec == UpdInit /\ [][UpdNext]_updVars

-----------------------------------------------------------------------------
\* Every setting holds a value the code writes; a daemon process has a release, and none is busy while it starts.
UpdTypeOK ==
    /\ {linkTo, schema} \subseteq {"old", "new"} /\ hand \in {"none", "pending", "completed", "blocked"}
    /\ dm.ver \in {"none", "old", "new"} /\ (dm.ver = "none" <=> dm.ph = "none") /\ (busy \/ ticking => dm.ph = "up")
    /\ uop \in {"none", "local_pending", "running"} \cup Settled
    /\ rop \in {"none", "local_pending", "draining", "restarting"} \cup Settled

\* From the moment the handoff is recorded until the expected replacement completed it, and after a rollback or a
\* mismatch, the runtime is draining, unless the operator (or a restart) lifted the hold: neither a late start nor a
\* late helper resumes it, and a new release that was not verified runs nothing. (The old daemon may: a tick that read
\* draining before the hold begins its attempt after the drained answer.)
HeldUntilVerified == hand \in {"pending", "blocked"} /\ ~freed => draining /\ (dm.ver = "new" => ~busy /\ ~ticking)

\* A handoff that the replacement completed is never rolled back: the launcher keeps pointing at that release,
\* whatever the helper's timeout decides at the same moment.
CompletedStays == [][hand = "completed" => hand' = "completed" /\ linkTo' = "new"]_updVars

\* An update operation reported as succeeded replaced the binary.
SucceededIsNew == uop = "succeeded" => linkTo = "new"

\* With a supervisor and a release that comes up, a recorded handoff is decided even if the helper was killed with
\* the old daemon, and the operation is settled then unless the helper died after it had cancelled the handoff.
HandoffDecided ==
    (hand = "pending" /\ helper = "ended" /\ dm.ph = "none" /\ exited = "failure" /\ build.supervised /\ build.good)
        ~> ((hand = "completed" /\ uop # "running") \/ hand = "blocked")

\* The invariants together: what every request, crash and retry above must preserve.
UpdInv ==
  /\ UpdTypeOK
  /\ HeldUntilVerified
  /\ SucceededIsNew
=============================================================================
