------------------------------- MODULE Budget -------------------------------
(***************************************************************************)
(* The progress budget of one attempt (budget.rs) and the disk-pressure    *)
(* hold of its processes (storage/control.rs, storage/pressure.rs).        *)
(*                                                                         *)
(* The supervisor polls the work, renews the deadline from the recorded    *)
(* progress events and rules on exhaustion only after a workspace sample   *)
(* of its own; a background observer samples on its schedule. Meanwhile a  *)
(* ticker holds and releases the attempt: it stops and continues every     *)
(* registered process group, writing a pauseRow for each, on a disk that    *)
(* may be full. Idle times are counted in units of the budget and saturate *)
(* at it; the supervisor looks several times per unit.                     *)
(***************************************************************************)
EXTENDS Integers, FiniteSets, FiniteSetsExt

CONSTANTS
  Procs,    \* process groups the attempt may own
  Budget    \* step_budget_seconds, in units

ASSUME BudgetAssumption == Budget \in Nat \ {0}

VARIABLES
  bstate,    \* the supervisor: running, sampling, ending, done, exhausted
  idle,      \* active_now - last_progress
  ridle,     \* idle_s of status(): wall time since the last step.progress event,
             \* without the recorded pauses
  unrenewed,     \* a step.progress event is newer than last_ms
  dirty,     \* the workspace differs from the previous sample
  sample,    \* who holds the sample lock: "none", "poll" or "rule", and what it read
  during,    \* the workspace changed after the running sample read it
  held,      \* Control.state.paused
  critical,  \* the monitor's state is paused, or it is gone
  reported,  \* reported_pause: storage.paused is the last event
  full,      \* the disk takes no write
  grp,       \* the process group: none, spawned, running, stopped, gone
  stopflag,  \* Process.paused
  synced,    \* Process.receipt_synced
  pauseRow,   \* the storage.pause row
  whole,     \* the last set_paused(true) succeeded and none was made since
  quiet      \* history: active time since the last change or report

budgetVars == <<bstate, idle, ridle, unrenewed, dirty, sample, during, held, critical,
                reported, full, grp, stopflag, synced, pauseRow, whole, quiet>>
clockVars == <<idle, ridle, unrenewed, dirty, during, quiet>>
holdVars  == <<held, reported, grp, stopflag, synced, pauseRow, whole>>

NoSample == [by |-> "none", saw |-> FALSE]
Live == bstate \in {"running", "sampling", "ending"}
Registered(p) == grp[p] \in {"running", "stopped"}

BudgetInit ==
  /\ bstate = "running" /\ idle = 0 /\ ridle = 0 /\ unrenewed = FALSE
  /\ dirty = FALSE /\ sample = NoSample /\ during = FALSE
  /\ held = FALSE /\ critical = FALSE /\ reported = FALSE /\ full = FALSE
  /\ grp = [p \in Procs |-> "none"] /\ stopflag = [p \in Procs |-> FALSE]
  /\ synced = [p \in Procs |-> TRUE] /\ pauseRow = [p \in Procs |-> FALSE]
  /\ whole = FALSE /\ quiet = 0
-----------------------------------------------------------------------------
(* Time, the workspace and the reports.                                    *)

Later(n) == Min({n + 1, Budget})
\* active_now stands still while the attempt is held, the recorded time only while the
\* pause has been recorded.
ActiveUnit == IF held THEN 0 ELSE 1
BudgetUnit ==
  /\ Live /\ ~unrenewed
  /\ idle' = Min({idle + ActiveUnit, Budget}) /\ quiet' = Min({quiet + (IF held THEN 0 ELSE 1), Budget})
  /\ ridle' = IF reported THEN ridle ELSE Later(ridle)
  /\ UNCHANGED <<bstate, unrenewed, dirty, sample, during, critical, full, holdVars>>

\* A process of the attempt writes; a stopped one does not.
Write ==
  /\ Live /\ \E p \in Procs : grp[p] \in {"spawned", "running"}
  /\ dirty' = TRUE /\ during' = (sample # NoSample) /\ quiet' = 0
  /\ UNCHANGED <<bstate, idle, ridle, unrenewed, sample, critical, full, holdVars>>

\* record: a step.progress event; nothing is written on a full disk.
RecordProgress == ~full /\ unrenewed' = TRUE /\ ridle' = 0
\* progress: a report of the worker, refused once the recorded budget has run out.
ReportGate == ridle < Budget
Report ==
  /\ Live /\ ~held /\ ReportGate /\ RecordProgress
  /\ quiet' = 0
  /\ UNCHANGED <<bstate, idle, dirty, sample, during, critical, full, holdVars>>

\* observe takes the lock and reads the workspace ...
Read(by) == sample = NoSample /\ sample' = [by |-> by, saw |-> dirty] /\ during' = FALSE
\* ... and records the change it saw, whatever is left of the budget. A scan that fails (git
\* takes too long, a file vanishes) and an event that is not written leave the previous
\* fingerprint, and nobody asks why.
Observed ==
  \/ sample.saw /\ ~full /\ RecordProgress /\ dirty' = during
  \/ UNCHANGED <<dirty, unrenewed, ridle>>
PollRead ==
  /\ Live /\ ~held /\ Read("poll")
  /\ UNCHANGED <<bstate, idle, ridle, unrenewed, dirty, critical, full, quiet, holdVars>>
PollRecord ==
  /\ Live /\ ~held /\ sample.by = "poll" /\ Observed /\ sample' = NoSample
  /\ UNCHANGED <<bstate, idle, during, critical, full, quiet, holdVars>>
-----------------------------------------------------------------------------
(* supervise.                                                              *)

\* renew: the newest event moves last_progress to now minus the recorded idle time.
RenewNow == idle' = ridle /\ unrenewed' = FALSE
Renew ==
  /\ Live /\ unrenewed /\ RenewNow
  /\ UNCHANGED <<bstate, ridle, dirty, sample, during, critical, full, quiet, holdVars>>

DeadlineHeld ==
  /\ bstate = "running" /\ held /\ ~unrenewed /\ idle = Budget
  /\ bstate' = "sampling"
  /\ UNCHANGED <<clockVars, sample, critical, full, holdVars>>
\* The timer fires: nothing newer is recorded, so a sample is asked for.
DeadlineDue ==
  /\ bstate = "running" /\ ~held /\ ~unrenewed /\ idle = Budget
  /\ bstate' = "sampling"
  /\ UNCHANGED <<clockVars, sample, critical, full, holdVars>>
RuleRead ==
  /\ bstate \in {"sampling", "ending"} /\ Read("rule")
  /\ UNCHANGED <<bstate, idle, ridle, unrenewed, dirty, critical, full, quiet, holdVars>>
\* The sample is in, or has failed: renew, then rule. A held attempt is not ruled on.
Exhausts(seen, stands) ==
  /\ stands => bstate' = "exhausted"
  /\ ~stands => bstate' = IF bstate = "ending" THEN "done" ELSE "running"
  /\ idle' = CASE seen -> 0 [] unrenewed -> ridle [] OTHER -> idle
  /\ ridle' = (IF seen THEN 0 ELSE ridle) /\ unrenewed' = FALSE
  /\ dirty' = IF seen THEN during ELSE dirty
\* When the work has ended its time does not run on: the pause no longer matters.
Rule ==
  /\ sample.by = "rule" /\ sample' = NoSample
  /\ \E seen \in {sample.saw /\ ~full, FALSE} :
       Exhausts(seen, /\ ~seen /\ (IF unrenewed THEN ridle ELSE idle) = Budget
                      /\ bstate = "ending" \/ ~held)
  /\ UNCHANGED <<during, critical, full, quiet, holdVars>>
\* The work returns: its groups are dropped. Below the budget it is done at once.
WorkEnds ==
  /\ bstate \in {"running", "sampling"} /\ ~unrenewed /\ \A p \in Procs : grp[p] \in {"none", "gone"}
  /\ bstate' = IF idle < Budget THEN "done" ELSE "ending"
  /\ UNCHANGED <<clockVars, sample, critical, full, holdVars>>
-----------------------------------------------------------------------------
(* Control: process groups under a hold.                                   *)

\* The monitor's verdict and the state of the disk.
Pressure ==
  /\ Live /\ critical' \in BOOLEAN /\ full' \in BOOLEAN /\ (full' => critical')
  /\ <<critical', full'>> # <<critical, full>>
  /\ UNCHANGED <<bstate, clockVars, sample, holdVars>>

\* Launches wait at the checkpoint; the child may write before it is registered.
Spawn(p) ==
  /\ bstate \in {"running", "sampling"} /\ ~held /\ grp[p] = "none"
  /\ grp' = [grp EXCEPT ![p] = "spawned"]
  /\ UNCHANGED <<bstate, clockVars, sample, critical, full, held, reported, stopflag, synced, pauseRow, whole>>

\* register_process: under a hold the group is stopped before anyone knows it; one that
\* cannot be verified is refused, and its group killed.
RegisterRunning(p) ==
  /\ grp[p] = "spawned"
  /\ grp' = [grp EXCEPT ![p] = "running"]
  /\ stopflag' = [stopflag EXCEPT ![p] = FALSE] /\ synced' = [synced EXCEPT ![p] = TRUE]
  /\ UNCHANGED pauseRow
  /\ UNCHANGED <<bstate, clockVars, sample, critical, full, held, reported, whole>>
RegisterHeld(p) ==
  \E verified \in BOOLEAN :
    /\ grp' = [grp EXCEPT ![p] = IF verified THEN "stopped" ELSE "gone"]
    /\ stopflag' = [stopflag EXCEPT ![p] = verified]
    /\ synced' = [synced EXCEPT ![p] = verified => ~full]
    /\ pauseRow' = [pauseRow EXCEPT ![p] = @ \/ (verified /\ ~full)]
Register(p) ==
  /\ grp[p] = "spawned"
  /\ IF held THEN RegisterHeld(p)
     ELSE /\ grp' = [grp EXCEPT ![p] = "running"]
          /\ stopflag' = [stopflag EXCEPT ![p] = FALSE] /\ synced' = [synced EXCEPT ![p] = TRUE]
          /\ UNCHANGED pauseRow
  /\ UNCHANGED <<bstate, clockVars, sample, critical, full, held, reported, whole>>

\* The guard is dropped: the group is killed and a pauseRow it may have is cleared, as
\* far as the disk lets it.
Drop(p) ==
  /\ grp[p] \notin {"none", "gone"}
  /\ grp' = [grp EXCEPT ![p] = "gone"]
  /\ pauseRow' = [pauseRow EXCEPT ![p] = @ /\ (full \/ ~(stopflag[p] \/ ~synced[p]))]
  /\ stopflag' = [stopflag EXCEPT ![p] = FALSE] /\ synced' = [synced EXCEPT ![p] = TRUE]
  /\ UNCHANGED <<bstate, clockVars, sample, critical, full, held, reported, whole>>

\* command_output_guarded: the command ends by itself, or it is killed because the step
\* was cancelled or the shared deadline is over.
CommandEnds(p) == Drop(p)

\* apply on the groups of the last state or pauseRow that is not settled: `ok` are those
\* that verify and take the signal; a pause writes its pauseRow before the signal.
HoldDue(paused) == {p \in Procs : Registered(p) /\ (stopflag[p] # paused \/ ~synced[p])}
ApplySynced(p, paused, ok, due) ==
  IF p \in due /\ (p \in ok \/ paused) THEN p \in ok /\ ~full ELSE synced[p]
Apply(paused, ok, due) ==
  /\ grp' = [p \in Procs |-> IF p \in due \cap ok THEN IF paused THEN "stopped" ELSE "running"
                             ELSE grp[p]]
  /\ stopflag' = [p \in Procs |-> IF p \in due \cap ok THEN paused ELSE stopflag[p]]
  /\ pauseRow' = [p \in Procs |-> IF p \in due /\ ~full
                                 THEN IF paused THEN TRUE ELSE pauseRow[p] /\ p \notin ok
                                 ELSE pauseRow[p]]
  /\ synced' = [p \in Procs |-> ApplySynced(p, paused, ok, due)]

\* set_paused by the ticker, and the event once it succeeded. A release that fails
\* leaves the attempt held.
Released(done) == ~done
SetPaused ==
  LET paused == critical
      due == HoldDue(paused)
  IN \E ok \in SUBSET due :
       LET done == ok = due /\ (due # {} => ~full)
       IN /\ Live /\ (critical \/ held)
          /\ due # {} \/ held # paused \/ reported # paused
          /\ Apply(paused, ok, due)
          /\ held' = IF paused THEN TRUE ELSE Released(done)
          /\ whole' = (paused /\ done)
          /\ reported' = IF done /\ ~full THEN paused ELSE reported
  /\ UNCHANGED <<bstate, clockVars, sample, critical, full>>
\* The release was complete but its event was not written: the next tick tries again.
ReportRelease ==
  /\ Live /\ ~critical /\ ~held /\ reported /\ ~full
  /\ reported' = FALSE
  /\ UNCHANGED <<bstate, clockVars, sample, critical, full, held, grp, stopflag, synced, pauseRow, whole>>

BudgetNext ==
  \/ BudgetUnit \/ Write \/ Report \/ PollRead \/ PollRecord
  \/ Renew \/ DeadlineDue \/ RuleRead \/ Rule \/ WorkEnds
  \/ Pressure \/ SetPaused \/ ReportRelease
  \/ \E p \in Procs : Spawn(p) \/ Register(p) \/ CommandEnds(p)

BudgetSpec == BudgetInit /\ [][BudgetNext]_budgetVars
-----------------------------------------------------------------------------
\* The state of the supervisor and of the hold is well formed; a group that is not
\* registered carries no hold.
BudgetTypeOK ==
  /\ bstate \in {"running", "sampling", "ending", "done", "exhausted"}
  /\ idle \in 0..Budget /\ ridle \in 0..Budget /\ quiet \in 0..Budget
  /\ sample.by \in {"none", "poll", "rule"}
  /\ grp \in [Procs -> {"none", "spawned", "running", "stopped", "gone"}]
  /\ \A p \in Procs : stopflag[p] <=> grp[p] = "stopped"

\* "Exhaustion is a claim that nothing changed for a whole budget" (budget.rs): an
\* attempt is ruled exhausted only if for a whole budget of active time it made no
\* change and had no accepted report, whatever the pauses and however late the samples.
\* A change after the ruling sample read the workspace, one on a full disk, and one that
\* no sample succeeded to read, may be missed: it is then still unrecorded (dirty).
ExhaustedMeansIdle ==
  bstate = "exhausted" => quiet = Budget \/ dirty

\* A hold that set_paused reported as complete leaves no registered group running.
HoldStops == whole => \A p \in Procs : grp[p] # "running"

\* An attempt that is not held has no stopped group left behind: a release that could
\* not continue every group stays a hold.
ReleaseContinues == ~held => \A p \in Procs : grp[p] # "stopped"

\* A pauseRow of a registered group is either that of a hold, or known to be unsettled so
\* that the release or the drop clears it.
ReceiptsSettled ==
  \A p \in Procs : Registered(p) /\ pauseRow[p] => stopflag[p] \/ ~synced[p]

\* An attempt that stays idle is ruled on: it does not sit for ever with its budget used
\* up, neither held nor on a full disk.
IdleIsRuled == []<>(~Live \/ held \/ full \/ quiet < Budget)

\* The invariants together: what every request, crash and retry above must preserve.
BudgetInv ==
  /\ BudgetTypeOK
  /\ ExhaustedMeansIdle
  /\ HoldStops
  /\ ReleaseContinues
  /\ ReceiptsSettled
=============================================================================
