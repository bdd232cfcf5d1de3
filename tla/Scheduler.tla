----------------------------- MODULE Scheduler -----------------------------
(***************************************************************************)
(* The daemon that dispatches the steps of a task: Scheduler::tick and the *)
(* invocation it spawns (runtime.rs), the durable outcome of an attempt    *)
(* (store.rs finish_ref), and the operator and worker RPCs that commit     *)
(* between the statements of both (protocol.rs, protocol/resume.rs,        *)
(* delegation.rs, accounts.rs).                                            *)
(*                                                                         *)
(* Three kinds of state meet here.                                         *)
(*   - The SQLite tables survive everything.                               *)
(*   - The event loop's memory (Scheduler.running and the futures it       *)
(*     spawned) is lost when the daemon ends.                              *)
(*   - The worker processes survive a hard crash of the daemon.            *)
(*                                                                         *)
(* One thread runs the tick and every spawned future, so those actions     *)
(* interleave only at await points; RPC handlers run on blocking threads   *)
(* with their own connection and interleave with every SQL statement.      *)
(***************************************************************************)
EXTENDS Integers, FiniteSets

CONSTANTS
  Tasks,         \* rows of the tasks table
  Steps,         \* rows of the steps table, those add_steps may append too
  Initial,       \* the steps of the submitted plan
  TaskOf,        \* steps.task
  Needs,         \* spec.needs of a step
  WhenStep,      \* spec.when.step of a step, or None
  WhenStatus,    \* spec.when.status of a step with a condition
  Tries,         \* spec.attempts of a step
  Hops,          \* fallback_hops of a step's role
  Agents,        \* steps of kind "agent": they claim their scope and reserve an account
  Exclusive,     \* exclusive_step: command, delivery, environment, preview review
  Overlap,       \* pairs of steps whose scopes overlap
  Concurrency,   \* settings.concurrency of a task
  HostLimit,     \* host_limit
  AccountLimit,  \* accounts.concurrency of the one account
  AttemptIds,    \* bound: the rows the attempts table may hold
  Ops,           \* bound: the operator requests and failures this instance includes
  None           \* no step, no task

ASSUME StructureAssumption ==
  /\ IsFiniteSet(Steps)
  /\ Initial \subseteq Steps
  /\ TaskOf \in [Steps -> Tasks]
  /\ Needs \in [Steps -> SUBSET Steps]
  /\ \A s \in Steps : \A n \in Needs[s] : TaskOf[n] = TaskOf[s]
  /\ WhenStep \in [Steps -> Steps \cup {None}]
  /\ \A s \in Steps : WhenStep[s] # None => WhenStep[s] \in Needs[s]
  /\ WhenStatus \in [Steps -> {"succeeded", "failed", "skipped"}]
  /\ Agents \subseteq Steps
  /\ Exclusive \subseteq Steps
  /\ Overlap \subseteq Steps \X Steps
  /\ \A s, u \in Steps : <<s, u>> \in Overlap => <<u, s>> \in Overlap
ASSUME BoundAssumption ==
  /\ Tries \in [Steps -> Nat \ {0}]
  /\ Hops \in [Steps -> Nat]
  /\ Concurrency \in Nat \ {0}
  /\ HostLimit \in Nat \ {0}
  /\ AccountLimit \in Nat \ {0}
  /\ IsFiniteSet(AttemptIds)
  /\ AttemptIds \subseteq Nat
ASSUME NoneAssumption == None \notin Steps /\ None \notin Tasks /\ None \notin AttemptIds

VARIABLES
  \* durable: the SQLite tables
  status,     \* tasks.status
  state,      \* steps.state, "absent" before add_steps inserts the row
  owner,      \* attempts.step, None for an unused row
  astate,     \* attempts.state; "capacity" is failed with result.capacity = 1
  worker,     \* workers.status of the managed worker of a step
  claims,     \* the steps whose worker holds its scope in the claims table
  asked,      \* steps whose worker has a question with answer NULL
  answered,   \* steps whose worker has a question_context row 'input_answered'
  resv,       \* account_reservations.state of a step
  grant,      \* the project's row in account_grants
  \* memory of the event loop
  phase,      \* where the spawned run_step of a step is; "none" outside Scheduler.running
  cur,        \* ActiveAttempt.attempt
  outcome,    \* the result a returned invocation is about to record
  fin,        \* a finish_ref between its reads and its transaction
  \* the tick
  pc, left, task, snap, todo, sel,
  \* RPC threads
  releasing,  \* release_claims calls between their checks and their DELETE
  \* operating system
  daemon,     \* the daemon process
  alive,      \* attempts whose worker process exists
  recorded    \* attempts.pid is set

durable == <<status, state, owner, astate, worker, claims, asked, answered, resv, grant>>
memory  == <<phase, cur, outcome, fin>>
tick    == <<pc, left, task, snap, todo, sel>>
system  == <<daemon, alive, recorded>>
vars    == <<durable, memory, tick, releasing, system>>
-----------------------------------------------------------------------------
TaskStates  == {"running", "blocked", "succeeded", "failed", "cancelled"}
StepStates  == {"absent", "pending", "running", "waiting", "succeeded", "failed",
                "skipped", "cancelled", "uncertain"}
LiveStates  == {"running", "uncertain"}
AttemptStates == LiveStates \cup {"unused", "succeeded", "failed", "capacity",
                                  "cancelled", "waiting", "interrupted"}
WorkerStates == {"none", "idle", "working", "blocked", "stopped", "failed", "unresponsive"}
Outcomes    == {"ok", "error", "capacity", "loop"}
\* An unfinished JoinHandle, one told to abort, and one the next tick reaps.
Unfinished  == {"spawned", "claimed", "launched", "executing", "returned"}
Phases      == Unfinished \cup {"none", "aborting", "aborted", "done"}
Terminal    == {"succeeded", "failed", "skipped", "cancelled"}

StepsOf(t)    == {s \in Steps : TaskOf[s] = t}
AttemptsOf(s) == {a \in AttemptIds : owner[a] = s}
Live(s)       == {a \in AttemptsOf(s) : astate[a] \in LiveStates}
RunningOnly   == {a \in AttemptIds : astate[a] = "running"}
HostActive    == {a \in AttemptIds : astate[a] \in LiveStates}
Active(t)     == {s \in StepsOf(t) : phase[s] # "none"}
ActiveOnly    == {s \in Steps : resv[s] = "active"}
Reserved      == {s \in Steps : resv[s] \in {"active", "revoked"}}
Fresh         == {a \in AttemptIds : /\ astate[a] = "unused"
                                     /\ \A b \in AttemptIds : b < a => astate[b] # "unused"}
NoSnap        == [s \in Steps |-> "absent"]
NoFin         == [step |-> None, outcome |-> "error"]
Snapshot(t)   == [s \in Steps |-> IF TaskOf[s] = t THEN state[s] ELSE "absent"]

\* The event-loop thread is free to poll a spawned future: the daemon's select
\* loop is waiting, or the tick awaits acquire_remote or prepare_review.
Yielded == daemon \in {"up", "stopping"} /\ fin = NoFin /\ pc \in {"idle", "begin"}
Serving == daemon \in {"up", "stopping"}
-----------------------------------------------------------------------------
Init ==
  /\ status = [t \in Tasks |-> "running"]
  /\ state = [s \in Steps |-> IF s \in Initial THEN "pending" ELSE "absent"]
  /\ owner = [a \in AttemptIds |-> None]
  /\ astate = [a \in AttemptIds |-> "unused"]
  /\ worker = [s \in Steps |-> "none"]
  /\ claims = {}
  /\ asked = {}
  /\ answered = {}
  /\ resv = [s \in Steps |-> "none"]
  /\ grant = "held"
  /\ phase = [s \in Steps |-> "none"]
  /\ cur = [s \in Steps |-> None]
  /\ outcome = [s \in Steps |-> "error"]
  /\ fin = NoFin
  /\ pc = "idle" /\ left = {} /\ task = None /\ snap = NoSnap /\ todo = {} /\ sel = None
  /\ releasing = {}
  /\ daemon = "up" /\ alive = {} /\ recorded = {}
-----------------------------------------------------------------------------
(* finish_ref: has_question is read before the transaction opens.          *)

FinishRead(s) ==
  /\ Yielded
  /\ phase[s] = "returned"
  /\ fin' = [step |-> s, outcome |-> IF s \in asked THEN "waiting" ELSE outcome[s]]
  /\ UNCHANGED <<durable, phase, cur, outcome, tick, releasing, system>>

\* The step state the transaction writes first, from the row as it is now.
FinishedStateStale(s) ==
  CASE fin.outcome = "waiting" -> "waiting"
    [] fin.outcome = "ok" -> "succeeded"
    [] OTHER -> "failed"
FinishedState(s) ==
  CASE state[s] = "cancelled" -> "cancelled"
    [] state[s] # "cancelled" /\ fin.outcome = "waiting" -> "waiting"
    [] state[s] # "cancelled" /\ fin.outcome = "ok" -> "succeeded"
    [] OTHER -> "failed"

\* An attempt that failed for account capacity records it in its result.
FinishedAttemptCopied(s) == IF s \in answered THEN "pending" ELSE FinishedState(s)
FinishedAttemptSkipped(s) == IF state[s] = "cancelled" THEN astate[cur[s]] ELSE FinishedState(s)
FinishedAttempt(s) ==
  IF FinishedState(s) = "failed" /\ fin.outcome = "capacity" THEN "capacity"
  ELSE FinishedState(s)

\* An answer that arrived during the attempt puts an unsuccessful step back.
RequeuedUnlessWaiting(s) == s \in answered /\ FinishedState(s) = "failed"
Requeued(s) == s \in answered /\ FinishedState(s) \in {"waiting", "failed"}

FinishCommit ==
  /\ fin.step # None
  /\ LET s == fin.step
         success == fin.outcome = "ok"
         new == FinishedState(s)
     IN /\ state' = [state EXCEPT ![s] = IF Requeued(s) THEN "pending" ELSE new]
        /\ astate' = [astate EXCEPT ![cur[s]] = FinishedAttempt(s)]
        /\ worker' = [worker EXCEPT ![s] = IF success THEN "idle" ELSE "failed"]
        /\ answered' = answered \ {s}
        /\ status' = [status EXCEPT ![TaskOf[s]] =
                        IF fin.outcome = "loop" /\ new = "failed" /\ @ = "running"
                        THEN "blocked" ELSE @]
        /\ claims' = IF success THEN claims \ {s} ELSE claims
        /\ phase' = [phase EXCEPT ![s] = IF daemon = "stopping" THEN "none" ELSE "done"]
        /\ cur' = IF daemon = "stopping" THEN [cur EXCEPT ![s] = None] ELSE cur
        /\ outcome' = [outcome EXCEPT ![s] = "error"]
  /\ fin' = NoFin
  /\ UNCHANGED <<owner, asked, resv, grant, tick, releasing, system>>
-----------------------------------------------------------------------------
(* The invocation: run_step and execute_step.                              *)

ClaimFreeExact(s) == \A u \in claims : u # s \/ TaskOf[u] = TaskOf[s]
ClaimFree(s) == \A u \in claims : u = s \/ TaskOf[u] # TaskOf[s] \/ <<s, u>> \notin Overlap

\* The workspace is ready; a coding step takes its claim before it executes.
Claim(s) ==
  /\ Yielded
  /\ phase[s] = "spawned"
  /\ s \in Agents => ClaimFree(s)
  /\ claims' = IF s \in Agents THEN claims \cup {s} ELSE claims
  /\ phase' = [phase EXCEPT ![s] = "claimed"]
  /\ UNCHANGED <<status, state, owner, astate, worker, asked, answered, resv, grant,
                 cur, outcome, fin, tick, releasing, system>>

\* Store::claim finds an overlapping row, or preparation fails, before a process starts.
PrepareFails(s) ==
  /\ Yielded
  /\ phase[s] \in {"spawned", "claimed"}
  /\ phase' = [phase EXCEPT ![s] = "returned"]
  /\ outcome' = [outcome EXCEPT ![s] = "error"]
  /\ UNCHANGED <<durable, cur, fin, tick, releasing, system>>

\* The process is spawned on a blocking thread, whatever the event loop does.
Launch(s) ==
  /\ Serving
  /\ phase[s] = "claimed"
  /\ phase' = [phase EXCEPT ![s] = "launched"]
  /\ alive' = alive \cup {cur[s]}
  /\ UNCHANGED <<durable, cur, outcome, fin, tick, releasing, daemon, recorded>>

\* Back on the event loop the attempt's pid is written.
RecordPid(s) ==
  /\ Yielded
  /\ phase[s] = "launched"
  /\ phase' = [phase EXCEPT ![s] = "executing"]
  /\ recorded' = recorded \cup {cur[s]}
  /\ UNCHANGED <<durable, cur, outcome, fin, tick, releasing, daemon, alive>>

\* The process ends. An open question of this worker turns success into an error.
Exit(s, o) ==
  /\ Yielded
  /\ phase[s] = "executing"
  /\ phase' = [phase EXCEPT ![s] = "returned"]
  /\ outcome' = [outcome EXCEPT ![s] = IF o = "ok" /\ s \in asked THEN "error" ELSE o]
  /\ alive' = alive \ {cur[s]}
  /\ UNCHANGED <<durable, cur, fin, tick, releasing, daemon, recorded>>

\* The future panics or cannot record its own result; its guards stop the process.
RunStepBreaks(s) ==
  /\ "break" \in Ops
  /\ Yielded
  /\ phase[s] \in Unfinished
  /\ phase' = [phase EXCEPT ![s] = "aborted"]
  /\ alive' = alive \ {cur[s]}
  /\ UNCHANGED <<durable, cur, outcome, fin, tick, releasing, daemon, recorded>>

\* An aborted future is dropped when the event loop next yields; the drop
\* stops the process group.
Dropped(s) ==
  /\ Yielded
  /\ phase[s] = "aborting"
  /\ phase' = [phase EXCEPT ![s] = "aborted"]
  /\ alive' = alive \ {cur[s]}
  /\ UNCHANGED <<durable, cur, outcome, fin, tick, releasing, daemon, recorded>>

\* A process that outlived its daemon ends by itself.
OrphanExit(a) ==
  /\ a \in alive
  /\ \A s \in Steps : cur[s] # a
  /\ alive' = alive \ {a}
  /\ UNCHANGED <<durable, memory, tick, releasing, daemon, recorded>>
-----------------------------------------------------------------------------
(* Scheduler::tick.                                                        *)

TickAt(p) == pc' = p /\ task' = None /\ snap' = NoSnap /\ todo' = {} /\ sel' = None

\* project_runtime::revoked, for the one account the model has.
Revoked(s) == resv[s] = "revoked" \/ (s \in Agents /\ Live(s) # {} /\ grant = "revoked")

\* An invocation the tick must stop.
DoomedRevoked(s) == Revoked(s)
Doomed(s) == status[TaskOf[s]] = "cancelled" \/ Revoked(s)

\* The abort pass over the running map.
TickBegin ==
  /\ daemon = "up" /\ fin = NoFin
  /\ pc = "idle"
  /\ pc' = "reap"
  /\ phase' = [s \in Steps |->
                 IF phase[s] \in Unfinished /\ Doomed(s) THEN "aborting" ELSE phase[s]]
  /\ UNCHANGED <<durable, cur, outcome, fin, left, task, snap, todo, sel, releasing, system>>

\* A finished handle with a failure: the tick itself records the outcome.
ReapRead(s) ==
  /\ daemon = "up" /\ fin = NoFin
  /\ pc = "reap"
  /\ phase[s] = "aborted"
  /\ fin' = [step |-> s, outcome |-> IF s \in asked THEN "waiting" ELSE "error"]
  /\ UNCHANGED <<durable, phase, cur, outcome, tick, releasing, system>>

\* accounts::release_step and running.remove, once the outcome is durable.
Release(s) ==
  /\ daemon = "up" /\ fin = NoFin
  /\ pc = "reap"
  /\ phase[s] = "done"
  /\ Live(s) = {}
  /\ resv' = [resv EXCEPT ![s] = IF @ = "none" THEN @ ELSE "released"]
  /\ phase' = [phase EXCEPT ![s] = "none"]
  /\ cur' = [cur EXCEPT ![s] = None]
  /\ UNCHANGED <<status, state, owner, astate, worker, claims, asked, answered, grant,
                 outcome, fin, tick, releasing, system>>

\* ordered_tasks, after every finished handle was reaped.
TickTasks ==
  /\ daemon = "up" /\ fin = NoFin
  /\ pc = "reap"
  /\ \A s \in Steps : phase[s] \notin {"aborted", "done"}
  /\ left' = {t \in Tasks : status[t] = "running"}
  /\ TickAt("tasks")
  /\ UNCHANGED <<durable, memory, releasing, system>>

\* The tick returns before the task loop: draining, or the preview lane is busy.
TickHeld ==
  /\ "hold" \in Ops
  /\ daemon = "up" /\ fin = NoFin
  /\ pc = "reap"
  /\ \A s \in Steps : phase[s] \notin {"aborted", "done"}
  /\ TickAt("idle")
  /\ UNCHANGED <<durable, memory, left, releasing, system>>

TickEnd ==
  /\ daemon = "up"
  /\ pc = "tasks" /\ left = {}
  /\ TickAt("idle")
  /\ UNCHANGED <<durable, memory, left, releasing, system>>

\* settle, first statement: read the task's steps.
SettleRead(t) ==
  /\ daemon = "up"
  /\ pc = "tasks" /\ t \in left
  /\ pc' = "settle" /\ task' = t /\ snap' = Snapshot(t)
  /\ left' = left \ {t}
  /\ UNCHANGED <<durable, memory, todo, sel, releasing, system>>

CapacityFailures(s) == {a \in AttemptsOf(s) : astate[a] = "capacity"}
Smaller(m, n) == IF m < n THEN m ELSE n

\* Attempts that died on account capacity do not count while a fallback remains.
CountedUncapped(s) == Cardinality(AttemptsOf(s)) - Cardinality(CapacityFailures(s))
Counted(s) == Cardinality(AttemptsOf(s)) - Smaller(Cardinality(CapacityFailures(s)), Hops[s])
Retriable  == {s \in Steps : snap[s] = "failed" /\ Counted(s) < Tries[s]}

\* A failed step is recovered only by a succeeded step conditioned on that failure.
Recovered(s) == \E r \in Steps : /\ snap[r] = "succeeded"
                                 /\ WhenStep[r] = s /\ WhenStatus[r] = "failed"
Verdict == IF \E s \in Steps : snap[s] = "failed" /\ ~Recovered(s)
           THEN "failed" ELSE "succeeded"

\* settle, its updates: they trust the snapshot.
SettleWrite ==
  /\ daemon = "up"
  /\ pc = "settle"
  /\ state' = [s \in Steps |-> IF s \in Retriable THEN "pending" ELSE state[s]]
  /\ status' = [status EXCEPT ![task] =
                  IF /\ Retriable = {}
                     /\ \A s \in Steps : snap[s] \in Terminal \cup {"absent"}
                     /\ @ = "running"
                  THEN Verdict ELSE @]
  /\ pc' = "settled"
  /\ snap' = NoSnap
  /\ UNCHANGED <<owner, astate, worker, claims, asked, answered, resv, grant, memory,
                 left, task, todo, sel, releasing, system>>

\* ready, first statement, for a task that is still running.
ReadyRead ==
  /\ daemon = "up"
  /\ pc = "settled"
  /\ IF status[task] = "running"
     THEN pc' = "ready" /\ snap' = Snapshot(task) /\ UNCHANGED <<task, todo, sel>>
     ELSE TickAt("tasks")
  /\ UNCHANGED <<durable, memory, left, releasing, system>>

ConsideredSucceeded == {s \in Steps : snap[s] = "pending" /\ \A n \in Needs[s] : snap[n] = "succeeded"}
Considered == {s \in Steps : snap[s] = "pending" /\ \A n \in Needs[s] : snap[n] \in Terminal}
ConditionFails(s) == WhenStep[s] # None /\ snap[WhenStep[s]] # WhenStatus[s]
NeedOpen(s)       == \E n \in Needs[s] : snap[n] \notin Terminal
NeedFails(s)      == \E n \in Needs[s] : snap[n] # "succeeded" /\ WhenStep[s] # n
Skipped == {s \in Considered : ConditionFails(s) \/ NeedFails(s)}

\* ready, the rest: skip what cannot run any more and return what can.
ReadyWrite ==
  /\ daemon = "up"
  /\ pc = "ready"
  /\ state' = [s \in Steps |-> IF s \in Skipped THEN "skipped" ELSE state[s]]
  /\ pc' = "dispatch" /\ snap' = NoSnap
  /\ todo' = Considered \ Skipped
  /\ UNCHANGED <<status, owner, astate, worker, claims, asked, answered, resv, grant, memory,
                 left, task, sel, releasing, system>>

Full == \/ Cardinality(Active(task)) >= Concurrency
        \/ Cardinality(HostActive) >= HostLimit
        \/ Fresh = {}

\* The row loop ends: no row is left, or a limit is reached.
DispatchEnd ==
  /\ daemon = "up"
  /\ pc = "dispatch"
  /\ todo = {} \/ Full
  /\ TickAt("tasks")
  /\ UNCHANGED <<durable, memory, left, releasing, system>>

\* choose_for_step finds an authorized account with capacity.
AccountAvailable(s) == s \in Agents => grant = "held" /\ Cardinality(Reserved) < AccountLimit
\* The claim rows of the task that overlap the step's scope.
Owners(s) == {u \in claims : u # s /\ TaskOf[u] = TaskOf[s] /\ <<s, u>> \in Overlap}
\* Nothing runs that could release the owner's claim.
OwnerStuck(u) == /\ Active(task) = {}
                 /\ state[u] # "pending"
                 /\ worker[u] \in {"failed", "unresponsive", "stopped"}
ExclusiveSelected == sel \in Exclusive
ExclusiveActive == \E u \in StepsOf(task) : u \in Exclusive /\ state[u] = "running"

\* One row is passed over in this tick. `find` returns an unspecified overlapping row.
Hold(s) ==
  /\ daemon = "up"
  /\ pc = "dispatch" /\ s \in todo /\ ~Full
  /\ \/ /\ ~AccountAvailable(s)
        /\ UNCHANGED status
     \/ /\ AccountAvailable(s)
        /\ \E u \in Owners(s) :
             status' = IF OwnerStuck(u) THEN [status EXCEPT ![task] = "blocked"] ELSE status
     \/ /\ AccountAvailable(s) /\ Owners(s) = {}
        /\ ExclusiveActive \/ (s \in Exclusive /\ Active(task) # {})
        /\ UNCHANGED status
  /\ todo' = todo \ {s}
  /\ UNCHANGED <<state, owner, astate, worker, claims, asked, answered, resv, grant, memory,
                 pc, left, task, snap, sel, releasing, system>>

\* One row passes every check; begin follows, possibly after an await.
Select(s) ==
  /\ daemon = "up"
  /\ pc = "dispatch" /\ s \in todo /\ ~Full
  /\ AccountAvailable(s) /\ Owners(s) = {}
  /\ ~ExclusiveActive
  /\ s \in Exclusive => Active(task) = {}
  /\ pc' = "begin" /\ sel' = s
  /\ UNCHANGED <<durable, memory, left, task, snap, todo, releasing, system>>

\* accounts::reserve inside the dispatch transaction.
Reservable(s) == \/ s \notin Agents
                 \/ grant = "held" /\ resv[s] = "active"
                 \/ /\ grant = "held" /\ resv[s] \in {"none", "released"}
                    /\ Cardinality(Reserved) < AccountLimit

\* The transaction of begin commits and run_step is spawned.
Begin ==
  /\ daemon = "up" /\ fin = NoFin
  /\ pc = "begin"
  /\ Cardinality(HostActive) < HostLimit
  /\ Reservable(sel)
  /\ state[sel] = "pending"
  /\ \E a \in Fresh :
       /\ owner' = [owner EXCEPT ![a] = sel]
       /\ astate' = [astate EXCEPT ![a] = "running"]
       /\ cur' = [cur EXCEPT ![sel] = a]
  /\ state' = [state EXCEPT ![sel] = "running"]
  /\ worker' = [worker EXCEPT ![sel] = "working"]
  /\ resv' = IF sel \in Agents THEN [resv EXCEPT ![sel] = "active"] ELSE resv
  /\ phase' = [phase EXCEPT ![sel] = "spawned"]
  /\ IF sel \in Exclusive
     THEN TickAt("tasks")
     ELSE pc' = "dispatch" /\ todo' = todo \ {sel} /\ sel' = None /\ UNCHANGED <<task, snap>>
  /\ UNCHANGED <<status, claims, asked, answered, grant, outcome, fin, left, releasing, system>>

\* The event loop's memory is gone.
Forget ==
  /\ phase' = [s \in Steps |-> "none"]
  /\ cur' = [s \in Steps |-> None]
  /\ outcome' = [s \in Steps |-> "error"]
  /\ fin' = NoFin
  /\ left' = {} /\ TickAt("idle")
  /\ releasing' = {}

\* begin refuses: its error leaves the tick and ends the daemon. Dropping the
\* futures stops their processes, but no attempt is finished.
BeginRefused ==
  /\ daemon = "up" /\ fin = NoFin
  /\ pc = "begin"
  /\ ~(/\ Cardinality(HostActive) < HostLimit
       /\ Reservable(sel)
       /\ state[sel] = "pending")
  /\ daemon' = "errored"
  /\ alive' = alive \ {cur[s] : s \in Steps}
  /\ Forget
  /\ UNCHANGED <<durable, recorded>>
-----------------------------------------------------------------------------
(* Requests of operators and workers.                                      *)

Cancel(t) ==
  /\ "cancel" \in Ops /\ Serving
  /\ status[t] # "cancelled"
  /\ status' = [status EXCEPT ![t] = "cancelled"]
  /\ state' = [s \in Steps |->
                 IF status'[TaskOf[s]] = "cancelled" /\ state[s] \in {"pending", "running", "waiting"}
                 THEN "cancelled" ELSE state[s]]
  /\ UNCHANGED <<owner, astate, worker, claims, asked, answered, resv, grant,
                 memory, tick, releasing, system>>

\* resume::steps: what failed, and what was skipped because of it.
Retry(t) ==
  LET failed == {s \in StepsOf(t) : state[s] \in {"failed", "cancelled", "uncertain"}}
      Closed(X) == \A s \in StepsOf(t) :
                     state[s] = "skipped" /\ Needs[s] \cap X # {} => s \in X
  IN {s \in StepsOf(t) : \A X \in SUBSET StepsOf(t) : failed \subseteq X /\ Closed(X) => s \in X}

RunningNowhere(t) == \A s \in StepsOf(t) : \A a \in AttemptsOf(s) : astate[a] # "running"
LiveNowhere(t) == \A s \in StepsOf(t) : Live(s) = {}

Resume(t) ==
  /\ "resume" \in Ops /\ Serving
  /\ ~(status[t] = "blocked" /\ \A s \in StepsOf(t) : state[s] \in {"succeeded", "skipped", "absent"})
  /\ LiveNowhere(t)
  /\ \A s \in StepsOf(t) : s \notin asked
  /\ state' = [s \in Steps |-> IF s \in Retry(t) THEN "pending" ELSE state[s]]
  /\ status' = [status EXCEPT ![t] = "running"]
  /\ UNCHANGED <<owner, astate, worker, claims, asked, answered, resv, grant,
                 memory, tick, releasing, system>>

AddStep(s) ==
  /\ "add" \in Ops /\ Serving
  /\ state[s] = "absent"
  /\ \A n \in Needs[s] : state[n] # "absent"
  /\ state' = [state EXCEPT ![s] = "pending"]
  /\ status' = [status EXCEPT ![TaskOf[s]] = IF @ = "succeeded" THEN "running" ELSE @]
  /\ UNCHANGED <<owner, astate, worker, claims, asked, answered, resv, grant,
                 memory, tick, releasing, system>>

\* delegation::ask by the running worker.
Ask(s) ==
  /\ "ask" \in Ops /\ Serving
  /\ phase[s] = "executing" /\ s \notin asked
  /\ asked' = asked \cup {s}
  /\ UNCHANGED <<status, state, owner, astate, worker, claims, answered, resv, grant,
                 memory, tick, releasing, system>>

\* delegation::question_action with an answer.
Answer(s) ==
  /\ Serving
  /\ s \in asked
  /\ asked' = asked \ {s}
  /\ answered' = answered \cup {s}
  /\ state' = [state EXCEPT ![s] = IF @ \in {"waiting", "failed"} THEN "pending" ELSE @]
  /\ status' = [status EXCEPT ![TaskOf[s]] = IF @ = "succeeded" THEN "blocked" ELSE @]
  /\ UNCHANGED <<owner, astate, worker, claims, resv, grant, memory, tick, releasing, system>>

UncertainOf(s) == {a \in AttemptsOf(s) : astate[a] = "uncertain"}

\* A pid recorded for an uncertain attempt names a process that exists.
StillInMap(s) == phase[s] # "none"
StillExists(s) == UncertainOf(s) \cap recorded \cap alive # {}

Reconcile(s) ==
  /\ "reconcile" \in Ops /\ Serving
  /\ worker[s] # "none"
  /\ ~StillExists(s)
  /\ \A a \in AttemptsOf(s) : astate[a] # "running"
  /\ astate' = [a \in AttemptIds |-> IF a \in UncertainOf(s) THEN "interrupted" ELSE astate[a]]
  /\ resv' = [resv EXCEPT ![s] = IF UncertainOf(s) # {} /\ @ # "none" THEN "released" ELSE @]
  /\ worker' = [worker EXCEPT ![s] = "stopped"]
  /\ UNCHANGED <<status, state, owner, claims, asked, answered, grant,
                 memory, tick, releasing, system>>

\* A worker reports its own status.
SetWorkerStatus(s, v) ==
  /\ "report" \in Ops /\ Serving
  /\ phase[s] = "executing"
  /\ worker' = [worker EXCEPT ![s] = v]
  /\ UNCHANGED <<status, state, owner, astate, claims, asked, answered, resv, grant,
                 memory, tick, releasing, system>>

\* release_claims: its two checks, then its DELETE, in no transaction.
ReleaseCheck(s) ==
  /\ "release" \in Ops /\ Serving
  /\ s \in claims
  /\ worker[s] \in {"idle", "stopped"}
  /\ Live(s) = {}
  /\ releasing' = releasing \cup {s}
  /\ UNCHANGED <<durable, memory, tick, system>>

ReleaseDelete(s) ==
  /\ Serving
  /\ s \in releasing
  /\ claims' = claims \ {s}
  /\ releasing' = releasing \ {s}
  /\ UNCHANGED <<status, state, owner, astate, worker, asked, answered, resv, grant,
                 memory, tick, system>>

\* account_revoke and account_grant of the project's only account.
RevokeAccount ==
  /\ "revoke" \in Ops /\ Serving
  /\ grant = "held"
  /\ grant' = "revoked"
  /\ resv' = [s \in Steps |-> IF resv[s] = "active" THEN "revoked" ELSE resv[s]]
  /\ UNCHANGED <<status, state, owner, astate, worker, claims, asked, answered,
                 memory, tick, releasing, system>>

GrantAccount ==
  /\ Serving
  /\ grant = "revoked"
  /\ grant' = "held"
  /\ UNCHANGED <<status, state, owner, astate, worker, claims, asked, answered, resv,
                 memory, tick, releasing, system>>
-----------------------------------------------------------------------------
(* The daemon process.                                                     *)

\* kill -9 or a power cut of the daemon: worker processes may live on.
Crash ==
  /\ "crash" \in Ops /\ Serving
  /\ daemon' = "down"
  /\ Forget
  /\ UNCHANGED <<durable, alive, recorded>>

\* runtime::recover, before the daemon serves again.
Start ==
  /\ daemon \in {"down", "errored"}
  /\ LET interrupted == {a \in AttemptIds : astate[a] = "running"}
         hit == {owner[a] : a \in interrupted}
     IN /\ astate' = [a \in AttemptIds |-> IF a \in interrupted THEN "uncertain" ELSE astate[a]]
        /\ state' = [s \in Steps |-> IF s \in hit /\ state[s] # "cancelled"
                                     THEN "uncertain" ELSE state[s]]
        /\ status' = [t \in Tasks |->
                        IF status[t] # "cancelled" /\ \E s \in hit : TaskOf[s] = t
                        THEN "blocked" ELSE status[t]]
        /\ worker' = [s \in Steps |-> IF s \in hit THEN "unresponsive" ELSE worker[s]]
  /\ daemon' = "up"
  /\ UNCHANGED <<owner, claims, asked, answered, resv, grant, memory, tick, releasing,
                 alive, recorded>>

\* SIGTERM, or the shutdown file: the select loop breaks between two ticks.
StopBegin ==
  /\ "stop" \in Ops
  /\ daemon = "up" /\ pc = "idle" /\ fin = NoFin
  /\ daemon' = "stopping"
  /\ UNCHANGED <<durable, memory, tick, releasing, alive, recorded>>

\* An unfinished or failed handle is aborted and its attempt finished.
StopRead(s) ==
  /\ daemon = "stopping" /\ fin = NoFin
  /\ phase[s] \in Unfinished \cup {"aborting", "aborted"}
  /\ phase' = [phase EXCEPT ![s] = "aborted"]
  /\ alive' = alive \ {cur[s]}
  /\ fin' = [step |-> s, outcome |-> IF s \in asked THEN "waiting" ELSE "error"]
  /\ UNCHANGED <<durable, cur, outcome, tick, releasing, daemon, recorded>>

\* A finished handle without a failure is dropped.
StopSkip(s) ==
  /\ daemon = "stopping" /\ fin = NoFin
  /\ phase[s] = "done"
  /\ phase' = [phase EXCEPT ![s] = "none"]
  /\ cur' = [cur EXCEPT ![s] = None]
  /\ UNCHANGED <<durable, outcome, fin, tick, releasing, system>>

StopEnd ==
  /\ daemon = "stopping" /\ fin = NoFin
  /\ \A s \in Steps : phase[s] = "none"
  /\ daemon' = "down"
  /\ Forget
  /\ UNCHANGED <<durable, alive, recorded>>
-----------------------------------------------------------------------------
Invocation(s) ==
  \/ Claim(s) \/ PrepareFails(s) \/ Launch(s) \/ RecordPid(s)
  \/ \E o \in {"ok", "error"} \cup (Ops \cap {"capacity", "loop"}) : Exit(s, o)
  \/ FinishRead(s) \/ Dropped(s)

Tick ==
  \/ TickBegin \/ TickTasks \/ TickEnd
  \/ \E s \in Steps : ReapRead(s) \/ Release(s) \/ Hold(s) \/ Select(s)
  \/ \E t \in Tasks : SettleRead(t)
  \/ SettleWrite \/ ReadyRead \/ ReadyWrite \/ DispatchEnd
  \/ Begin \/ BeginRefused

Request ==
  \/ \E t \in Tasks : Cancel(t) \/ Resume(t)
  \/ \E s \in Steps : \/ AddStep(s) \/ Ask(s) \/ Answer(s) \/ Reconcile(s)
                      \/ ReleaseCheck(s) \/ ReleaseDelete(s)
                      \/ \E v \in {"idle", "working", "blocked", "stopped"} : SetWorkerStatus(s, v)
  \/ RevokeAccount \/ GrantAccount

Process ==
  \/ Crash \/ Start \/ StopBegin \/ StopEnd
  \/ \E s \in Steps : StopRead(s) \/ StopSkip(s) \/ RunStepBreaks(s)
  \/ \E a \in AttemptIds : OrphanExit(a)

Next ==
  \/ FinishCommit
  \/ \E s \in Steps : Invocation(s)
  \/ Tick \/ TickHeld
  \/ Request
  \/ Process

Spec == Init /\ [][Next]_vars

(* The 200 ms interval keeps ticking, and the local set drops an aborted   *)
(* future between ticks: that is possible only when the event loop yields, *)
(* again and again, hence the strong fairness. Workers need never return,  *)
(* and operators, crashes and restarts owe nothing.                        *)
LoopFairness ==
  /\ WF_vars(FinishCommit)
  /\ WF_vars(Tick)
  /\ \A s \in Steps : SF_vars(Dropped(s))

LoopSpec == Spec /\ LoopFairness
-----------------------------------------------------------------------------
\* Every variable has its type.
TypeOK ==
  /\ status \in [Tasks -> TaskStates]
  /\ state \in [Steps -> StepStates]
  /\ owner \in [AttemptIds -> Steps \cup {None}]
  /\ astate \in [AttemptIds -> AttemptStates]
  /\ worker \in [Steps -> WorkerStates]
  /\ claims \subseteq Steps /\ asked \subseteq Steps /\ answered \subseteq Steps
  /\ resv \in [Steps -> {"none", "active", "revoked", "released"}]
  /\ grant \in {"held", "revoked"}
  /\ phase \in [Steps -> Phases]
  /\ cur \in [Steps -> AttemptIds \cup {None}]
  /\ outcome \in [Steps -> Outcomes]
  /\ fin \in [step : Steps \cup {None}, outcome : Outcomes \cup {"waiting"}]
  /\ pc \in {"idle", "reap", "tasks", "settle", "settled", "ready", "dispatch", "begin"}
  /\ left \subseteq Tasks
  /\ task \in Tasks \cup {None}
  /\ snap \in [Steps -> StepStates]
  /\ todo \subseteq Steps
  /\ sel \in Steps \cup {None}
  /\ releasing \subseteq Steps
  /\ daemon \in {"up", "stopping", "down", "errored"}
  /\ alive \subseteq AttemptIds /\ recorded \subseteq AttemptIds

\* A step never has two attempts that are running or uncertain, whatever
\* cancel, resume, answers, crashes and restarts do between two statements.
OneLiveAttempt == \A s \in Steps : \A a, b \in Live(s) : a = b

\* Running and uncertain attempts together never exceed the daemon's ceiling.
HostCeiling == Cardinality({a \in AttemptIds : astate[a] \in LiveStates}) <= HostLimit

\* A command, delivery or environment step shares its task's workspace with no
\* other invocation of the task.
ExclusiveAlone ==
  \A s \in Exclusive : \A u \in StepsOf(TaskOf[s]) \ {s} :
    ~(phase[s] \in Unfinished /\ phase[u] \in Unfinished)

\* Two processes the daemon knows by pid never write the same scope of one task:
\* neither two attempts of a step nor two steps with overlapping scopes.
SoleWriter ==
  \A a, b \in alive \cap recorded :
    a # b /\ owner[a] \in Agents /\ owner[b] \in Agents /\ TaskOf[owner[a]] = TaskOf[owner[b]]
      => owner[a] # owner[b] /\ <<owner[a], owner[b]>> \notin Overlap

\* A step that waits for information still has an open question, so an answer
\* can reach it, even when the answer commits while finish_ref is between its
\* reading of the questions and its transaction.
NoStrandedWait == \A s \in Steps : state[s] = "waiting" => s \in asked

\* Attempts that use the account, uncertain ones included, never exceed its
\* concurrency.
AccountCeiling == Cardinality({s \in Agents : Live(s) # {}}) <= AccountLimit

\* release_step's own check never fails in the reap pass: its error would end
\* the daemon.
ReleaseNeverRefused == \A s \in Steps : phase[s] = "done" => Live(s) = {}

\* A task reported as succeeded or failed has no attempt under way.
FinishedTaskIsQuiet ==
  \A t \in Tasks : status[t] \in {"succeeded", "failed"} => \A s \in StepsOf(t) : Live(s) = {}

\* Without an operator's help a step runs at most `attempts` times, plus once
\* for every fallback of its role.
RetryBound == \A s \in Steps : Cardinality(AttemptsOf(s)) <= Tries[s] + Hops[s]

\* An uncertain attempt is settled only by reconciliation, and never while the
\* process recorded for it exists.
UncertainNeedsReconcile ==
  [][\A a \in AttemptIds : astate[a] = "uncertain" =>
       \/ astate'[a] = "uncertain"
       \/ astate'[a] = "interrupted" /\ a \notin alive \cap recorded]_vars

\* An attempt whose step was cancelled under it is recorded as cancelled,
\* never as succeeded or failed.
CancelWins ==
  [][\A a \in AttemptIds :
       astate[a] = "running" /\ astate'[a] # "running" /\ state[owner[a]] = "cancelled"
         => astate'[a] \in {"cancelled", "uncertain"}]_vars

\* A step starts only when every dependency succeeded, but for the one its
\* condition names, which has the status the condition asks for.
DependencyOrder ==
  [][\A s \in Steps : state[s] = "pending" /\ state'[s] = "running" =>
       \A n \in Needs[s] : state[n] = IF WhenStep[s] = n THEN WhenStatus[s] ELSE "succeeded"]_vars

\* If every invocation returns in the end, a running task whose workers ask
\* nothing is finished, blocked or cancelled in the end, as long as the daemon
\* is up.
TaskSettles ==
  (\A s \in Steps : SF_vars(Invocation(s))) =>
    \A t \in Tasks : status[t] = "running" ~> status[t] # "running" \/ daemon # "up"

\* Cancelling a task stops its invocations and records their outcome, unless
\* the task is resumed or the daemon goes down.
CancelStops ==
  \A t \in Tasks : status[t] = "cancelled" ~>
    \/ \A s \in StepsOf(t) : \A a \in Live(s) : astate[a] = "uncertain"
    \/ daemon # "up"
-----------------------------------------------------------------------------
(* What the documentation says and the code does not do: each of these is  *)
(* violated, and its run shows the shortest behaviour.                     *)

\* A coding step whose scope overlaps that of a dispatched step is not dispatched.
OverlapSerializes ==
  \A s, u \in Agents :
    s # u /\ TaskOf[s] = TaskOf[u] /\ <<s, u>> \in Overlap
      => ~(phase[s] \in Unfinished /\ phase[u] \in Unfinished)

\* An active reservation belongs to an attempt that is live or still in the
\* running map.
ReservationBacked ==
  \A s \in Steps : resv[s] = "active" => Live(s) # {} \/ phase[s] # "none"
=============================================================================
