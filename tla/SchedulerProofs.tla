-------------------------- MODULE SchedulerProofs --------------------------
(***************************************************************************)
(* Safety of the scheduler, for every plan, every number of attempts and   *)
(* every set of operator requests and failures.                            *)
(*                                                                         *)
(* The argument: a live attempt pins its step to one of three states, none *)
(* of which begin accepts (LivePinned). What makes it inductive is what    *)
(* the event loop remembers: an entry of the running map names the live    *)
(* attempt of its step (MapNamesLive), a reaped entry has none             *)
(* (DoneIsQuiet), the snapshots that settle and ready trust name only      *)
(* steps without one (SnapshotQuiet), and all of this memory is gone when  *)
(* recover runs (DownForgets).                                             *)
(***************************************************************************)
EXTENDS Scheduler, FiniteSetTheorems, TLAPS

Busy == Unfinished \cup {"aborting", "aborted"}

Quiet(s) == \A a \in AttemptIds : owner[a] = s => astate[a] \notin LiveStates

\* An unused row has no step; a used one has.
RowsOwned == \A a \in AttemptIds : astate[a] = "unused" \/ owner[a] \in Steps

LivePinned ==
  \A a \in AttemptIds : astate[a] \in LiveStates =>
    state[owner[a]] \in {"running", "cancelled", "uncertain"}

LiveUnique ==
  \A a, b \in AttemptIds :
    astate[a] \in LiveStates /\ astate[b] \in LiveStates /\ owner[a] = owner[b] => a = b

MapNamesLive ==
  \A s \in Steps : phase[s] \in Busy =>
    cur[s] \in AttemptIds /\ owner[cur[s]] = s /\ astate[cur[s]] = "running"

DoneIsQuiet == \A s \in Steps : phase[s] = "done" => Quiet(s)

FinishIsBusy == fin.step # None => phase[fin.step] \in Busy

SnapshotQuiet ==
  /\ pc = "settle" => \A s \in Steps : snap[s] = "failed" => Quiet(s)
  /\ pc = "ready" => \A s \in Steps : snap[s] = "pending" => Quiet(s)

TickPlaced ==
  /\ pc \in {"settle", "settled", "ready", "dispatch", "begin"} => task \in Tasks
  /\ pc = "begin" => sel \in Steps

DownForgets ==
  daemon \notin {"up", "stopping"} => fin.step = None /\ \A s \in Steps : phase[s] = "none"

SafeInv ==
  /\ TypeOK
  /\ RowsOwned /\ LivePinned /\ LiveUnique
  /\ MapNamesLive /\ DoneIsQuiet /\ FinishIsBusy
  /\ SnapshotQuiet /\ TickPlaced /\ DownForgets

\* The initial state has its types.
LEMMA TypeInit == Init => TypeOK
  BY StructureAssumption DEF Init, TypeOK, TaskStates, StepStates, AttemptStates, WorkerStates,
     Outcomes, Phases, NoFin, NoSnap

\* Every action keeps the types.
LEMMA TypeStep == SafeInv /\ [Next]_vars => TypeOK'
<1> SUFFICES ASSUME TypeOK, MapNamesLive, TickPlaced, [Next]_vars PROVE TypeOK'
  BY DEF SafeInv
<1> USE StructureAssumption, NoneAssumption DEF TypeOK, MapNamesLive, TickPlaced, Busy
<1>1. CASE FinishCommit
  <2>1. fin.step \in Steps
    BY <1>1 DEF FinishCommit
  <2>2. FinishedState(fin.step) \in {"cancelled", "waiting", "succeeded", "failed"}
    BY DEF FinishedState
  <2>3. FinishedAttempt(fin.step) \in AttemptStates
    BY <2>2 DEF FinishedAttempt, AttemptStates
  <2>4. state' \in [Steps -> StepStates] /\ astate' \in [AttemptIds -> AttemptStates]
    BY <1>1, <2>1, <2>2, <2>3 DEF FinishCommit, StepStates
  <2>5. worker' \in [Steps -> WorkerStates] /\ status' \in [Tasks -> TaskStates]
    BY <1>1, <2>1 DEF FinishCommit, WorkerStates, TaskStates
  <2>6. /\ phase' \in [Steps -> Phases] /\ cur' \in [Steps -> AttemptIds \cup {None}]
        /\ outcome' \in [Steps -> Outcomes]
    BY <1>1, <2>1 DEF FinishCommit, Phases, Outcomes
  <2> QED
    BY <1>1, <2>1, <2>4, <2>5, <2>6 DEF FinishCommit, NoFin, tick, system, Outcomes
<1>2. ASSUME NEW s \in Steps, Invocation(s) PROVE TypeOK'
  <2>1. CASE Claim(s)
    BY <2>1 DEF Claim, durable, memory, tick, system, TaskStates, StepStates, AttemptStates,
         LiveStates, WorkerStates, Phases, Unfinished, Outcomes
  <2>2. CASE PrepareFails(s)
    BY <2>2 DEF PrepareFails, durable, memory, tick, system, TaskStates, StepStates,
         AttemptStates, LiveStates, WorkerStates, Phases, Unfinished, Outcomes
  <2>3. CASE Launch(s)
    BY <2>3 DEF Launch, durable, memory, tick, system, TaskStates, StepStates, AttemptStates,
         LiveStates, WorkerStates, Phases, Unfinished, Outcomes
  <2>4. CASE RecordPid(s)
    BY <2>4 DEF RecordPid, durable, memory, tick, system, TaskStates, StepStates, AttemptStates,
         LiveStates, WorkerStates, Phases, Unfinished, Outcomes
  <2>5. ASSUME NEW o \in Outcomes, Exit(s, o) PROVE TypeOK'
    BY <2>5 DEF Exit, durable, memory, tick, system, TaskStates, StepStates, AttemptStates,
         LiveStates, WorkerStates, Phases, Unfinished, Outcomes
  <2>6. CASE FinishRead(s)
    BY <2>6 DEF FinishRead, NoFin, durable, memory, tick, system, TaskStates, StepStates,
         AttemptStates, LiveStates, WorkerStates, Phases, Unfinished, Outcomes
  <2>7. CASE Dropped(s)
    BY <2>7 DEF Dropped, durable, memory, tick, system, TaskStates, StepStates, AttemptStates,
         LiveStates, WorkerStates, Phases, Unfinished, Outcomes
  <2> QED
    BY <1>2, <2>1, <2>2, <2>3, <2>4, <2>5, <2>6, <2>7 DEF Invocation, Outcomes
<1>3. CASE Tick
  <2>1. CASE TickBegin
    BY <2>1 DEF TickBegin, Doomed, durable, memory, tick, system, TaskStates, StepStates,
         AttemptStates, LiveStates, WorkerStates, Phases, Unfinished, Outcomes
  <2>2. CASE TickTasks
    BY <2>2 DEF TickTasks, TickAt, NoSnap, durable, memory, tick, system, TaskStates,
         StepStates, AttemptStates, LiveStates, WorkerStates, Phases, Unfinished, Outcomes
  <2>3. CASE TickEnd
    BY <2>3 DEF TickEnd, TickAt, NoSnap, durable, memory, tick, system, TaskStates, StepStates,
         AttemptStates, LiveStates, WorkerStates, Phases, Unfinished, Outcomes
  <2>4. ASSUME NEW s \in Steps, ReapRead(s) PROVE TypeOK'
    BY <2>4 DEF ReapRead, durable, memory, tick, system, TaskStates, StepStates, AttemptStates,
         LiveStates, WorkerStates, Phases, Unfinished, Outcomes
  <2>5. ASSUME NEW s \in Steps, Release(s) PROVE TypeOK'
    BY <2>5 DEF Release, durable, memory, tick, system, TaskStates, StepStates, AttemptStates,
         LiveStates, WorkerStates, Phases, Unfinished, Outcomes
  <2>6. ASSUME NEW s \in Steps, Hold(s) PROVE TypeOK'
    BY <2>6 DEF Hold, durable, memory, tick, system, TaskStates, StepStates, AttemptStates,
         LiveStates, WorkerStates, Phases, Unfinished, Outcomes
  <2>7. ASSUME NEW s \in Steps, Select(s) PROVE TypeOK'
    BY <2>7 DEF Select, durable, memory, tick, system, TaskStates, StepStates, AttemptStates,
         LiveStates, WorkerStates, Phases, Unfinished, Outcomes
  <2>8. ASSUME NEW t \in Tasks, SettleRead(t) PROVE TypeOK'
    BY <2>8 DEF SettleRead, Snapshot, durable, memory, tick, system, TaskStates, StepStates,
         AttemptStates, LiveStates, WorkerStates, Phases, Unfinished, Outcomes
  <2>9. CASE SettleWrite
    BY <2>9 DEF SettleWrite, Verdict, NoSnap, Retriable, durable, memory, tick, system,
         TaskStates, StepStates, AttemptStates, LiveStates, WorkerStates, Phases, Unfinished,
         Outcomes
  <2>10. CASE ReadyRead
    BY <2>10 DEF ReadyRead, Snapshot, TickAt, NoSnap, durable, memory, tick, system, TaskStates,
         StepStates, AttemptStates, LiveStates, WorkerStates, Phases, Unfinished, Outcomes
  <2>11. CASE ReadyWrite
    BY <2>11 DEF ReadyWrite, Considered, Skipped, NoSnap, durable, memory, tick, system,
         TaskStates, StepStates, AttemptStates, LiveStates, WorkerStates, Phases, Unfinished,
         Outcomes
  <2>12. CASE DispatchEnd
    BY <2>12 DEF DispatchEnd, TickAt, NoSnap, durable, memory, tick, system, TaskStates,
         StepStates, AttemptStates, LiveStates, WorkerStates, Phases, Unfinished, Outcomes
  <2>13. CASE Begin
    BY <2>13 DEF Begin, Fresh, TickAt, NoSnap, durable, memory, tick, system, TaskStates,
         StepStates, AttemptStates, LiveStates, WorkerStates, Phases, Unfinished, Outcomes
  <2>14. CASE BeginRefused
    BY <2>14 DEF BeginRefused, Forget, TickAt, NoSnap, NoFin, durable, memory, tick, system,
         TaskStates, StepStates, AttemptStates, LiveStates, WorkerStates, Phases, Unfinished,
         Outcomes
  <2> QED
    BY <1>3, <2>1, <2>2, <2>3, <2>4, <2>5, <2>6, <2>7, <2>8, <2>9, <2>10, <2>11, <2>12, <2>13,
         <2>14 DEF Tick
<1>4. CASE TickHeld
  BY <1>4 DEF TickHeld, TickAt, NoSnap, durable, memory, tick, system, TaskStates, StepStates,
       AttemptStates, LiveStates, WorkerStates, Phases, Unfinished, Outcomes
<1>5. CASE Request
  <2>1. ASSUME NEW t \in Tasks, Cancel(t) PROVE TypeOK'
    BY <2>1 DEF Cancel, durable, memory, tick, system, TaskStates, StepStates, AttemptStates,
         LiveStates, WorkerStates, Phases, Unfinished, Outcomes
  <2>2. ASSUME NEW t \in Tasks, Resume(t) PROVE TypeOK'
    BY <2>2 DEF Resume, durable, memory, tick, system, TaskStates, StepStates, AttemptStates,
         LiveStates, WorkerStates, Phases, Unfinished, Outcomes
  <2>3. ASSUME NEW s \in Steps, AddStep(s) PROVE TypeOK'
    BY <2>3 DEF AddStep, durable, memory, tick, system, TaskStates, StepStates, AttemptStates,
         LiveStates, WorkerStates, Phases, Unfinished, Outcomes
  <2>4. ASSUME NEW s \in Steps, Ask(s) PROVE TypeOK'
    BY <2>4 DEF Ask, durable, memory, tick, system, TaskStates, StepStates, AttemptStates,
         LiveStates, WorkerStates, Phases, Unfinished, Outcomes
  <2>5. ASSUME NEW s \in Steps, Answer(s) PROVE TypeOK'
    BY <2>5 DEF Answer, durable, memory, tick, system, TaskStates, StepStates, AttemptStates,
         LiveStates, WorkerStates, Phases, Unfinished, Outcomes
  <2>6. ASSUME NEW s \in Steps, Reconcile(s) PROVE TypeOK'
    BY <2>6 DEF Reconcile, durable, memory, tick, system, TaskStates, StepStates, AttemptStates,
         LiveStates, WorkerStates, Phases, Unfinished, Outcomes
  <2>7. ASSUME NEW s \in Steps, ReleaseCheck(s) PROVE TypeOK'
    BY <2>7 DEF ReleaseCheck, durable, memory, tick, system, TaskStates, StepStates,
         AttemptStates, LiveStates, WorkerStates, Phases, Unfinished, Outcomes
  <2>8. ASSUME NEW s \in Steps, ReleaseDelete(s) PROVE TypeOK'
    BY <2>8 DEF ReleaseDelete, durable, memory, tick, system, TaskStates, StepStates,
         AttemptStates, LiveStates, WorkerStates, Phases, Unfinished, Outcomes
  <2>9. ASSUME NEW s \in Steps, NEW v \in {"idle", "working", "blocked", "stopped"}, SetWorkerStatus(s, v) PROVE TypeOK'
    BY <2>9 DEF SetWorkerStatus, durable, memory, tick, system, TaskStates, StepStates,
         AttemptStates, LiveStates, WorkerStates, Phases, Unfinished, Outcomes
  <2>10. CASE RevokeAccount
    BY <2>10 DEF RevokeAccount, durable, memory, tick, system, TaskStates, StepStates,
         AttemptStates, LiveStates, WorkerStates, Phases, Unfinished, Outcomes
  <2>11. CASE GrantAccount
    BY <2>11 DEF GrantAccount, durable, memory, tick, system, TaskStates, StepStates,
         AttemptStates, LiveStates, WorkerStates, Phases, Unfinished, Outcomes
  <2> QED
    BY <1>5, <2>1, <2>2, <2>3, <2>4, <2>5, <2>6, <2>7, <2>8, <2>9, <2>10, <2>11 DEF Request
<1>6. CASE Process
  <2>1. CASE Crash
    BY <2>1 DEF Crash, Forget, TickAt, NoSnap, NoFin, durable, memory, tick, system, TaskStates,
         StepStates, AttemptStates, LiveStates, WorkerStates, Phases, Unfinished, Outcomes
  <2>2. CASE Start
    BY <2>2 DEF Start, durable, memory, tick, system, TaskStates, StepStates, AttemptStates,
         LiveStates, WorkerStates, Phases, Unfinished, Outcomes
  <2>3. CASE StopBegin
    BY <2>3 DEF StopBegin, durable, memory, tick, system, TaskStates, StepStates, AttemptStates,
         LiveStates, WorkerStates, Phases, Unfinished, Outcomes
  <2>4. CASE StopEnd
    BY <2>4 DEF StopEnd, Forget, TickAt, NoSnap, NoFin, durable, memory, tick, system,
         TaskStates, StepStates, AttemptStates, LiveStates, WorkerStates, Phases, Unfinished,
         Outcomes
  <2>5. ASSUME NEW s \in Steps, StopRead(s) PROVE TypeOK'
    BY <2>5 DEF StopRead, durable, memory, tick, system, TaskStates, StepStates, AttemptStates,
         LiveStates, WorkerStates, Phases, Unfinished, Outcomes
  <2>6. ASSUME NEW s \in Steps, StopSkip(s) PROVE TypeOK'
    BY <2>6 DEF StopSkip, durable, memory, tick, system, TaskStates, StepStates, AttemptStates,
         LiveStates, WorkerStates, Phases, Unfinished, Outcomes
  <2>7. ASSUME NEW s \in Steps, RunStepBreaks(s) PROVE TypeOK'
    BY <2>7 DEF RunStepBreaks, durable, memory, tick, system, TaskStates, StepStates,
         AttemptStates, LiveStates, WorkerStates, Phases, Unfinished, Outcomes
  <2>8. ASSUME NEW a \in AttemptIds, OrphanExit(a) PROVE TypeOK'
    BY <2>8 DEF OrphanExit, durable, memory, tick, system, TaskStates, StepStates,
         AttemptStates, LiveStates, WorkerStates, Phases, Unfinished, Outcomes
  <2> QED
    BY <1>6, <2>1, <2>2, <2>3, <2>4, <2>5, <2>6, <2>7, <2>8 DEF Process
<1>7. CASE UNCHANGED vars
  BY <1>7 DEF vars, durable, memory, tick, system, TaskStates, StepStates, AttemptStates,
       LiveStates, WorkerStates, Phases, Unfinished, Outcomes
<1> QED
  BY <1>1, <1>2, <1>3, <1>4, <1>5, <1>6, <1>7 DEF Next

\* What an action does to the attempts table and to the states of steps: all
\* but these leave both alone.
LEMMA TableChanges ==
  ASSUME Next
  PROVE  \/ FinishCommit \/ SettleWrite \/ ReadyWrite \/ Begin \/ Start
         \/ \E t \in Tasks : Cancel(t) \/ Resume(t)
         \/ \E s \in Steps : AddStep(s) \/ Answer(s) \/ Reconcile(s)
         \/ UNCHANGED <<owner, astate, state>>
<1>1. ASSUME NEW s \in Steps, Invocation(s) PROVE UNCHANGED <<owner, astate, state>>
  BY <1>1 DEF Invocation, Claim, PrepareFails, Launch, RecordPid, Exit, FinishRead, Dropped,
     durable
<1>2. Tick => SettleWrite \/ ReadyWrite \/ Begin \/ UNCHANGED <<owner, astate, state>>
  BY DEF Tick, TickBegin, TickTasks, TickEnd, ReapRead, Release, Hold, Select, SettleRead,
     ReadyRead, DispatchEnd, BeginRefused, durable
<1>3. TickHeld => UNCHANGED <<owner, astate, state>>
  BY DEF TickHeld, durable
<1>4. Request => \/ \E t \in Tasks : Cancel(t) \/ Resume(t)
                 \/ \E s \in Steps : AddStep(s) \/ Answer(s) \/ Reconcile(s)
                 \/ UNCHANGED <<owner, astate, state>>
  BY DEF Request, Ask, ReleaseCheck, ReleaseDelete, SetWorkerStatus, RevokeAccount,
     GrantAccount, durable
<1>5. Process => Start \/ UNCHANGED <<owner, astate, state>>
  BY DEF Process, Crash, StopBegin, StopEnd, StopRead, StopSkip, RunStepBreaks, OrphanExit,
     durable
<1> QED
  BY <1>1, <1>2, <1>3, <1>4, <1>5 DEF Next

\* A live attempt keeps its step out of reach of begin, and is the only one.
LEMMA AttemptStep == SafeInv /\ [Next]_vars => (RowsOwned /\ LivePinned /\ LiveUnique)'
<1> SUFFICES ASSUME SafeInv, [Next]_vars PROVE (RowsOwned /\ LivePinned /\ LiveUnique)'
  OBVIOUS
<1> USE NoneAssumption, StructureAssumption
    DEF SafeInv, TypeOK, RowsOwned, LivePinned, LiveUnique, LiveStates
<1>1. CASE FinishCommit
  <2>1. /\ fin.step \in Steps
        /\ cur[fin.step] \in AttemptIds
        /\ owner[cur[fin.step]] = fin.step
        /\ astate[cur[fin.step]] = "running"
    BY <1>1 DEF FinishCommit, FinishIsBusy, MapNamesLive
  <2>2. FinishedState(fin.step) \in {"cancelled", "waiting", "succeeded", "failed"}
    BY DEF FinishedState
  <2>3. FinishedAttempt(fin.step) \notin LiveStates \cup {"unused"}
    BY <2>2 DEF FinishedAttempt
  <2>4. astate' = [astate EXCEPT ![cur[fin.step]] = FinishedAttempt(fin.step)] /\ owner' = owner
    BY <1>1 DEF FinishCommit
  <2>5. \A s \in Steps : s # fin.step => state'[s] = state[s]
    BY <1>1, <2>1 DEF FinishCommit
  <2> QED
    BY <2>1, <2>3, <2>4, <2>5
<1>2. CASE SettleWrite
  BY <1>2 DEF SettleWrite, Retriable, SnapshotQuiet, Quiet
<1>3. CASE ReadyWrite
  BY <1>3 DEF ReadyWrite, Skipped, Considered, SnapshotQuiet, Quiet
<1>4. CASE Begin
  <2>1. PICK a \in Fresh : /\ owner' = [owner EXCEPT ![a] = sel]
                           /\ astate' = [astate EXCEPT ![a] = "running"]
    BY <1>4 DEF Begin
  <2>2. /\ sel \in Steps /\ state[sel] = "pending"
        /\ state' = [state EXCEPT ![sel] = "running"]
    BY <1>4 DEF Begin, TickPlaced
  <2>3. a \in AttemptIds /\ astate[a] = "unused"
    BY <2>1 DEF Fresh
  <2> QED
    BY <2>1, <2>2, <2>3
<1>5. CASE Start
  BY <1>5 DEF Start
<1>6. ASSUME NEW t \in Tasks, Cancel(t) PROVE (RowsOwned /\ LivePinned /\ LiveUnique)'
  BY <1>6 DEF Cancel
<1>7. ASSUME NEW t \in Tasks, Resume(t) PROVE (RowsOwned /\ LivePinned /\ LiveUnique)'
  BY <1>7 DEF Resume, LiveNowhere, Live, AttemptsOf, Retry, StepsOf
<1>8. ASSUME NEW s \in Steps, AddStep(s) PROVE (RowsOwned /\ LivePinned /\ LiveUnique)'
  BY <1>8 DEF AddStep
<1>9. ASSUME NEW s \in Steps, Answer(s) PROVE (RowsOwned /\ LivePinned /\ LiveUnique)'
  BY <1>9 DEF Answer
<1>10. ASSUME NEW s \in Steps, Reconcile(s) PROVE (RowsOwned /\ LivePinned /\ LiveUnique)'
  BY <1>10 DEF Reconcile, UncertainOf, AttemptsOf
<1>11. CASE UNCHANGED <<owner, astate, state>>
  BY <1>11
<1>12. CASE UNCHANGED vars
  BY <1>12, <1>11 DEF vars, durable
<1> QED
  BY <1>1, <1>2, <1>3, <1>4, <1>5, <1>6, <1>7, <1>8, <1>9, <1>10, <1>11, <1>12, TableChanges

\* The running map names live attempts, a reaped entry has none, and a daemon
\* that is down has no running map.
LEMMA MapStep ==
  SafeInv /\ [Next]_vars => (MapNamesLive /\ DoneIsQuiet /\ FinishIsBusy /\ DownForgets)'
<1> SUFFICES ASSUME SafeInv, [Next]_vars
             PROVE  (MapNamesLive /\ DoneIsQuiet /\ FinishIsBusy /\ DownForgets)'
  OBVIOUS
<1> USE NoneAssumption, StructureAssumption
    DEF SafeInv, TypeOK, MapNamesLive, DoneIsQuiet, FinishIsBusy, DownForgets, Busy, Quiet,
        Unfinished, LiveStates
<1>1. CASE FinishCommit
  <2>1. /\ fin.step \in Steps
        /\ cur[fin.step] \in AttemptIds
        /\ owner[cur[fin.step]] = fin.step
        /\ astate[cur[fin.step]] = "running"
    BY <1>1 DEF FinishCommit
  <2>2. FinishedState(fin.step) \in {"cancelled", "waiting", "succeeded", "failed"}
    BY DEF FinishedState
  <2>3. FinishedAttempt(fin.step) \notin LiveStates
    BY <2>2 DEF FinishedAttempt
  <2>4. /\ astate' = [astate EXCEPT ![cur[fin.step]] = FinishedAttempt(fin.step)]
        /\ owner' = owner /\ daemon' = daemon /\ fin' = NoFin
        /\ phase' = [phase EXCEPT ![fin.step] = IF daemon = "stopping" THEN "none" ELSE "done"]
        /\ cur' = IF daemon = "stopping" THEN [cur EXCEPT ![fin.step] = None] ELSE cur
    BY <1>1 DEF FinishCommit, system
  <2>5. MapNamesLive' /\ FinishIsBusy' /\ DownForgets'
    BY <2>1, <2>4 DEF NoFin
  <2>6. DoneIsQuiet'
    BY <2>1, <2>3, <2>4 DEF LiveUnique
  <2> QED
    BY <2>5, <2>6
<1>2. ASSUME NEW s \in Steps, Invocation(s) PROVE (MapNamesLive /\ DoneIsQuiet /\ FinishIsBusy /\ DownForgets)'
  <2>1. CASE Claim(s)
    BY <2>1 DEF Claim, Yielded, durable, memory, tick, system
  <2>2. CASE PrepareFails(s)
    BY <2>2 DEF PrepareFails, Yielded, durable, memory, tick, system
  <2>3. CASE Launch(s)
    BY <2>3 DEF Launch, Serving, durable, memory, tick, system
  <2>4. CASE RecordPid(s)
    BY <2>4 DEF RecordPid, Yielded, durable, memory, tick, system
  <2>5. ASSUME NEW o \in Outcomes, Exit(s, o) PROVE (MapNamesLive /\ DoneIsQuiet /\ FinishIsBusy /\ DownForgets)'
    BY <2>5 DEF Exit, Yielded, durable, memory, tick, system
  <2>6. CASE FinishRead(s)
    BY <2>6 DEF FinishRead, Yielded, NoFin, durable, memory, tick, system
  <2>7. CASE Dropped(s)
    BY <2>7 DEF Dropped, Yielded, durable, memory, tick, system
  <2> QED
    BY <1>2, <2>1, <2>2, <2>3, <2>4, <2>5, <2>6, <2>7 DEF Invocation, Outcomes
<1>3. CASE Tick
  <2>1. CASE TickBegin
    BY <2>1 DEF TickBegin, Doomed, durable, memory, tick, system
  <2>2. CASE TickTasks
    BY <2>2 DEF TickTasks, durable, memory, tick, system
  <2>3. CASE TickEnd
    BY <2>3 DEF TickEnd, durable, memory, tick, system
  <2>4. ASSUME NEW s \in Steps, ReapRead(s) PROVE (MapNamesLive /\ DoneIsQuiet /\ FinishIsBusy /\ DownForgets)'
    BY <2>4 DEF ReapRead, NoFin, durable, memory, tick, system
  <2>5. ASSUME NEW s \in Steps, Release(s) PROVE (MapNamesLive /\ DoneIsQuiet /\ FinishIsBusy /\ DownForgets)'
    BY <2>5 DEF Release, NoFin, durable, memory, tick, system
  <2>6. ASSUME NEW s \in Steps, Hold(s) PROVE (MapNamesLive /\ DoneIsQuiet /\ FinishIsBusy /\ DownForgets)'
    BY <2>6 DEF Hold, durable, memory, tick, system
  <2>7. ASSUME NEW s \in Steps, Select(s) PROVE (MapNamesLive /\ DoneIsQuiet /\ FinishIsBusy /\ DownForgets)'
    BY <2>7 DEF Select, durable, memory, tick, system
  <2>8. ASSUME NEW t \in Tasks, SettleRead(t) PROVE (MapNamesLive /\ DoneIsQuiet /\ FinishIsBusy /\ DownForgets)'
    BY <2>8 DEF SettleRead, durable, memory, tick, system
  <2>9. CASE SettleWrite
    BY <2>9 DEF SettleWrite, durable, memory, tick, system
  <2>10. CASE ReadyRead
    BY <2>10 DEF ReadyRead, durable, memory, tick, system
  <2>11. CASE ReadyWrite
    BY <2>11 DEF ReadyWrite, durable, memory, tick, system
  <2>12. CASE DispatchEnd
    BY <2>12 DEF DispatchEnd, durable, memory, tick, system
  <2>13. CASE Begin
    <3>1. PICK a \in Fresh : /\ owner' = [owner EXCEPT ![a] = sel]
                             /\ astate' = [astate EXCEPT ![a] = "running"]
                             /\ cur' = [cur EXCEPT ![sel] = a]
      BY <2>13 DEF Begin
    <3>2. /\ sel \in Steps /\ fin' = fin /\ daemon' = daemon /\ daemon = "up"
          /\ phase' = [phase EXCEPT ![sel] = "spawned"]
      BY <2>13 DEF Begin, TickPlaced, system
    <3>3. a \in AttemptIds /\ astate[a] = "unused"
      BY <3>1 DEF Fresh
    <3>4. fin.step = None
      BY <2>13 DEF Begin, NoFin
    <3> QED
      BY <3>1, <3>2, <3>3, <3>4
  <2>14. CASE BeginRefused
    BY <2>14 DEF BeginRefused, Forget, NoFin, durable, memory, tick, system
  <2> QED
    BY <1>3, <2>1, <2>2, <2>3, <2>4, <2>5, <2>6, <2>7, <2>8, <2>9, <2>10, <2>11, <2>12, <2>13,
         <2>14 DEF Tick
<1>4. CASE TickHeld
  BY <1>4 DEF TickHeld, durable, memory, tick, system
<1>5. CASE Request
  <2>1. ASSUME NEW t \in Tasks, Cancel(t) PROVE (MapNamesLive /\ DoneIsQuiet /\ FinishIsBusy /\ DownForgets)'
    BY <2>1 DEF Cancel, durable, memory, tick, system
  <2>2. ASSUME NEW t \in Tasks, Resume(t) PROVE (MapNamesLive /\ DoneIsQuiet /\ FinishIsBusy /\ DownForgets)'
    BY <2>2 DEF Resume, durable, memory, tick, system
  <2>3. ASSUME NEW s \in Steps, AddStep(s) PROVE (MapNamesLive /\ DoneIsQuiet /\ FinishIsBusy /\ DownForgets)'
    BY <2>3 DEF AddStep, durable, memory, tick, system
  <2>4. ASSUME NEW s \in Steps, Ask(s) PROVE (MapNamesLive /\ DoneIsQuiet /\ FinishIsBusy /\ DownForgets)'
    BY <2>4 DEF Ask, durable, memory, tick, system
  <2>5. ASSUME NEW s \in Steps, Answer(s) PROVE (MapNamesLive /\ DoneIsQuiet /\ FinishIsBusy /\ DownForgets)'
    BY <2>5 DEF Answer, durable, memory, tick, system
  <2>6. ASSUME NEW s \in Steps, Reconcile(s) PROVE (MapNamesLive /\ DoneIsQuiet /\ FinishIsBusy /\ DownForgets)'
    BY <2>6 DEF Reconcile, UncertainOf, AttemptsOf, durable, memory, tick, system
  <2>7. ASSUME NEW s \in Steps, ReleaseCheck(s) PROVE (MapNamesLive /\ DoneIsQuiet /\ FinishIsBusy /\ DownForgets)'
    BY <2>7 DEF ReleaseCheck, durable, memory, tick, system
  <2>8. ASSUME NEW s \in Steps, ReleaseDelete(s) PROVE (MapNamesLive /\ DoneIsQuiet /\ FinishIsBusy /\ DownForgets)'
    BY <2>8 DEF ReleaseDelete, durable, memory, tick, system
  <2>9. ASSUME NEW s \in Steps, NEW v \in {"idle", "working", "blocked", "stopped"}, SetWorkerStatus(s, v) PROVE (MapNamesLive /\ DoneIsQuiet /\ FinishIsBusy /\ DownForgets)'
    BY <2>9 DEF SetWorkerStatus, durable, memory, tick, system
  <2>10. CASE RevokeAccount
    BY <2>10 DEF RevokeAccount, durable, memory, tick, system
  <2>11. CASE GrantAccount
    BY <2>11 DEF GrantAccount, durable, memory, tick, system
  <2> QED
    BY <1>5, <2>1, <2>2, <2>3, <2>4, <2>5, <2>6, <2>7, <2>8, <2>9, <2>10, <2>11 DEF Request
<1>6. CASE Process
  <2>1. CASE Crash
    BY <2>1 DEF Crash, Forget, NoFin, durable, memory, tick, system
  <2>2. CASE Start
    BY <2>2 DEF Start, durable, memory, tick, system
  <2>3. CASE StopBegin
    BY <2>3 DEF StopBegin, durable, memory, tick, system
  <2>4. CASE StopEnd
    BY <2>4 DEF StopEnd, Forget, NoFin, durable, memory, tick, system
  <2>5. ASSUME NEW s \in Steps, StopRead(s) PROVE (MapNamesLive /\ DoneIsQuiet /\ FinishIsBusy /\ DownForgets)'
    BY <2>5 DEF StopRead, NoFin, durable, memory, tick, system
  <2>6. ASSUME NEW s \in Steps, StopSkip(s) PROVE (MapNamesLive /\ DoneIsQuiet /\ FinishIsBusy /\ DownForgets)'
    BY <2>6 DEF StopSkip, NoFin, durable, memory, tick, system
  <2>7. ASSUME NEW s \in Steps, RunStepBreaks(s) PROVE (MapNamesLive /\ DoneIsQuiet /\ FinishIsBusy /\ DownForgets)'
    BY <2>7 DEF RunStepBreaks, Yielded, durable, memory, tick, system
  <2>8. ASSUME NEW a \in AttemptIds, OrphanExit(a) PROVE (MapNamesLive /\ DoneIsQuiet /\ FinishIsBusy /\ DownForgets)'
    BY <2>8 DEF OrphanExit, durable, memory, tick, system
  <2> QED
    BY <1>6, <2>1, <2>2, <2>3, <2>4, <2>5, <2>6, <2>7, <2>8 DEF Process
<1>7. CASE UNCHANGED vars
  BY <1>7 DEF vars, durable, memory, tick, system
<1> QED
  BY <1>1, <1>2, <1>3, <1>4, <1>5, <1>6, <1>7 DEF Next

\* Only these actions move the tick or make an attempt live while it moves.
LEMMA TickStep == SafeInv /\ [Next]_vars => (SnapshotQuiet /\ TickPlaced)'
<1> SUFFICES ASSUME SafeInv, [Next]_vars PROVE (SnapshotQuiet /\ TickPlaced)'
  OBVIOUS
<1> USE NoneAssumption, StructureAssumption
    DEF SafeInv, TypeOK, SnapshotQuiet, TickPlaced, Quiet, LiveStates
<1>1. CASE FinishCommit
  <2>1. /\ fin.step \in Steps
        /\ astate' = [astate EXCEPT ![cur[fin.step]] = FinishedAttempt(fin.step)]
        /\ UNCHANGED <<owner, tick>>
    BY <1>1 DEF FinishCommit
  <2>2. FinishedAttempt(fin.step) \notin LiveStates
    BY DEF FinishedAttempt, FinishedState
  <2> QED
    BY <2>1, <2>2 DEF tick
<1>2. ASSUME NEW s \in Steps, Invocation(s) PROVE (SnapshotQuiet /\ TickPlaced)'
  <2>1. CASE Claim(s)
    BY <2>1 DEF Claim, durable, memory, tick, system
  <2>2. CASE PrepareFails(s)
    BY <2>2 DEF PrepareFails, durable, memory, tick, system
  <2>3. CASE Launch(s)
    BY <2>3 DEF Launch, durable, memory, tick, system
  <2>4. CASE RecordPid(s)
    BY <2>4 DEF RecordPid, durable, memory, tick, system
  <2>5. ASSUME NEW o \in Outcomes, Exit(s, o) PROVE (SnapshotQuiet /\ TickPlaced)'
    BY <2>5 DEF Exit, durable, memory, tick, system
  <2>6. CASE FinishRead(s)
    BY <2>6 DEF FinishRead, durable, memory, tick, system
  <2>7. CASE Dropped(s)
    BY <2>7 DEF Dropped, durable, memory, tick, system
  <2> QED
    BY <1>2, <2>1, <2>2, <2>3, <2>4, <2>5, <2>6, <2>7 DEF Invocation, Outcomes
<1>3. CASE Tick
  <2>1. CASE TickBegin
    BY <2>1 DEF TickBegin, durable, memory, tick, system
  <2>2. CASE TickTasks
    BY <2>2 DEF TickTasks, TickAt, durable, memory, tick, system
  <2>3. CASE TickEnd
    BY <2>3 DEF TickEnd, TickAt, durable, memory, tick, system
  <2>4. ASSUME NEW s \in Steps, ReapRead(s) PROVE (SnapshotQuiet /\ TickPlaced)'
    BY <2>4 DEF ReapRead, durable, memory, tick, system
  <2>5. ASSUME NEW s \in Steps, Release(s) PROVE (SnapshotQuiet /\ TickPlaced)'
    BY <2>5 DEF Release, durable, memory, tick, system
  <2>6. ASSUME NEW s \in Steps, Hold(s) PROVE (SnapshotQuiet /\ TickPlaced)'
    BY <2>6 DEF Hold, durable, memory, tick, system
  <2>7. ASSUME NEW s \in Steps, Select(s) PROVE (SnapshotQuiet /\ TickPlaced)'
    BY <2>7 DEF Select, durable, memory, tick, system
  <2>8. ASSUME NEW t \in Tasks, SettleRead(t) PROVE (SnapshotQuiet /\ TickPlaced)'
    BY <2>8 DEF SettleRead, Snapshot, RowsOwned, LivePinned, durable, memory, tick, system
  <2>9. CASE SettleWrite
    BY <2>9 DEF SettleWrite, durable, memory, tick, system
  <2>10. CASE ReadyRead
    BY <2>10 DEF ReadyRead, Snapshot, TickAt, RowsOwned, LivePinned, durable, memory, tick,
         system
  <2>11. CASE ReadyWrite
    BY <2>11 DEF ReadyWrite, durable, memory, tick, system
  <2>12. CASE DispatchEnd
    BY <2>12 DEF DispatchEnd, TickAt, durable, memory, tick, system
  <2>13. CASE Begin
    BY <2>13 DEF Begin, TickAt, durable, memory, tick, system
  <2>14. CASE BeginRefused
    BY <2>14 DEF BeginRefused, Forget, TickAt, durable, memory, tick, system
  <2> QED
    BY <1>3, <2>1, <2>2, <2>3, <2>4, <2>5, <2>6, <2>7, <2>8, <2>9, <2>10, <2>11, <2>12, <2>13,
         <2>14 DEF Tick
<1>4. CASE TickHeld
  BY <1>4 DEF TickHeld, TickAt, durable, memory, tick, system
<1>5. CASE Request
  <2>1. ASSUME NEW t \in Tasks, Cancel(t) PROVE (SnapshotQuiet /\ TickPlaced)'
    BY <2>1 DEF Cancel, durable, memory, tick, system
  <2>2. ASSUME NEW t \in Tasks, Resume(t) PROVE (SnapshotQuiet /\ TickPlaced)'
    BY <2>2 DEF Resume, durable, memory, tick, system
  <2>3. ASSUME NEW s \in Steps, AddStep(s) PROVE (SnapshotQuiet /\ TickPlaced)'
    BY <2>3 DEF AddStep, durable, memory, tick, system
  <2>4. ASSUME NEW s \in Steps, Ask(s) PROVE (SnapshotQuiet /\ TickPlaced)'
    BY <2>4 DEF Ask, durable, memory, tick, system
  <2>5. ASSUME NEW s \in Steps, Answer(s) PROVE (SnapshotQuiet /\ TickPlaced)'
    BY <2>5 DEF Answer, durable, memory, tick, system
  <2>6. ASSUME NEW s \in Steps, Reconcile(s) PROVE (SnapshotQuiet /\ TickPlaced)'
    BY <2>6 DEF Reconcile, UncertainOf, AttemptsOf, durable, memory, tick, system
  <2>7. ASSUME NEW s \in Steps, ReleaseCheck(s) PROVE (SnapshotQuiet /\ TickPlaced)'
    BY <2>7 DEF ReleaseCheck, durable, memory, tick, system
  <2>8. ASSUME NEW s \in Steps, ReleaseDelete(s) PROVE (SnapshotQuiet /\ TickPlaced)'
    BY <2>8 DEF ReleaseDelete, durable, memory, tick, system
  <2>9. ASSUME NEW s \in Steps, NEW v \in {"idle", "working", "blocked", "stopped"}, SetWorkerStatus(s, v) PROVE (SnapshotQuiet /\ TickPlaced)'
    BY <2>9 DEF SetWorkerStatus, durable, memory, tick, system
  <2>10. CASE RevokeAccount
    BY <2>10 DEF RevokeAccount, durable, memory, tick, system
  <2>11. CASE GrantAccount
    BY <2>11 DEF GrantAccount, durable, memory, tick, system
  <2> QED
    BY <1>5, <2>1, <2>2, <2>3, <2>4, <2>5, <2>6, <2>7, <2>8, <2>9, <2>10, <2>11 DEF Request
<1>6. CASE Process
  <2>1. CASE Crash
    BY <2>1 DEF Crash, Forget, TickAt, durable, memory, tick, system
  <2>2. CASE Start
    BY <2>2 DEF Start, durable, memory, tick, system
  <2>3. CASE StopBegin
    BY <2>3 DEF StopBegin, durable, memory, tick, system
  <2>4. CASE StopEnd
    BY <2>4 DEF StopEnd, Forget, TickAt, durable, memory, tick, system
  <2>5. ASSUME NEW s \in Steps, StopRead(s) PROVE (SnapshotQuiet /\ TickPlaced)'
    BY <2>5 DEF StopRead, durable, memory, tick, system
  <2>6. ASSUME NEW s \in Steps, StopSkip(s) PROVE (SnapshotQuiet /\ TickPlaced)'
    BY <2>6 DEF StopSkip, durable, memory, tick, system
  <2>7. ASSUME NEW s \in Steps, RunStepBreaks(s) PROVE (SnapshotQuiet /\ TickPlaced)'
    BY <2>7 DEF RunStepBreaks, durable, memory, tick, system
  <2>8. ASSUME NEW a \in AttemptIds, OrphanExit(a) PROVE (SnapshotQuiet /\ TickPlaced)'
    BY <2>8 DEF OrphanExit, durable, memory, tick, system
  <2> QED
    BY <1>6, <2>1, <2>2, <2>3, <2>4, <2>5, <2>6, <2>7, <2>8 DEF Process
<1>7. CASE UNCHANGED vars
  BY <1>7 DEF vars, durable, memory, tick, system
<1> QED
  BY <1>1, <1>2, <1>3, <1>4, <1>5, <1>6, <1>7 DEF Next

\* The first state satisfies the inductive invariant.
LEMMA SafeInit == Init => SafeInv
<1> SUFFICES ASSUME Init PROVE SafeInv
  OBVIOUS
<1>1. TypeOK
  BY TypeInit
<1>2. RowsOwned /\ LivePinned /\ LiveUnique
  BY <1>1 DEF Init, RowsOwned, LivePinned, LiveUnique, LiveStates
<1>3. MapNamesLive /\ DoneIsQuiet /\ FinishIsBusy /\ DownForgets /\ SnapshotQuiet /\ TickPlaced
  BY <1>1 DEF Init, MapNamesLive, DoneIsQuiet, FinishIsBusy, DownForgets, SnapshotQuiet,
     TickPlaced, Busy, Unfinished, NoFin
<1> QED
  BY <1>1, <1>2, <1>3 DEF SafeInv

\* Every action preserves the inductive invariant: the parts proved above, put together.
LEMMA SafeStep == SafeInv /\ [Next]_vars => SafeInv'
  BY TypeStep, AttemptStep, MapStep, TickStep DEF SafeInv

\* SafeInv is an invariant of the scheduler.
THEOREM SafetyInvariant == Spec => []SafeInv
  BY SafeInit, SafeStep, PTL DEF Spec

\* Type correctness.
THEOREM TypeCorrect == Spec => []TypeOK
<1>1. SafeInv => TypeOK
  BY DEF SafeInv
<1> QED
  BY <1>1, SafetyInvariant, PTL

\* No step is ever dispatched while an earlier attempt of it is running or
\* uncertain (begin's guarded UPDATE, with every RPC that resets a step).
THEOREM OneLive == Spec => []OneLiveAttempt
<1>1. SafeInv => OneLiveAttempt
  BY DEF SafeInv, LiveUnique, OneLiveAttempt, Live, AttemptsOf
<1> QED
  BY <1>1, SafetyInvariant, PTL

\* The reap pass never meets the error of release_step.
THEOREM ReleaseSafe == Spec => []ReleaseNeverRefused
<1>1. SafeInv => ReleaseNeverRefused
  BY DEF SafeInv, DoneIsQuiet, Quiet, ReleaseNeverRefused, Live, AttemptsOf
<1> QED
  BY <1>1, SafetyInvariant, PTL
-----------------------------------------------------------------------------
(* A step that waits can be reached by an answer. finish_ref decides that  *)
(* the step waits from a reading made before its transaction; the answer   *)
(* that overtakes it leaves the mark the transaction looks for.            *)

WaitInv ==
  /\ NoStrandedWait
  /\ fin.step # None /\ fin.outcome = "waiting" => fin.step \in asked \cup answered

\* No action leaves a step waiting without an open question: finish_ref's stale
\* reading is repaired by the answered mark its own transaction reads.
LEMMA WaitStep == SafeInv /\ WaitInv /\ [Next]_vars => WaitInv'
<1> SUFFICES ASSUME TypeOK, WaitInv, [Next]_vars PROVE WaitInv'
  BY DEF SafeInv
<1> USE NoneAssumption, StructureAssumption DEF TypeOK, WaitInv, NoStrandedWait
<1>1. CASE FinishCommit
  <2>1. /\ fin.step \in Steps /\ fin' = NoFin
        /\ state' = [state EXCEPT ![fin.step] =
                       IF Requeued(fin.step) THEN "pending" ELSE FinishedState(fin.step)]
        /\ asked' = asked
    BY <1>1 DEF FinishCommit
  <2>2. FinishedState(fin.step) = "waiting" => fin.outcome = "waiting"
    BY DEF FinishedState
  <2>3. FinishedState(fin.step) = "waiting" /\ ~Requeued(fin.step) => fin.step \in asked
    BY <2>1, <2>2 DEF Requeued
  <2> QED
    BY <2>1, <2>3 DEF NoFin
<1>2. ASSUME NEW s \in Steps, Invocation(s) PROVE WaitInv'
  <2>1. CASE Claim(s)
    BY <2>1 DEF Claim, durable, memory, tick, system
  <2>2. CASE PrepareFails(s)
    BY <2>2 DEF PrepareFails, durable, memory, tick, system
  <2>3. CASE Launch(s)
    BY <2>3 DEF Launch, durable, memory, tick, system
  <2>4. CASE RecordPid(s)
    BY <2>4 DEF RecordPid, durable, memory, tick, system
  <2>5. ASSUME NEW o \in Outcomes, Exit(s, o) PROVE WaitInv'
    BY <2>5 DEF Exit, durable, memory, tick, system
  <2>6. CASE FinishRead(s)
    BY <2>6 DEF FinishRead, Outcomes, durable, memory, tick, system
  <2>7. CASE Dropped(s)
    BY <2>7 DEF Dropped, durable, memory, tick, system
  <2> QED
    BY <1>2, <2>1, <2>2, <2>3, <2>4, <2>5, <2>6, <2>7 DEF Invocation, Outcomes
<1>3. CASE Tick
  <2>1. CASE TickBegin
    BY <2>1 DEF TickBegin, durable, memory, tick, system
  <2>2. CASE TickTasks
    BY <2>2 DEF TickTasks, durable, memory, tick, system
  <2>3. CASE TickEnd
    BY <2>3 DEF TickEnd, durable, memory, tick, system
  <2>4. ASSUME NEW s \in Steps, ReapRead(s) PROVE WaitInv'
    BY <2>4 DEF ReapRead, durable, memory, tick, system
  <2>5. ASSUME NEW s \in Steps, Release(s) PROVE WaitInv'
    BY <2>5 DEF Release, durable, memory, tick, system
  <2>6. ASSUME NEW s \in Steps, Hold(s) PROVE WaitInv'
    BY <2>6 DEF Hold, durable, memory, tick, system
  <2>7. ASSUME NEW s \in Steps, Select(s) PROVE WaitInv'
    BY <2>7 DEF Select, durable, memory, tick, system
  <2>8. ASSUME NEW t \in Tasks, SettleRead(t) PROVE WaitInv'
    BY <2>8 DEF SettleRead, durable, memory, tick, system
  <2>9. CASE SettleWrite
    BY <2>9 DEF SettleWrite, durable, memory, tick, system
  <2>10. CASE ReadyRead
    BY <2>10 DEF ReadyRead, durable, memory, tick, system
  <2>11. CASE ReadyWrite
    BY <2>11 DEF ReadyWrite, durable, memory, tick, system
  <2>12. CASE DispatchEnd
    BY <2>12 DEF DispatchEnd, durable, memory, tick, system
  <2>13. CASE Begin
    BY <2>13 DEF Begin, durable, memory, tick, system
  <2>14. CASE BeginRefused
    BY <2>14 DEF BeginRefused, Forget, NoFin, durable, memory, tick, system
  <2> QED
    BY <1>3, <2>1, <2>2, <2>3, <2>4, <2>5, <2>6, <2>7, <2>8, <2>9, <2>10, <2>11, <2>12, <2>13,
         <2>14 DEF Tick
<1>4. CASE TickHeld
  BY <1>4 DEF TickHeld, durable, memory, tick, system
<1>5. CASE Request
  <2>1. ASSUME NEW t \in Tasks, Cancel(t) PROVE WaitInv'
    BY <2>1 DEF Cancel, durable, memory, tick, system
  <2>2. ASSUME NEW t \in Tasks, Resume(t) PROVE WaitInv'
    BY <2>2 DEF Resume, durable, memory, tick, system
  <2>3. ASSUME NEW s \in Steps, AddStep(s) PROVE WaitInv'
    BY <2>3 DEF AddStep, durable, memory, tick, system
  <2>4. ASSUME NEW s \in Steps, Ask(s) PROVE WaitInv'
    BY <2>4 DEF Ask, durable, memory, tick, system
  <2>5. ASSUME NEW s \in Steps, Answer(s) PROVE WaitInv'
    BY <2>5 DEF Answer, durable, memory, tick, system
  <2>6. ASSUME NEW s \in Steps, Reconcile(s) PROVE WaitInv'
    BY <2>6 DEF Reconcile, durable, memory, tick, system
  <2>7. ASSUME NEW s \in Steps, ReleaseCheck(s) PROVE WaitInv'
    BY <2>7 DEF ReleaseCheck, durable, memory, tick, system
  <2>8. ASSUME NEW s \in Steps, ReleaseDelete(s) PROVE WaitInv'
    BY <2>8 DEF ReleaseDelete, durable, memory, tick, system
  <2>9. ASSUME NEW s \in Steps, NEW v \in {"idle", "working", "blocked", "stopped"}, SetWorkerStatus(s, v) PROVE WaitInv'
    BY <2>9 DEF SetWorkerStatus, durable, memory, tick, system
  <2>10. CASE RevokeAccount
    BY <2>10 DEF RevokeAccount, durable, memory, tick, system
  <2>11. CASE GrantAccount
    BY <2>11 DEF GrantAccount, durable, memory, tick, system
  <2> QED
    BY <1>5, <2>1, <2>2, <2>3, <2>4, <2>5, <2>6, <2>7, <2>8, <2>9, <2>10, <2>11 DEF Request
<1>6. CASE Process
  <2>1. CASE Crash
    BY <2>1 DEF Crash, Forget, NoFin, durable, memory, tick, system
  <2>2. CASE Start
    BY <2>2 DEF Start, durable, memory, tick, system
  <2>3. CASE StopBegin
    BY <2>3 DEF StopBegin, durable, memory, tick, system
  <2>4. CASE StopEnd
    BY <2>4 DEF StopEnd, Forget, NoFin, durable, memory, tick, system
  <2>5. ASSUME NEW s \in Steps, StopRead(s) PROVE WaitInv'
    BY <2>5 DEF StopRead, durable, memory, tick, system
  <2>6. ASSUME NEW s \in Steps, StopSkip(s) PROVE WaitInv'
    BY <2>6 DEF StopSkip, durable, memory, tick, system
  <2>7. ASSUME NEW s \in Steps, RunStepBreaks(s) PROVE WaitInv'
    BY <2>7 DEF RunStepBreaks, durable, memory, tick, system
  <2>8. ASSUME NEW a \in AttemptIds, OrphanExit(a) PROVE WaitInv'
    BY <2>8 DEF OrphanExit, durable, memory, tick, system
  <2> QED
    BY <1>6, <2>1, <2>2, <2>3, <2>4, <2>5, <2>6, <2>7, <2>8 DEF Process
<1>7. CASE UNCHANGED vars
  BY <1>7 DEF vars, durable, memory, tick, system
<1> QED
  BY <1>1, <1>2, <1>3, <1>4, <1>5, <1>6, <1>7 DEF Next

\* A waiting step always has an open question.
THEOREM WaitReachable == Spec => []NoStrandedWait
<1>1. Init => WaitInv
  BY DEF Init, WaitInv, NoStrandedWait, NoFin
<1>2. WaitInv => NoStrandedWait
  BY DEF WaitInv
<1> QED
  BY <1>1, <1>2, WaitStep, SafetyInvariant, PTL DEF Spec
-----------------------------------------------------------------------------
(* The ceilings. Only begin makes an attempt live or takes a reservation,  *)
(* and its transaction counts again what dispatch counted before.          *)

\* Reserved covers every coding step with a live attempt.
LiveReserved ==
  \A a \in AttemptIds : astate[a] \in LiveStates /\ owner[a] \in Agents =>
    resv[owner[a]] \in {"active", "revoked"}

CeilingInv ==
  /\ Cardinality(HostActive) <= HostLimit
  /\ Cardinality(Reserved) <= AccountLimit
  /\ LiveReserved

\* Rows that leave the live states leave the count no larger.
LEMMA HostShrinks ==
  ASSUME Cardinality(HostActive) <= HostLimit, HostActive' \subseteq HostActive
  PROVE  Cardinality(HostActive') <= HostLimit
<1>1. IsFiniteSet(HostActive)
  BY BoundAssumption, FS_Subset DEF HostActive
<1> QED
  BY <1>1, BoundAssumption, FS_Subset, FS_CardinalityType

\* A reservation that is given up leaves the count no larger.
LEMMA ReservedShrinks ==
  ASSUME Cardinality(Reserved) <= AccountLimit, Reserved' \subseteq Reserved
  PROVE  Cardinality(Reserved') <= AccountLimit
<1>1. IsFiniteSet(Reserved)
  BY StructureAssumption, FS_Subset DEF Reserved
<1> QED
  BY <1>1, BoundAssumption, FS_Subset, FS_CardinalityType

\* begin is the only action that adds to a count, and it re-reads both limits
\* inside its transaction.
LEMMA CeilingBegin == SafeInv /\ CeilingInv /\ Begin => CeilingInv'
<1> SUFFICES ASSUME SafeInv, CeilingInv, Begin PROVE CeilingInv'
  OBVIOUS
<1> USE NoneAssumption, StructureAssumption, BoundAssumption
<1>1. PICK a \in Fresh : /\ owner' = [owner EXCEPT ![a] = sel]
                         /\ astate' = [astate EXCEPT ![a] = "running"]
  BY DEF Begin
<1>2. /\ a \in AttemptIds /\ astate[a] = "unused" /\ sel \in Steps
      /\ resv' = IF sel \in Agents THEN [resv EXCEPT ![sel] = "active"] ELSE resv
      /\ Reservable(sel) /\ Cardinality(HostActive) < HostLimit
  BY DEF Begin, Fresh, SafeInv, TickPlaced
<1>3. IsFiniteSet(HostActive) /\ IsFiniteSet(Reserved)
  BY FS_Subset DEF HostActive, Reserved
<1>4. Cardinality(HostActive') <= HostLimit
  <2>1. HostActive' = HostActive \cup {a} /\ a \notin HostActive
    BY <1>1, <1>2 DEF HostActive, LiveStates, SafeInv, TypeOK
  <2>2. Cardinality(HostActive') = Cardinality(HostActive) + 1
    BY <2>1, <1>3, FS_AddElement
  <2> QED
    BY <2>2, <1>2, <1>3, FS_CardinalityType
<1>5. Cardinality(Reserved') <= AccountLimit
  <2>1. CASE sel \in Reserved \/ sel \notin Agents
    <3>1. Reserved' = Reserved
      BY <2>1, <1>2 DEF Reserved, SafeInv, TypeOK
    <3> QED
      BY <3>1 DEF CeilingInv
  <2>2. CASE sel \notin Reserved /\ sel \in Agents
    <3>1. Cardinality(Reserved) < AccountLimit
      BY <2>2, <1>2 DEF Reservable, Reserved
    <3>2. Reserved' = Reserved \cup {sel}
      BY <2>2, <1>2 DEF Reserved, SafeInv, TypeOK
    <3>3. Cardinality(Reserved') = Cardinality(Reserved) + 1
      BY <3>2, <2>2, <1>3, FS_AddElement
    <3> QED
      BY <3>1, <3>3, <1>3, FS_CardinalityType
  <2> QED
    BY <2>1, <2>2
<1>6. LiveReserved'
  BY <1>1, <1>2 DEF LiveReserved, CeilingInv, SafeInv, TypeOK, RowsOwned, LiveStates
<1> QED
  BY <1>4, <1>5, <1>6 DEF CeilingInv

\* Apart from begin, no action makes an attempt live.
LEMMA NoNewLive ==
  ASSUME SafeInv, Next, ~Begin
  PROVE  /\ owner' = owner
         /\ \A a \in AttemptIds : astate'[a] \in LiveStates => astate[a] \in LiveStates
<1> USE DEF SafeInv, TypeOK, LiveStates
<1>1. CASE FinishCommit
  <2>1. /\ fin.step \in Steps /\ owner' = owner
        /\ astate' = [astate EXCEPT ![cur[fin.step]] = FinishedAttempt(fin.step)]
    BY <1>1 DEF FinishCommit
  <2>2. FinishedAttempt(fin.step) \notin LiveStates
    BY DEF FinishedAttempt, FinishedState
  <2> QED
    BY <2>1, <2>2
<1>2. CASE Start
  BY <1>2 DEF Start
<1>3. CASE SettleWrite \/ ReadyWrite \/ \E t \in Tasks : Cancel(t) \/ Resume(t)
  BY <1>3 DEF SettleWrite, ReadyWrite, Cancel, Resume
<1>4. CASE \E s \in Steps : AddStep(s) \/ Answer(s) \/ Reconcile(s)
  BY <1>4 DEF AddStep, Answer, Reconcile, UncertainOf, AttemptsOf
<1> QED
  BY <1>1, <1>2, <1>3, <1>4, TableChanges

\* The actions that touch a reservation.
LEMMA ReservationChanges ==
  ASSUME Next
  PROVE  \/ Begin \/ RevokeAccount
         \/ \E s \in Steps : Release(s) \/ Reconcile(s)
         \/ resv' = resv
<1>1. FinishCommit => resv' = resv
  BY DEF FinishCommit
<1>2. ASSUME NEW s \in Steps, Invocation(s) PROVE resv' = resv
  BY <1>2 DEF Invocation, Claim, PrepareFails, Launch, RecordPid, Exit, FinishRead, Dropped,
     durable
<1>3. Tick => Begin \/ (\E s \in Steps : Release(s)) \/ resv' = resv
  BY DEF Tick, TickBegin, TickTasks, TickEnd, ReapRead, Hold, Select, SettleRead, SettleWrite,
     ReadyRead, ReadyWrite, DispatchEnd, BeginRefused, durable
<1>4. TickHeld => resv' = resv
  BY DEF TickHeld, durable
<1>5. Request => RevokeAccount \/ (\E s \in Steps : Reconcile(s)) \/ resv' = resv
  BY DEF Request, Cancel, Resume, AddStep, Ask, Answer, ReleaseCheck, ReleaseDelete,
     SetWorkerStatus, GrantAccount, durable
<1>6. Process => resv' = resv
  BY DEF Process, Crash, Start, StopBegin, StopEnd, StopRead, StopSkip, RunStepBreaks,
     OrphanExit, durable
<1> QED
  BY <1>1, <1>2, <1>3, <1>4, <1>5, <1>6 DEF Next

\* Every action keeps both counts within their limits.
LEMMA CeilingStep == SafeInv /\ CeilingInv /\ [Next]_vars => CeilingInv'
<1> SUFFICES ASSUME SafeInv, CeilingInv, [Next]_vars PROVE CeilingInv'
  OBVIOUS
<1>1. CASE Begin
  BY <1>1, CeilingBegin
<1>2. CASE Next /\ ~Begin
  <2>1. HostActive' \subseteq HostActive
    BY <1>2, NoNewLive DEF HostActive
  <2>2. Reserved' \subseteq Reserved /\ LiveReserved'
    <3> USE <1>2, NoNewLive, StructureAssumption
        DEF CeilingInv, LiveReserved, Reserved, SafeInv, TypeOK, LiveStates
    <3>1. CASE RevokeAccount
      BY <3>1 DEF RevokeAccount
    <3>2. ASSUME NEW s \in Steps, Release(s) PROVE Reserved' \subseteq Reserved /\ LiveReserved'
      BY <3>2 DEF Release, Live, AttemptsOf
    <3>3. ASSUME NEW s \in Steps, Reconcile(s) PROVE Reserved' \subseteq Reserved /\ LiveReserved'
      BY <3>3 DEF Reconcile, UncertainOf, AttemptsOf
    <3>4. CASE resv' = resv
      BY <3>4
    <3> QED
      BY <3>1, <3>2, <3>3, <3>4, ReservationChanges
  <2> QED
    BY <2>1, <2>2, HostShrinks, ReservedShrinks DEF CeilingInv
<1>3. CASE UNCHANGED vars
  <2>1. UNCHANGED <<owner, astate, resv>>
    BY <1>3 DEF vars, durable
  <2>2. HostActive' = HostActive /\ Reserved' = Reserved /\ (LiveReserved <=> LiveReserved')
    BY <2>1 DEF HostActive, Reserved, LiveReserved
  <2> QED
    BY <2>2 DEF CeilingInv
<1> QED
  BY <1>1, <1>2, <1>3

\* Host and account counts stay within their limits in every reachable state.
THEOREM CeilingInvariant == Spec => []CeilingInv
<1>1. Init => CeilingInv
  <2> SUFFICES ASSUME Init PROVE CeilingInv
    OBVIOUS
  <2>1. HostActive = {} /\ Reserved = {} /\ LiveReserved
    BY DEF Init, HostActive, Reserved, LiveReserved, LiveStates
  <2> QED
    BY <2>1, FS_EmptySet, BoundAssumption DEF CeilingInv
<1> QED
  BY <1>1, CeilingStep, SafetyInvariant, PTL DEF Spec

\* The daemon's ceiling holds over running and uncertain attempts together.
THEOREM HostBounded == Spec => []HostCeiling
<1>1. CeilingInv => HostCeiling
  BY DEF CeilingInv, HostCeiling, HostActive
<1> QED
  BY <1>1, CeilingInvariant, PTL

\* The account is never used by more coding steps than it allows, although a
\* revoked grant, a crash or a reconciliation may free its reservations.
THEOREM AccountBounded == Spec => []AccountCeiling
<1>1. CeilingInv => AccountCeiling
  <2> SUFFICES ASSUME CeilingInv PROVE AccountCeiling
    OBVIOUS
  <2>1. {s \in Agents : Live(s) # {}} \subseteq Reserved
    BY StructureAssumption DEF CeilingInv, LiveReserved, Live, AttemptsOf, Reserved
  <2>2. IsFiniteSet(Reserved)
    BY StructureAssumption, FS_Subset DEF Reserved
  <2>3. /\ Cardinality({s \in Agents : Live(s) # {}}) \in Nat
        /\ Cardinality({s \in Agents : Live(s) # {}}) <= Cardinality(Reserved)
    BY <2>1, <2>2, FS_Subset, FS_CardinalityType
  <2> QED
    BY <2>2, <2>3, FS_CardinalityType, BoundAssumption DEF CeilingInv, AccountCeiling
<1> QED
  BY <1>1, CeilingInvariant, PTL
-----------------------------------------------------------------------------
(* What a step may never do.                                               *)

\* Only reconciliation settles an uncertain attempt, and never while the
\* process recorded for it exists.
THEOREM UncertainKept == Spec => UncertainNeedsReconcile
<1> DEFINE A == \A a \in AttemptIds : astate[a] = "uncertain" =>
                  \/ astate'[a] = "uncertain"
                  \/ astate'[a] = "interrupted" /\ a \notin alive \cap recorded
<1>1. SafeInv /\ [Next]_vars => [A]_vars
  <2> SUFFICES ASSUME SafeInv, Next PROVE A
    OBVIOUS
  <2> USE DEF SafeInv, TypeOK
  <2>1. CASE FinishCommit
    BY <2>1, NoneAssumption DEF FinishCommit, FinishIsBusy, MapNamesLive
  <2>2. CASE Begin
    BY <2>2 DEF Begin, Fresh
  <2>3. CASE Start
    BY <2>3 DEF Start
  <2>4. CASE SettleWrite \/ ReadyWrite \/ \E t \in Tasks : Cancel(t) \/ Resume(t)
    BY <2>4 DEF SettleWrite, ReadyWrite, Cancel, Resume
  <2>5. CASE \E s \in Steps : AddStep(s) \/ Answer(s) \/ Reconcile(s)
    BY <2>5 DEF AddStep, Answer, Reconcile, StillExists, UncertainOf, AttemptsOf
  <2> QED
    BY <2>1, <2>2, <2>3, <2>4, <2>5, TableChanges
<1> QED
  BY <1>1, SafetyInvariant, PTL DEF Spec, UncertainNeedsReconcile

\* Cancellation wins over whatever the invocation returns.
THEOREM CancelRecorded == Spec => CancelWins
<1> DEFINE A == \A a \in AttemptIds :
                  astate[a] = "running" /\ astate'[a] # "running" /\ state[owner[a]] = "cancelled"
                    => astate'[a] \in {"cancelled", "uncertain"}
<1>1. SafeInv /\ [Next]_vars => [A]_vars
  <2> SUFFICES ASSUME SafeInv, Next PROVE A
    OBVIOUS
  <2> USE DEF SafeInv, TypeOK
  <2>1. CASE FinishCommit
    <3>1. /\ fin.step \in Steps /\ owner[cur[fin.step]] = fin.step
          /\ astate' = [astate EXCEPT ![cur[fin.step]] = FinishedAttempt(fin.step)]
      BY <2>1, NoneAssumption DEF FinishCommit, FinishIsBusy, MapNamesLive
    <3>2. state[fin.step] = "cancelled" => FinishedAttempt(fin.step) = "cancelled"
      BY DEF FinishedAttempt, FinishedState
    <3> QED
      BY <3>1, <3>2
  <2>2. CASE Begin
    BY <2>2 DEF Begin, Fresh
  <2>3. CASE Start
    BY <2>3 DEF Start
  <2>4. CASE SettleWrite \/ ReadyWrite \/ \E t \in Tasks : Cancel(t) \/ Resume(t)
    BY <2>4 DEF SettleWrite, ReadyWrite, Cancel, Resume
  <2>5. CASE \E s \in Steps : AddStep(s) \/ Answer(s) \/ Reconcile(s)
    BY <2>5 DEF AddStep, Answer, Reconcile, UncertainOf, AttemptsOf
  <2> QED
    BY <2>1, <2>2, <2>3, <2>4, <2>5, TableChanges
<1> QED
  BY <1>1, SafetyInvariant, PTL DEF Spec, CancelWins
=============================================================================
