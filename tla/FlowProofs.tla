----------------------------- MODULE FlowProofs -----------------------------
(***************************************************************************)
(* What the tick may rely on between two statements. Its snapshots and its *)
(* list of rows to dispatch are old when they are used: an operator may    *)
(* have cancelled or resumed the task, or added a step, and an invocation  *)
(* may have ended. SafetyInvariant says that no attempt is live where the  *)
(* tick believes there is none. Here we prove what follows from it:        *)
(* exclusive steps run alone and finished tasks are quiet, for every plan  *)
(* and every request; and, for the instances that exclude the requests     *)
(* which are allowed to break them, that dependencies come first, that     *)
(* retries are bounded, and that a scope has one writer.                   *)
(***************************************************************************)
EXTENDS SchedulerProofs

\* recover puts the step of every attempt it interrupts out of "running".
RunningPinned ==
  \A a \in AttemptIds : astate[a] = "running" => state[owner[a]] \in {"running", "cancelled"}

UncertainPinned ==
  \A a \in AttemptIds : astate[a] = "uncertain" => state[owner[a]] \in {"uncertain", "cancelled"}

\* While the daemon serves, a running attempt is in its running map.
RunningMapped ==
  daemon \in {"up", "stopping"} =>
    \A a \in AttemptIds : astate[a] = "running" => phase[owner[a]] \in Busy

\* The tick is between two statements only while the daemon is up.
TickUp == pc # "idle" => daemon = "up"

\* A step that is cancelled under a live attempt belongs to a cancelled task.
CancelledLive ==
  \A a \in AttemptIds : astate[a] \in LiveStates /\ state[owner[a]] = "cancelled" =>
    status[TaskOf[owner[a]]] = "cancelled"

FinishedQuiet ==
  \A a \in AttemptIds : astate[a] \in LiveStates =>
    status[TaskOf[owner[a]]] \notin {"succeeded", "failed"}

\* settle finds a task finished only if the snapshot it read has no live step.
SettleQuiet ==
  pc = "settle" /\ status[task] = "running" =>
    \A a \in AttemptIds : astate[a] \in LiveStates /\ TaskOf[owner[a]] = task =>
      snap[owner[a]] \notin Terminal \cup {"absent"}

\* A row the tick is about to dispatch can have been cancelled, nothing else.
Planned(s) ==
  /\ TaskOf[s] = task /\ Quiet(s)
  /\ state[s] \in {"pending", "cancelled"}
  /\ status[task] = "cancelled" => state[s] = "cancelled"

PlanHolds ==
  /\ pc \in {"ready", "dispatch", "begin"} => status[task] \notin {"succeeded", "failed"}
  /\ pc = "ready" => \A s \in Steps : snap[s] = "pending" => Planned(s)
  /\ pc \in {"dispatch", "begin"} => \A s \in todo : Planned(s)
  /\ pc = "begin" => Planned(sel)

BeginAlone ==
  pc = "begin" => ~ExclusiveActive /\ (sel \in Exclusive => Active(task) = {})

\* ExclusiveAlone, also for invocations that are being aborted.
BusyAlone ==
  \A s \in Exclusive : \A u \in StepsOf(TaskOf[s]) \ {s} : ~(phase[s] \in Busy /\ phase[u] \in Busy)

\* The write-claim block of the tick sets a task to "blocked" whatever it was:
\* no attempt is left for which that task would have to stay cancelled.
BlockSafe ==
  pc \in {"ready", "dispatch", "begin"} =>
    \A a \in AttemptIds : astate[a] = "uncertain" /\ TaskOf[owner[a]] = task =>
      state[owner[a]] # "cancelled"

TableFlow == RunningPinned /\ UncertainPinned /\ CancelledLive /\ FinishedQuiet
FlowInv == TableFlow /\ RunningMapped /\ TickUp /\ BlockSafe /\ SettleQuiet /\ PlanHolds /\ BeginAlone /\ BusyAlone

\* The tables and places of the tick that FlowInv speaks of.
tables == <<status, state, owner, astate>>
places == <<pc, task, snap, todo, sel>>
TickResets == pc' \in {"idle", "reap", "tasks"} /\ UNCHANGED tables

\* What an action does to them.
LEMMA FlowChanges ==
  ASSUME Next
  PROVE  \/ FinishCommit \/ SettleWrite \/ ReadyWrite \/ Begin \/ Start
         \/ pc = "settled" /\ pc' = "ready" /\ ReadyRead
         \/ \E t \in Tasks : SettleRead(t) \/ Cancel(t) \/ Resume(t)
         \/ \E s \in Steps : Hold(s) \/ Select(s) \/ AddStep(s) \/ Answer(s) \/ Reconcile(s)
         \/ TickResets
         \/ UNCHANGED <<tables, places>>
<1> USE DEF tables, places, TickResets, TickAt, Forget, durable, tick
<1>1. ASSUME NEW s \in Steps, Invocation(s) PROVE UNCHANGED <<tables, places>>
  BY <1>1 DEF Invocation, Claim, PrepareFails, Launch, RecordPid, Exit, FinishRead, Dropped
<1>2. Tick => \/ SettleWrite \/ ReadyWrite \/ Begin
              \/ pc = "settled" /\ pc' = "ready" /\ ReadyRead
              \/ \E t \in Tasks : SettleRead(t)
              \/ \E s \in Steps : Hold(s) \/ Select(s)
              \/ TickResets \/ UNCHANGED <<tables, places>>
  <2>1. ReadyRead => TickResets \/ (pc = "settled" /\ pc' = "ready" /\ ReadyRead)
    BY DEF ReadyRead
  <2>2. TickBegin \/ TickTasks \/ TickEnd \/ DispatchEnd \/ BeginRefused => TickResets
    BY DEF TickBegin, TickTasks, TickEnd, DispatchEnd, BeginRefused
  <2>3. ASSUME NEW s \in Steps, ReapRead(s) \/ Release(s) PROVE UNCHANGED <<tables, places>>
    BY <2>3 DEF ReapRead, Release
  <2> QED
    BY <2>1, <2>2, <2>3 DEF Tick
<1>3. TickHeld => TickResets
  BY DEF TickHeld
<1>4. Request => \/ \E t \in Tasks : Cancel(t) \/ Resume(t)
                 \/ \E s \in Steps : AddStep(s) \/ Answer(s) \/ Reconcile(s)
                 \/ UNCHANGED <<tables, places>>
  BY DEF Request, Ask, ReleaseCheck, ReleaseDelete, SetWorkerStatus, RevokeAccount, GrantAccount
<1>5. Process => Start \/ TickResets \/ UNCHANGED <<tables, places>>
  BY DEF Process, Crash, StopBegin, StopEnd, StopRead, StopSkip, RunStepBreaks, OrphanExit
<1> QED
  BY <1>1, <1>2, <1>3, <1>4, <1>5 DEF Next

\* The running map grows only where begin spawns an invocation.
LEMMA MapShrinks ==
  ASSUME SafeInv, Next, ~Begin
  PROVE  \A s \in Steps : /\ phase'[s] \in Busy => phase[s] \in Busy
                          /\ phase'[s] # "none" => phase[s] # "none"
<1> USE DEF SafeInv, TypeOK, Busy, Unfinished
<1>1. CASE FinishCommit
  BY <1>1, NoneAssumption DEF FinishCommit, FinishIsBusy
<1>2. ASSUME NEW s \in Steps, Invocation(s)
      PROVE  \A u \in Steps : /\ phase'[u] \in Busy => phase[u] \in Busy
                              /\ phase'[u] # "none" => phase[u] # "none"
  BY <1>2 DEF Invocation, Claim, PrepareFails, Launch, RecordPid, Exit, FinishRead, Dropped
<1>3. CASE Tick
  <2>1. CASE \E s \in Steps : ReapRead(s) \/ Release(s) \/ Hold(s) \/ Select(s)
    BY <2>1 DEF ReapRead, Release, Hold, Select, memory
  <2>2. CASE TickBegin \/ BeginRefused
    BY <2>2 DEF TickBegin, BeginRefused, Forget
  <2>3. CASE \/ TickTasks \/ TickEnd \/ SettleWrite \/ ReadyRead \/ ReadyWrite \/ DispatchEnd
             \/ \E t \in Tasks : SettleRead(t)
    BY <2>3 DEF TickTasks, TickEnd, SettleWrite, ReadyRead, ReadyWrite, DispatchEnd, SettleRead,
       memory
  <2> QED
    BY <1>3, <2>1, <2>2, <2>3 DEF Tick
<1>4. CASE TickHeld
  BY <1>4 DEF TickHeld, memory
<1>5. CASE Request
  BY <1>5 DEF Request, Cancel, Resume, AddStep, Ask, Answer, Reconcile, ReleaseCheck,
     ReleaseDelete, SetWorkerStatus, RevokeAccount, GrantAccount, memory
<1>6. CASE Process
  BY <1>6 DEF Process, Crash, Start, StopBegin, StopEnd, StopRead, StopSkip, RunStepBreaks,
     OrphanExit, Forget, memory
<1> QED
  BY <1>1, <1>2, <1>3, <1>4, <1>5, <1>6 DEF Next

\* What an action does to the running map and to the daemon: an entry that was
\* under way ends with its attempt, or with the daemon.
LEMMA MapEnds ==
  ASSUME SafeInv, TickUp, Next
  PROVE  /\ TickUp'
         /\ daemon' \in {"up", "stopping"} =>
              Start \/ /\ daemon \in {"up", "stopping"}
                       /\ \A s \in Steps : phase[s] \in Busy =>
                            phase'[s] \in Busy \/ (FinishCommit /\ s = fin.step)
<1> DEFINE Kept == /\ daemon \in {"up", "stopping"}
                   /\ \A s \in Steps : phase[s] \in Busy => phase'[s] \in Busy
           Keeps == TickUp' /\ (daemon' \in {"up", "stopping"} => Kept)
<1> USE DEF SafeInv, TypeOK, Busy, Unfinished, TickUp, DownForgets
<1>1. CASE FinishCommit
  BY <1>1, NoneAssumption DEF FinishCommit, tick, system
<1>2. ASSUME NEW s \in Steps, Invocation(s) PROVE Keeps
  BY <1>2 DEF Invocation, Claim, PrepareFails, Launch, RecordPid, Exit, FinishRead, Dropped,
     Yielded, Serving, tick, system
<1>3. CASE Tick
  <2>1. CASE \E s \in Steps : ReapRead(s) \/ Release(s) \/ Hold(s) \/ Select(s)
    BY <2>1 DEF ReapRead, Release, Hold, Select, memory, tick, system
  <2>2. CASE TickBegin \/ BeginRefused
    BY <2>2 DEF TickBegin, BeginRefused, Forget, TickAt, system
  <2>3. CASE \/ TickTasks \/ TickEnd \/ SettleWrite \/ ReadyRead \/ ReadyWrite \/ DispatchEnd
             \/ \E t \in Tasks : SettleRead(t)
    BY <2>3 DEF TickTasks, TickEnd, SettleWrite, ReadyRead, ReadyWrite, DispatchEnd, SettleRead,
       memory, TickAt, system
  <2>4. CASE Begin
    BY <2>4 DEF Begin, TickAt, system
  <2> QED
    BY <1>3, <2>1, <2>2, <2>3, <2>4 DEF Tick
<1>4. CASE TickHeld
  BY <1>4 DEF TickHeld, TickAt, memory, system
<1>5. CASE Request
  BY <1>5 DEF Request, Cancel, Resume, AddStep, Ask, Answer, Reconcile, ReleaseCheck,
     ReleaseDelete, SetWorkerStatus, RevokeAccount, GrantAccount, Serving, memory, tick, system
<1>6. CASE Process
  <2>1. CASE Start
    BY <2>1 DEF Start, tick
  <2>2. CASE Crash \/ StopEnd
    BY <2>2 DEF Crash, StopEnd, Forget, TickAt
  <2>3. CASE StopBegin
    BY <2>3 DEF StopBegin, memory, tick
  <2>4. CASE \E s \in Steps : StopRead(s) \/ StopSkip(s) \/ RunStepBreaks(s)
    BY <2>4 DEF StopRead, StopSkip, RunStepBreaks, Yielded, tick, system
  <2>5. CASE \E a \in AttemptIds : OrphanExit(a)
    BY <2>5 DEF OrphanExit, memory, tick
  <2> QED
    BY <1>6, <2>1, <2>2, <2>3, <2>4, <2>5 DEF Process
<1> QED
  BY <1>1, <1>2, <1>3, <1>4, <1>5, <1>6 DEF Next

\* The tables: a live attempt's step, and its task, say so.
LEMMA TableStep == SafeInv /\ FlowInv /\ [Next]_vars => TableFlow'
<1> SUFFICES ASSUME SafeInv, FlowInv, [Next]_vars PROVE TableFlow'
  OBVIOUS
<1> USE NoneAssumption, StructureAssumption
    DEF SafeInv, TypeOK, RowsOwned, LivePinned, FlowInv, TableFlow, RunningPinned,
        UncertainPinned, CancelledLive, FinishedQuiet, LiveStates
<1>1. CASE FinishCommit
  <2>1. /\ fin.step \in Steps /\ cur[fin.step] \in AttemptIds
        /\ owner[cur[fin.step]] = fin.step /\ astate[cur[fin.step]] = "running"
    BY <1>1 DEF FinishCommit, FinishIsBusy, MapNamesLive
  <2>2. FinishedAttempt(fin.step) \notin LiveStates
    BY DEF FinishedAttempt, FinishedState
  <2>3. /\ astate' = [astate EXCEPT ![cur[fin.step]] = FinishedAttempt(fin.step)]
        /\ owner' = owner
        /\ \A s \in Steps : s # fin.step => state'[s] = state[s]
        /\ \A t \in Tasks : status'[t] = status[t] \/ (status[t] = "running" /\ status'[t] = "blocked")
    BY <1>1, <2>1 DEF FinishCommit
  <2>4. \A a \in AttemptIds : astate'[a] \in LiveStates =>
          astate'[a] = astate[a] /\ owner[a] # fin.step
    BY <2>1, <2>2, <2>3 DEF LiveUnique
  <2> QED
    BY <2>1, <2>3, <2>4
<1>2. CASE SettleWrite
  <2>1. \A a \in AttemptIds : astate[a] \in LiveStates => owner[a] \notin Retriable
    BY <1>2 DEF SettleWrite, Retriable, SnapshotQuiet, Quiet
  <2>2. \A a \in AttemptIds : astate[a] \in LiveStates => state'[owner[a]] = state[owner[a]]
    BY <1>2, <2>1 DEF SettleWrite
  <2>3. /\ owner' = owner /\ astate' = astate
        /\ \A t \in Tasks : status'[t] # status[t] =>
             t = task /\ status[t] = "running" /\ status'[t] \in {"succeeded", "failed"}
                /\ \A s \in Steps : snap[s] \in Terminal \cup {"absent"}
    BY <1>2 DEF SettleWrite, Verdict
  <2>4. \A a \in AttemptIds : astate[a] \in LiveStates =>
          status'[TaskOf[owner[a]]] = status[TaskOf[owner[a]]]
    BY <1>2, <2>3 DEF SettleWrite, SettleQuiet
  <2> QED
    BY <2>2, <2>3, <2>4
<1>3. CASE ReadyWrite
  <2>1. \A a \in AttemptIds : astate[a] \in LiveStates => state'[owner[a]] = state[owner[a]]
    BY <1>3 DEF ReadyWrite, Skipped, Considered, SnapshotQuiet, Quiet
  <2> QED
    BY <1>3, <2>1 DEF ReadyWrite
<1>4. CASE Begin
  <2>1. PICK a \in Fresh : /\ owner' = [owner EXCEPT ![a] = sel]
                           /\ astate' = [astate EXCEPT ![a] = "running"]
    BY <1>4 DEF Begin
  <2>2. /\ sel \in Steps /\ state[sel] = "pending" /\ status' = status
        /\ state' = [state EXCEPT ![sel] = "running"]
        /\ TaskOf[sel] = task /\ status[task] \notin {"succeeded", "failed"}
    BY <1>4 DEF Begin, TickPlaced, PlanHolds, Planned
  <2>3. a \in AttemptIds /\ astate[a] = "unused"
    BY <2>1 DEF Fresh
  <2> QED
    BY <2>1, <2>2, <2>3
<1>5. CASE Start
  BY <1>5 DEF Start
<1>6. ASSUME NEW t \in Tasks, Cancel(t) PROVE TableFlow'
  BY <1>6 DEF Cancel
<1>7. ASSUME NEW t \in Tasks, Resume(t) PROVE TableFlow'
  <2>1. \A a \in AttemptIds : astate[a] \in LiveStates => TaskOf[owner[a]] # t
    BY <1>7 DEF Resume, LiveNowhere, Live, AttemptsOf, StepsOf
  <2>2. \A a \in AttemptIds : astate[a] \in LiveStates => state'[owner[a]] = state[owner[a]]
    BY <1>7, <2>1 DEF Resume, Retry, StepsOf
  <2>3. \A a \in AttemptIds : astate[a] \in LiveStates =>
          status'[TaskOf[owner[a]]] = status[TaskOf[owner[a]]]
    BY <1>7, <2>1 DEF Resume
  <2> QED
    <3>1. owner' = owner /\ astate' = astate
      BY <1>7 DEF Resume
    <3>2. \A a \in AttemptIds : astate[a] \in LiveStates =>
            state'[owner'[a]] = state[owner[a]] /\ status'[TaskOf[owner'[a]]] = status[TaskOf[owner[a]]]
      BY <2>2, <2>3, <3>1
    <3> QED
      BY <3>1, <3>2
<1>8. ASSUME NEW s \in Steps, AddStep(s) PROVE TableFlow'
  BY <1>8 DEF AddStep
<1>9. ASSUME NEW s \in Steps, Answer(s) PROVE TableFlow'
  BY <1>9 DEF Answer
<1>10. ASSUME NEW s \in Steps, Reconcile(s) PROVE TableFlow'
  BY <1>10 DEF Reconcile, UncertainOf, AttemptsOf
<1>11. CASE UNCHANGED tables
  BY <1>11 DEF tables
<1>12. ASSUME NEW t \in Tasks, SettleRead(t) PROVE TableFlow'
  BY <1>12 DEF SettleRead, durable
<1>13. CASE ReadyRead
  BY <1>13 DEF ReadyRead, durable
<1>14. ASSUME NEW s \in Steps, Select(s) PROVE TableFlow'
  BY <1>14 DEF Select, durable
<1>15. ASSUME NEW s \in Steps, Hold(s) PROVE TableFlow'
  <2>1. UNCHANGED <<state, owner, astate>>
    BY <1>15 DEF Hold
  <2>2. CASE status' = status
    BY <2>1, <2>2
  <2>3. CASE Active(task) = {} /\ status' = [status EXCEPT ![task] = "blocked"]
    <3>1. task \in Tasks /\ pc = "dispatch" /\ daemon = "up"
      BY <1>15 DEF Hold, TickPlaced
    <3>2. \A a \in AttemptIds : astate[a] = "running" => TaskOf[owner[a]] # task
      BY <2>3, <3>1 DEF Active, StepsOf, RunningMapped, Busy, Unfinished
    <3>3. \A a \in AttemptIds : astate[a] \in LiveStates /\ state[owner[a]] = "cancelled" =>
            TaskOf[owner[a]] # task
      BY <3>1, <3>2 DEF BlockSafe
    <3> QED
      BY <2>1, <2>3, <3>1, <3>3
  <2> QED
    BY <1>15, <2>2, <2>3 DEF Hold, OwnerStuck
<1> QED
  BY <1>1, <1>2, <1>3, <1>4, <1>5, <1>6, <1>7, <1>8, <1>9, <1>10, <1>11, <1>12,
     <1>13, <1>14, <1>15, FlowChanges
     DEF TickResets, vars, durable, tables

\* Only begin adds a running attempt, and a used row keeps its step.
LEMMA RunningStays ==
  ASSUME SafeInv, Next, ~Begin, NEW a \in AttemptIds, astate'[a] = "running"
  PROVE  astate[a] = "running" /\ owner'[a] = owner[a]
<1> USE NoneAssumption, StructureAssumption DEF SafeInv, TypeOK
<1>1. CASE FinishCommit
  BY <1>1 DEF FinishCommit, FinishedAttempt, FinishedState
<1>2. CASE SettleWrite \/ ReadyWrite \/ Start
  BY <1>2 DEF SettleWrite, ReadyWrite, Start
<1>3. ASSUME NEW t \in Tasks, Cancel(t) \/ Resume(t)
      PROVE  astate[a] = "running" /\ owner'[a] = owner[a]
  BY <1>3 DEF Cancel, Resume
<1>4. ASSUME NEW s \in Steps, AddStep(s) \/ Answer(s) \/ Reconcile(s)
      PROVE  astate[a] = "running" /\ owner'[a] = owner[a]
  BY <1>4 DEF AddStep, Answer, Reconcile
<1> QED
  BY <1>1, <1>2, <1>3, <1>4, TableChanges

\* A running attempt leaves the running map only when it is finished or when
\* the daemon goes down, and recover leaves none running.
LEMMA MappedStep == SafeInv /\ FlowInv /\ [Next]_vars => (RunningMapped /\ TickUp)'
<1> SUFFICES ASSUME SafeInv, FlowInv, [Next]_vars PROVE (RunningMapped /\ TickUp)'
  OBVIOUS
<1> USE NoneAssumption, StructureAssumption
    DEF SafeInv, TypeOK, FlowInv, RunningMapped, LiveStates
<1>1. CASE UNCHANGED vars
  BY <1>1 DEF vars, memory, system, durable, tick, TickUp, Busy, Unfinished
<1>2. CASE Next
  <2>1. TickUp'
    BY <1>2, MapEnds
  <2>2. SUFFICES ASSUME daemon' \in {"up", "stopping"}, NEW a \in AttemptIds, astate'[a] = "running"
                 PROVE  phase'[owner'[a]] \in Busy
    BY <2>1
  <2>3. CASE Start
    BY <2>2, <2>3 DEF Start
  <2>4. CASE Begin
    <3>1. PICK b \in Fresh : /\ owner' = [owner EXCEPT ![b] = sel]
                             /\ astate' = [astate EXCEPT ![b] = "running"]
      BY <2>4 DEF Begin
    <3>2. b \in AttemptIds /\ sel \in Steps /\ daemon = "up"
      BY <2>4, <3>1 DEF Begin, Fresh, TickPlaced
    <3>3. phase' = [phase EXCEPT ![sel] = "spawned"]
      BY <2>4 DEF Begin
    <3>4. CASE a = b
      BY <3>1, <3>2, <3>3, <3>4 DEF Busy, Unfinished
    <3>5. CASE a # b
      <4>1. astate[a] = "running" /\ owner'[a] = owner[a]
        BY <2>2, <3>1, <3>2, <3>5
      <4>2. phase[owner[a]] \in Busy /\ owner[a] \in Steps
        BY <3>2, <4>1 DEF RowsOwned
      <4> QED
        BY <3>2, <3>3, <4>1, <4>2 DEF Busy, Unfinished
    <3> QED
      BY <3>4, <3>5
  <2>5. CASE ~Start /\ ~Begin
    <3>1. /\ daemon \in {"up", "stopping"}
          /\ \A s \in Steps : phase[s] \in Busy =>
                phase'[s] \in Busy \/ (FinishCommit /\ s = fin.step)
      BY <1>2, <2>2, <2>5, MapEnds
    <3>2. astate[a] = "running" /\ owner'[a] = owner[a]
      BY <1>2, <2>2, <2>5, RunningStays
    <3>3. owner[a] \in Steps /\ phase[owner[a]] \in Busy
      BY <3>1, <3>2 DEF RowsOwned
    <3>4. ~(FinishCommit /\ owner[a] = fin.step)
      <4> SUFFICES ASSUME FinishCommit, owner[a] = fin.step PROVE FALSE
        OBVIOUS
      <4>1. cur[fin.step] = a
        BY <3>2, <3>3 DEF FinishIsBusy, MapNamesLive, LiveUnique
      <4>2. FinishedAttempt(fin.step) # "running"
        BY DEF FinishedAttempt, FinishedState
      <4>3. astate' = [astate EXCEPT ![cur[fin.step]] = FinishedAttempt(fin.step)]
        BY DEF FinishCommit
      <4> QED
        BY <2>2, <4>1, <4>2, <4>3
    <3> QED
      BY <3>1, <3>2, <3>3, <3>4
  <2> QED
    BY <2>3, <2>4, <2>5
<1> QED
  BY <1>1, <1>2

\* The tick comes to its row loop through ReadyRead, and stays with one task.
LEMMA PlanKept ==
  ASSUME Next, ~Begin, pc' \in {"ready", "dispatch", "begin"}
  PROVE  ReadyRead \/ (pc \in {"ready", "dispatch", "begin"} /\ task' = task)
<1>1. FinishCommit \/ SettleWrite \/ ReadyWrite \/ Start =>
        pc' = "settled" \/ (pc \in {"ready", "dispatch", "begin"} /\ task' = task)
  BY DEF FinishCommit, SettleWrite, ReadyWrite, Start, tick
<1>2. ASSUME NEW t \in Tasks, SettleRead(t) \/ Cancel(t) \/ Resume(t)
      PROVE  pc' = "settle" \/ (pc' = pc /\ task' = task)
  BY <1>2 DEF SettleRead, Cancel, Resume, tick
<1>3. ASSUME NEW s \in Steps, Hold(s) \/ Select(s) \/ AddStep(s) \/ Answer(s) \/ Reconcile(s)
      PROVE  task' = task /\ (pc' = pc \/ pc = "dispatch")
  BY <1>3 DEF Hold, Select, AddStep, Answer, Reconcile, tick
<1> QED
  BY <1>1, <1>2, <1>3, FlowChanges DEF TickResets, places

\* Outside begin and recover no attempt becomes live, and used rows keep their step.
LEMMA LiveStays ==
  ASSUME SafeInv, Next, ~Begin, NEW a \in AttemptIds, astate'[a] \in LiveStates
  PROVE  /\ astate[a] \in LiveStates /\ owner'[a] = owner[a]
         /\ Start \/ astate'[a] = astate[a]
<1> USE NoneAssumption, StructureAssumption DEF SafeInv, TypeOK, LiveStates
<1>1. CASE FinishCommit
  BY <1>1 DEF FinishCommit, FinishedAttempt, FinishedState
<1>2. CASE SettleWrite \/ ReadyWrite \/ Start
  BY <1>2 DEF SettleWrite, ReadyWrite, Start
<1>3. ASSUME NEW t \in Tasks, Cancel(t) \/ Resume(t)
      PROVE  astate'[a] = astate[a] /\ owner'[a] = owner[a]
  BY <1>3 DEF Cancel, Resume
<1>4. ASSUME NEW s \in Steps, AddStep(s) \/ Answer(s) \/ Reconcile(s)
      PROVE  astate'[a] = astate[a] /\ owner'[a] = owner[a]
  BY <1>4 DEF AddStep, Answer, Reconcile
<1> QED
  BY <1>1, <1>2, <1>3, <1>4, TableChanges

\* The step of an attempt that stays uncertain becomes cancelled in no action.
LEMMA BlockStep == SafeInv /\ FlowInv /\ [Next]_vars => BlockSafe'
<1> SUFFICES ASSUME SafeInv, FlowInv, [Next]_vars, pc' \in {"ready", "dispatch", "begin"},
                    NEW a \in AttemptIds, astate'[a] = "uncertain", TaskOf[owner'[a]] = task'
             PROVE  state'[owner'[a]] # "cancelled"
  BY DEF BlockSafe
<1> USE NoneAssumption, StructureAssumption
    DEF SafeInv, TypeOK, RowsOwned, FlowInv, TableFlow, LiveStates
<1>1. CASE UNCHANGED vars
  BY <1>1 DEF vars, durable, tick, BlockSafe
<1>2. CASE Next
  <2>1. CASE Begin
    <3>1. PICK b \in Fresh : /\ owner' = [owner EXCEPT ![b] = sel]
                             /\ astate' = [astate EXCEPT ![b] = "running"]
      BY <2>1 DEF Begin
    <3>2. /\ b \in AttemptIds /\ sel \in Steps /\ pc = "begin"
          /\ pc' \in {"tasks", "dispatch"} /\ (pc' = "dispatch" => task' = task)
          /\ state' = [state EXCEPT ![sel] = "running"]
      BY <2>1, <3>1 DEF Begin, Fresh, TickPlaced, TickAt
    <3>3. a # b /\ astate[a] = "uncertain" /\ owner'[a] = owner[a]
      BY <3>1, <3>2
    <3> QED
      BY <3>2, <3>3 DEF BlockSafe
  <2>2. CASE Start
    BY <2>2 DEF Start, TickUp, tick
  <2>3. CASE ~Begin /\ ~Start
    <3>1. astate[a] = "uncertain" /\ owner'[a] = owner[a] /\ owner[a] \in Steps
      BY <1>2, <2>3, LiveStays
    <3>2. state'[owner[a]] = "cancelled" => state[owner[a]] = "cancelled"
      <4>1. CASE FinishCommit
        <5>1. fin.step \in Steps /\ owner[a] # fin.step
          BY <3>1, <4>1 DEF FinishCommit, FinishIsBusy, MapNamesLive, LiveUnique
        <5> QED
          BY <4>1, <5>1 DEF FinishCommit
      <4>2. CASE SettleWrite \/ ReadyWrite
        BY <3>1, <4>2 DEF SettleWrite, ReadyWrite
      <4>3. ASSUME NEW t \in Tasks, Cancel(t) PROVE state'[owner[a]] = state[owner[a]]
        BY <3>1, <4>3 DEF Cancel, UncertainPinned
      <4>4. ASSUME NEW t \in Tasks, Resume(t)
            PROVE state'[owner[a]] = "cancelled" => state[owner[a]] = "cancelled"
        BY <3>1, <4>4 DEF Resume
      <4>5. ASSUME NEW s \in Steps, AddStep(s) \/ Answer(s) \/ Reconcile(s)
            PROVE state'[owner[a]] = "cancelled" => state[owner[a]] = "cancelled"
        BY <3>1, <4>5 DEF AddStep, Answer, Reconcile
      <4> QED
        BY <1>2, <2>3, <4>1, <4>2, <4>3, <4>4, <4>5, TableChanges
    <3>3. CASE pc \in {"ready", "dispatch", "begin"} /\ task' = task
      BY <3>1, <3>2, <3>3 DEF BlockSafe
    <3>4. CASE ReadyRead
      <4>1. task' = task /\ status[task] = "running" /\ state' = state
        BY <3>4 DEF ReadyRead, TickAt, durable
      <4> QED
        BY <3>1, <4>1 DEF CancelledLive
    <3> QED
      BY <1>2, <2>3, <3>3, <3>4, PlanKept
  <2> QED
    BY <2>1, <2>2, <2>3
<1> QED
  BY <1>1, <1>2

\* A task that is running now was running before, or an operator resumed it or
\* added a step to it; then no attempt of it is live.
LEMMA TaskReopens ==
  ASSUME SafeInv, FlowInv, Next, NEW t \in Tasks, status'[t] = "running", status[t] # "running",
         NEW a \in AttemptIds, astate[a] \in LiveStates
  PROVE  TaskOf[owner[a]] # t
<1> USE NoneAssumption, StructureAssumption
    DEF SafeInv, TypeOK, RowsOwned, FlowInv, TableFlow, FinishedQuiet, LiveStates
<1>1. ASSUME NEW u \in Tasks, Resume(u) PROVE TaskOf[owner[a]] # t
  BY <1>1 DEF Resume, LiveNowhere, Live, AttemptsOf, StepsOf
<1>2. ASSUME NEW s \in Steps, AddStep(s) PROVE TaskOf[owner[a]] # t
  BY <1>2 DEF AddStep
<1>3. FinishCommit \/ Start => status'[t] = status[t] \/ status'[t] = "blocked"
  BY DEF FinishCommit, FinishedState, Start
<1>4. Begin \/ ReadyWrite \/ ReadyRead => status' = status
  BY DEF Begin, ReadyWrite, ReadyRead, durable
<1>5. SettleWrite => status'[t] = status[t] \/ status'[t] \in {"succeeded", "failed"}
  BY DEF SettleWrite, Verdict
<1>6. ASSUME NEW u \in Tasks, SettleRead(u) \/ Cancel(u)
      PROVE status'[t] = status[t] \/ status'[t] = "cancelled"
  BY <1>6 DEF SettleRead, Cancel, durable
<1>7. ASSUME NEW s \in Steps, Hold(s) \/ Select(s) \/ Answer(s) \/ Reconcile(s)
      PROVE status'[t] = status[t] \/ status'[t] = "blocked"
  <2>1. Hold(s) => status'[t] = status[t] \/ status'[t] = "blocked"
    BY DEF Hold
  <2>2. Select(s) \/ Answer(s) \/ Reconcile(s) => status'[t] = status[t] \/ status'[t] = "blocked"
    BY DEF Select, Answer, Reconcile, durable
  <2> QED
    BY <1>7, <2>1, <2>2
<1> QED
  BY <1>1, <1>2, <1>3, <1>4, <1>5, <1>6, <1>7, FlowChanges DEF TickResets, tables

\* settle works on the rows it read while the task has run on.
LEMMA SettleKept ==
  ASSUME Next, pc' = "settle"
  PROVE  \/ \E t \in Tasks : SettleRead(t)
         \/ pc = "settle" /\ task' = task /\ snap' = snap
<1>1. FinishCommit \/ Start => pc' = pc /\ task' = task /\ snap' = snap
  BY DEF FinishCommit, Start, tick
<1>2. SettleWrite \/ ReadyWrite \/ Begin => pc' # "settle"
  BY DEF SettleWrite, ReadyWrite, Begin, TickAt
<1>3. ASSUME NEW t \in Tasks, Cancel(t) \/ Resume(t)
      PROVE  pc' = pc /\ task' = task /\ snap' = snap
  BY <1>3 DEF Cancel, Resume, tick
<1>4. ASSUME NEW s \in Steps, Hold(s) \/ Select(s) PROVE pc' # "settle"
  BY <1>4 DEF Hold, Select
<1>5. ASSUME NEW s \in Steps, AddStep(s) \/ Answer(s) \/ Reconcile(s)
      PROVE  pc' = pc /\ task' = task /\ snap' = snap
  BY <1>5 DEF AddStep, Answer, Reconcile, tick
<1> QED
  BY <1>1, <1>2, <1>3, <1>4, <1>5, FlowChanges DEF TickResets, places

\* A task cannot be found finished while an attempt of it is live.
LEMMA SettleStep == SafeInv /\ FlowInv /\ [Next]_vars => SettleQuiet'
<1> SUFFICES ASSUME SafeInv, FlowInv, [Next]_vars, pc' = "settle", status'[task'] = "running",
                    NEW a \in AttemptIds, astate'[a] \in LiveStates, TaskOf[owner'[a]] = task'
             PROVE  snap'[owner'[a]] \notin Terminal \cup {"absent"}
  BY DEF SettleQuiet
<1> USE NoneAssumption, StructureAssumption
    DEF SafeInv, TypeOK, RowsOwned, FlowInv, LiveStates
<1>1. CASE UNCHANGED vars
  BY <1>1 DEF vars, durable, tick, SettleQuiet
<1>2. CASE Next
  <2>1. ~Begin
    BY DEF Begin, TickAt
  <2>2. astate[a] \in LiveStates /\ owner'[a] = owner[a] /\ owner[a] \in Steps
    BY <1>2, <2>1, LiveStays
  <2>3. ASSUME NEW t \in Tasks, SettleRead(t)
        PROVE  snap'[owner'[a]] \notin Terminal \cup {"absent"}
    <3>1. task' = t /\ snap' = Snapshot(t) /\ status' = status
      BY <2>3 DEF SettleRead, durable
    <3>2. state[owner[a]] \in {"running", "uncertain"}
      BY <2>2, <3>1 DEF LivePinned, TableFlow, CancelledLive
    <3> QED
      BY <2>2, <3>1, <3>2 DEF Snapshot, Terminal
  <2>4. CASE pc = "settle" /\ task' = task /\ snap' = snap
    <3>1. status[task] = "running"
      BY <1>2, <2>2, <2>4, TaskReopens DEF TickPlaced
    <3> QED
      BY <2>2, <2>4, <3>1 DEF SettleQuiet
  <2> QED
    BY <1>2, <2>3, <2>4, SettleKept
<1> QED
  BY <1>1, <1>2

\* A row the tick is about to dispatch stays as ready found it, or is cancelled
\* with its task, or comes back with it.
LEMMA PlannedStays ==
  ASSUME SafeInv, FlowInv, Next, ~Begin, pc \in {"ready", "dispatch", "begin"}, task' = task,
         NEW s \in Steps, Planned(s), ReadyWrite => s \notin Skipped
  PROVE  Planned(s)'
<1> USE NoneAssumption, StructureAssumption
    DEF SafeInv, TypeOK, RowsOwned, TickPlaced, Planned, LiveStates
<1>1. ~Start /\ ~SettleWrite /\ ~ReadyRead /\ \A t \in Tasks : ~SettleRead(t)
  BY DEF FlowInv, TickUp, Start, SettleWrite, ReadyRead, SettleRead
<1>2. Quiet(s)'
  BY LiveStays DEF Quiet
<1>3. SUFFICES /\ state'[s] \in {"pending", "cancelled"}
               /\ status'[task] = "cancelled" => state'[s] = "cancelled"
  BY <1>2
<1>4. CASE FinishCommit
  <2>1. fin.step \in Steps /\ s # fin.step
    BY <1>4 DEF FinishCommit, FinishIsBusy, MapNamesLive, Quiet
  <2> QED
    BY <1>4, <2>1 DEF FinishCommit
<1>5. CASE ReadyWrite
  BY <1>5 DEF ReadyWrite
<1>6. ASSUME NEW t \in Tasks, Cancel(t)
      PROVE  /\ state'[s] \in {"pending", "cancelled"}
             /\ status'[task] = "cancelled" => state'[s] = "cancelled"
  BY <1>6 DEF Cancel
<1>7. ASSUME NEW t \in Tasks, Resume(t)
      PROVE  /\ state'[s] \in {"pending", "cancelled"}
             /\ status'[task] = "cancelled" => state'[s] = "cancelled"
  <2>1. /\ state'[s] = state[s] \/ (state'[s] = "pending" /\ s \in Retry(t))
        /\ status' = [status EXCEPT ![t] = "running"]
    BY <1>7 DEF Resume
  <2>2. s \in Retry(t) => task = t
    BY DEF Retry, StepsOf
  <2> QED
    BY <2>1, <2>2
<1>8. ASSUME NEW u \in Steps, Hold(u) \/ Select(u)
      PROVE  /\ state'[s] \in {"pending", "cancelled"}
             /\ status'[task] = "cancelled" => state'[s] = "cancelled"
  <2>1. state' = state
    BY <1>8 DEF Hold, Select, durable
  <2>2. status' = status \/ status' = [status EXCEPT ![task] = "blocked"]
    <3>1. CASE Select(u)
      BY <3>1 DEF Select, durable
    <3>2. CASE Hold(u)
      BY <3>2 DEF Hold
    <3> QED
      BY <1>8, <3>1, <3>2
  <2> QED
    BY <2>1, <2>2
<1>9. ASSUME NEW u \in Steps, AddStep(u) \/ Answer(u) \/ Reconcile(u)
      PROVE  /\ state'[s] \in {"pending", "cancelled"}
             /\ status'[task] = "cancelled" => state'[s] = "cancelled"
  BY <1>9 DEF AddStep, Answer, Reconcile
<1> QED
  BY <1>1, <1>4, <1>5, <1>6, <1>7, <1>8, <1>9, FlowChanges DEF TickResets, tables

\* No action but settle's finishes a task.
LEMMA OnlySettleFinishes ==
  ASSUME SafeInv, Next, ~SettleWrite, NEW t \in Tasks, status'[t] \in {"succeeded", "failed"}
  PROVE  status'[t] = status[t]
<1> USE DEF SafeInv, TypeOK
<1>1. CASE FinishCommit \/ Start
  BY <1>1 DEF FinishCommit, Start
<1>2. CASE Begin \/ ReadyWrite \/ ReadyRead
  BY <1>2 DEF Begin, ReadyWrite, ReadyRead, durable
<1>3. ASSUME NEW u \in Tasks, SettleRead(u) \/ Cancel(u) \/ Resume(u)
      PROVE  status'[t] = status[t]
  BY <1>3 DEF SettleRead, Cancel, Resume, durable
<1>4. ASSUME NEW s \in Steps, Select(s) \/ Hold(s) \/ AddStep(s) \/ Answer(s) \/ Reconcile(s)
      PROVE  status'[t] = status[t]
  <2>1. CASE Hold(s)
    BY <2>1 DEF Hold
  <2>2. CASE Select(s) \/ AddStep(s) \/ Answer(s) \/ Reconcile(s)
    BY <2>2 DEF Select, AddStep, Answer, Reconcile, durable
  <2> QED
    BY <1>4, <2>1, <2>2
<1> QED
  BY <1>1, <1>2, <1>3, <1>4, FlowChanges DEF TickResets, tables

\* The rows of the plan: read by ready, handed to the row loop, and dropped one by one.
LEMMA PlanPlaces ==
  ASSUME Next, ~Begin, ~ReadyRead, pc' \in {"ready", "dispatch", "begin"}
  PROVE  /\ pc' = "ready" => pc = "ready" /\ snap' = snap /\ ~ReadyWrite
         /\ pc' \in {"dispatch", "begin"} =>
              \/ ReadyWrite /\ pc = "ready" /\ pc' = "dispatch" /\ todo' = Considered \ Skipped
              \/ ~ReadyWrite /\ pc \in {"dispatch", "begin"} /\ todo' \subseteq todo
         /\ pc' = "begin" => \/ pc = "begin" /\ sel' = sel
                             \/ \E s \in Steps : Select(s) /\ s \in todo /\ sel' = s
<1>0. ReadyWrite => pc = "ready" /\ pc' = "dispatch" /\ todo' = Considered \ Skipped
  BY DEF ReadyWrite
<1>1. FinishCommit \/ Start => pc' = pc /\ snap' = snap /\ todo' = todo /\ sel' = sel
  BY DEF FinishCommit, Start, tick
<1>2. SettleWrite => pc' = "settled"
  BY DEF SettleWrite
<1>3. ASSUME NEW t \in Tasks, SettleRead(t) \/ Cancel(t) \/ Resume(t)
      PROVE  pc' = "settle" \/ (pc' = pc /\ snap' = snap /\ todo' = todo /\ sel' = sel)
  BY <1>3 DEF SettleRead, Cancel, Resume, tick
<1>4. ASSUME NEW s \in Steps, AddStep(s) \/ Answer(s) \/ Reconcile(s)
      PROVE  pc' = pc /\ snap' = snap /\ todo' = todo /\ sel' = sel
  BY <1>4 DEF AddStep, Answer, Reconcile, tick
<1>5. ASSUME NEW s \in Steps, Hold(s)
      PROVE  pc = "dispatch" /\ pc' = "dispatch" /\ todo' \subseteq todo
  BY <1>5 DEF Hold
<1>6. ASSUME NEW s \in Steps, Select(s)
      PROVE  pc = "dispatch" /\ pc' = "begin" /\ todo' = todo /\ s \in todo /\ sel' = s
  BY <1>6 DEF Select
<1>7. \/ pc' = pc /\ snap' = snap /\ todo' = todo /\ sel' = sel
      \/ ReadyWrite
      \/ \E s \in Steps : Hold(s) \/ Select(s)
  <2>1. CASE TickResets \/ UNCHANGED <<tables, places>>
    BY <2>1 DEF TickResets, places
  <2>2. CASE \E t \in Tasks : SettleRead(t) \/ Cancel(t) \/ Resume(t)
    BY <1>3, <2>2
  <2>3. CASE \E s \in Steps : AddStep(s) \/ Answer(s) \/ Reconcile(s)
    BY <1>4, <2>3
  <2> QED
    BY <1>1, <1>2, <2>1, <2>2, <2>3, FlowChanges
<1>8. CASE \E s \in Steps : Select(s)
  BY <1>0, <1>6, <1>8
<1> QED
  BY <1>0, <1>5, <1>7, <1>8

\* Every row in the tick's hands is planned.
LEMMA PlanStep == SafeInv /\ FlowInv /\ [Next]_vars => PlanHolds'
<1> SUFFICES ASSUME SafeInv, FlowInv, [Next]_vars, pc' \in {"ready", "dispatch", "begin"}
             PROVE  PlanHolds'
  BY DEF PlanHolds
<1> USE NoneAssumption, StructureAssumption DEF SafeInv, TypeOK, RowsOwned, TickPlaced, FlowInv
<1>1. CASE UNCHANGED vars
  BY <1>1 DEF vars, durable, tick, PlanHolds, Planned, Quiet
<1>2. CASE Begin
  <2>1. PICK b \in Fresh : /\ owner' = [owner EXCEPT ![b] = sel]
                           /\ astate' = [astate EXCEPT ![b] = "running"]
    BY <1>2 DEF Begin
  <2>2. /\ pc = "begin" /\ sel \in Steps /\ b \in AttemptIds
        /\ pc' = "dispatch" /\ task' = task /\ todo' = todo \ {sel}
        /\ state' = [state EXCEPT ![sel] = "running"] /\ status' = status
    BY <1>2, <2>1 DEF Begin, Fresh, TickAt
  <2>3. ASSUME NEW s \in todo, s # sel PROVE Planned(s)'
    <3>1. Planned(s)
      BY <2>2 DEF PlanHolds
    <3>2. Quiet(s)'
      BY <2>1, <2>2, <2>3, <3>1 DEF Planned, Quiet
    <3> QED
      BY <2>2, <2>3, <3>1, <3>2 DEF Planned
  <2> QED
    BY <2>2, <2>3 DEF PlanHolds
<1>3. CASE ReadyRead
  <2>1. /\ pc' = "ready" /\ snap' = Snapshot(task) /\ task' = task /\ status[task] = "running"
        /\ UNCHANGED <<status, state, owner, astate>>
    BY <1>3 DEF ReadyRead, TickAt, durable
  <2>2. ASSUME NEW s \in Steps, snap'[s] = "pending" PROVE Planned(s)'
    <3>1. TaskOf[s] = task /\ state[s] = "pending"
      BY <2>1, <2>2 DEF Snapshot
    <3>2. Quiet(s)
      BY <3>1 DEF LivePinned, Quiet
    <3> QED
      BY <2>1, <3>1, <3>2 DEF Planned, Quiet
  <2> QED
    BY <2>1, <2>2 DEF PlanHolds
<1>4. CASE Next /\ ~Begin /\ ~ReadyRead
  <2>1. pc \in {"ready", "dispatch", "begin"} /\ task' = task
    BY <1>4, PlanKept
  <2>2. status'[task] \notin {"succeeded", "failed"}
    BY <1>4, <2>1, OnlySettleFinishes DEF PlanHolds, SettleWrite
  <2>3. pc' = "ready" => \A s \in Steps : snap'[s] = "pending" => Planned(s)'
    BY <1>4, <2>1, PlanPlaces, PlannedStays DEF PlanHolds
  <2>4. ASSUME pc' \in {"dispatch", "begin"}, NEW s \in todo' PROVE Planned(s)'
    <3>1. CASE ReadyWrite
      <4>1. s \in Considered /\ s \notin Skipped /\ pc = "ready"
        BY <1>4, <2>4, <3>1, PlanPlaces DEF ReadyWrite
      <4>2. s \in Steps /\ Planned(s)
        BY <4>1 DEF Considered, PlanHolds
      <4> QED
        BY <1>4, <2>1, <4>1, <4>2, PlannedStays
    <3>2. CASE ~ReadyWrite
      <4>1. s \in todo /\ pc \in {"dispatch", "begin"} /\ s \in Steps
        BY <1>4, <2>4, <3>2, PlanPlaces
      <4> QED
        BY <1>4, <2>1, <3>2, <4>1, PlannedStays DEF PlanHolds
    <3> QED
      BY <3>1, <3>2
  <2>5. ASSUME pc' = "begin" PROVE Planned(sel)'
    <3>1. CASE pc = "begin" /\ sel' = sel
      <4>1. Planned(sel) /\ ~ReadyWrite
        BY <3>1 DEF PlanHolds, ReadyWrite
      <4>2. Planned(sel)' <=> \A s \in Steps : s = sel => Planned(s)'
        BY <3>1 DEF Planned, Quiet
      <4> QED
        BY <1>4, <2>1, <3>1, <4>1, <4>2, PlannedStays
    <3>2. ASSUME NEW s \in Steps, Select(s), s \in todo, sel' = s PROVE Planned(sel)'
      <4>1. Planned(s)'
        BY <2>4, <2>5, <3>2 DEF Select
      <4> QED
        BY <3>2, <4>1 DEF Planned, Quiet
    <3> QED
      BY <1>4, <2>5, <3>1, <3>2, PlanPlaces
  <2> QED
    BY <2>1, <2>2, <2>3, <2>4, <2>5 DEF PlanHolds
<1> QED
  BY <1>1, <1>2, <1>3, <1>4

\* Only begin starts a step.
LEMMA OnlyBeginRuns ==
  ASSUME SafeInv, Next, ~Begin, NEW u \in Steps, state'[u] = "running"
  PROVE  state[u] = "running"
<1> USE DEF SafeInv, TypeOK
<1>1. CASE FinishCommit
  BY <1>1 DEF FinishCommit, FinishedState
<1>2. CASE SettleWrite \/ ReadyWrite \/ Start
  BY <1>2 DEF SettleWrite, ReadyWrite, Start
<1>3. ASSUME NEW t \in Tasks, Cancel(t) \/ Resume(t) PROVE state[u] = "running"
  BY <1>3 DEF Cancel, Resume
<1>4. ASSUME NEW s \in Steps, AddStep(s) \/ Answer(s) \/ Reconcile(s)
      PROVE  state[u] = "running"
  BY <1>4 DEF AddStep, Answer, Reconcile
<1> QED
  BY <1>1, <1>2, <1>3, <1>4, TableChanges

\* What Select checked still holds when begin's transaction commits.
LEMMA BeginAloneStep == SafeInv /\ FlowInv /\ [Next]_vars => BeginAlone'
<1> SUFFICES ASSUME SafeInv, FlowInv, [Next]_vars, pc' = "begin"
             PROVE  ~ExclusiveActive' /\ (sel' \in Exclusive => Active(task)' = {})
  BY DEF BeginAlone
<1>1. CASE UNCHANGED vars
  BY <1>1 DEF vars, durable, memory, tick, FlowInv, BeginAlone, ExclusiveActive, Active, StepsOf
<1>2. CASE Next
  <2>1. ~Begin /\ ~ReadyRead
    BY DEF Begin, ReadyRead, TickAt
  <2>2. task' = task
    BY <1>2, <2>1, PlanKept
  <2>3. ExclusiveActive' => ExclusiveActive
    BY <1>2, <2>1, <2>2, OnlyBeginRuns DEF ExclusiveActive, StepsOf
  <2>4. Active(task)' \subseteq Active(task)
    BY <1>2, <2>1, <2>2, MapShrinks DEF Active, StepsOf
  <2>5. CASE pc = "begin" /\ sel' = sel
    BY <2>3, <2>4, <2>5 DEF FlowInv, BeginAlone
  <2>6. ASSUME NEW s \in Steps, Select(s), sel' = s
        PROVE  ~ExclusiveActive' /\ (sel' \in Exclusive => Active(task)' = {})
    <3>1. ~ExclusiveActive /\ (s \in Exclusive => Active(task) = {})
      BY <2>6 DEF Select
    <3> QED
      BY <2>3, <2>4, <2>6, <3>1
  <2> QED
    BY <1>2, <2>1, <2>5, <2>6, PlanPlaces
<1> QED
  BY <1>1, <1>2

\* begin does not join an exclusive invocation, nor does an exclusive one join others.
LEMMA BusyAloneStep == SafeInv /\ FlowInv /\ [Next]_vars => BusyAlone'
<1> SUFFICES ASSUME SafeInv, FlowInv, [Next]_vars,
                    NEW s \in Exclusive, NEW u \in StepsOf(TaskOf[s]), u # s,
                    phase'[s] \in Busy, phase'[u] \in Busy
             PROVE  FALSE
  BY DEF BusyAlone, StepsOf
<1> USE StructureAssumption DEF SafeInv, TypeOK, StepsOf, FlowInv
<1>1. s \in Steps /\ u \in Steps /\ TaskOf[u] = TaskOf[s]
  OBVIOUS
<1>2. CASE UNCHANGED vars
  BY <1>1, <1>2 DEF vars, memory, BusyAlone
<1>3. CASE Next /\ ~Begin
  BY <1>1, <1>3, MapShrinks DEF BusyAlone
<1>4. CASE Begin
  <2>1. /\ sel \in Steps /\ state[sel] = "pending" /\ pc = "begin"
        /\ phase' = [phase EXCEPT ![sel] = "spawned"]
    BY <1>4 DEF Begin, TickPlaced
  <2>2. TaskOf[sel] = task /\ (status[task] = "cancelled" => state[sel] = "cancelled")
    BY <2>1 DEF PlanHolds, Planned
  <2>3. CASE s = sel
    <3>1. Active(task) = {} /\ phase[u] \in Busy
      BY <1>1, <2>1, <2>3 DEF BeginAlone
    <3> QED
      BY <1>1, <2>2, <2>3, <3>1 DEF Active, Busy, Unfinished
  <2>4. CASE u = sel
    <3>1. phase[s] \in Busy
      BY <1>1, <2>1, <2>4
    <3>2. /\ cur[s] \in AttemptIds /\ owner[cur[s]] = s /\ astate[cur[s]] = "running"
      BY <1>1, <3>1 DEF MapNamesLive
    <3>3. state[s] \in {"running", "cancelled"}
      BY <3>2 DEF TableFlow, RunningPinned
    <3>4. state[s] # "running"
      BY <1>1, <2>1, <2>2, <2>4 DEF BeginAlone, ExclusiveActive
    <3>5. state[s] # "cancelled"
      <4>1. TaskOf[s] = task
        BY <1>1, <2>2, <2>4
      <4>2. state[s] = "cancelled" => status[TaskOf[s]] = "cancelled"
        BY <3>2 DEF TableFlow, CancelledLive, LiveStates
      <4> QED
        BY <2>1, <2>2, <4>1, <4>2
    <3> QED
      BY <3>3, <3>4, <3>5
  <2>5. CASE s # sel /\ u # sel
    BY <1>1, <2>1, <2>5 DEF BusyAlone
  <2> QED
    BY <2>3, <2>4, <2>5
<1> QED
  BY <1>2, <1>3, <1>4

\* Nothing is under way at first.
LEMMA FlowInit == Init => FlowInv
<1> SUFFICES ASSUME Init PROVE FlowInv
  OBVIOUS
<1>1. /\ pc = "idle" /\ \A a \in AttemptIds : astate[a] = "unused"
      /\ \A s \in Steps : phase[s] = "none"
  BY DEF Init
<1>2. TableFlow /\ RunningMapped
  BY <1>1 DEF TableFlow, RunningPinned, UncertainPinned, CancelledLive, FinishedQuiet, LiveStates,
     RunningMapped
<1>3. TickUp /\ BlockSafe /\ SettleQuiet /\ PlanHolds /\ BeginAlone
  BY <1>1 DEF TickUp, BlockSafe, SettleQuiet, PlanHolds, BeginAlone
<1>4. BusyAlone
  BY <1>1, StructureAssumption DEF BusyAlone, Busy, Unfinished
<1> QED
  BY <1>2, <1>3, <1>4 DEF FlowInv

\* Every action keeps the whole invariant.
LEMMA FlowStep == SafeInv /\ FlowInv /\ [Next]_vars => (SafeInv /\ FlowInv)'
  BY SafeStep, TableStep, MappedStep, BlockStep, SettleStep, PlanStep, BeginAloneStep,
     BusyAloneStep DEF FlowInv

\* The tables agree with the tick's places and with the running map in every
\* reachable state, for every plan and every set of requests and failures.
THEOREM FlowAlways == Spec => []FlowInv
<1>1. Init => SafeInv /\ FlowInv
  BY SafeInit, FlowInit
<1> QED
  BY <1>1, FlowStep, PTL DEF Spec

\* Exclusive steps run alone: no other invocation of the task is in the running
\* map, not even one that was told to abort.
THEOREM ExclusiveAlways == Spec => []ExclusiveAlone
<1>1. FlowInv => ExclusiveAlone
  BY DEF FlowInv, BusyAlone, ExclusiveAlone, Busy
<1> QED
  BY <1>1, FlowAlways, PTL

\* A task reported as finished has no attempt under way.
THEOREM FinishedTaskAlwaysQuiet == Spec => []FinishedTaskIsQuiet
<1>1. FlowInv => FinishedTaskIsQuiet
  BY DEF FlowInv, TableFlow, FinishedQuiet, FinishedTaskIsQuiet, StepsOf, Live, AttemptsOf
<1> QED
  BY <1>1, FlowAlways, PTL
-----------------------------------------------------------------------------
(***************************************************************************)
(* When a step may run, and how often. ready decides from one snapshot     *)
(* which rows to dispatch, and begin acts on it later; here we prove that  *)
(* what a row depends on is still so when it begins (DependencyOrder), and *)
(* that settle puts back no step that has used up its attempts             *)
(* (RetryBound).                                                           *)
(*                                                                         *)
(* The instances exclude resume and the workers' questions: by design a    *)
(* resumed or answered step runs again, whatever it has used up and        *)
(* whatever depends on it.                                                 *)
(***************************************************************************)

NoHelp == Ops \cap {"resume", "ask"} = {}

NoQuestions == asked = {} /\ answered = {}

Settled == {"succeeded", "failed", "skipped"}

\* The status s waits for in n.
Wanted(s, n) == IF WhenStep[s] = n THEN WhenStatus[s] ELSE "succeeded"
NeedsMet(s) == \A n \in Needs[s] : state[n] = Wanted(s, n)

\* What ready read and decided is still so.
OrderInv ==
  /\ pc = "ready" => \A s \in StepsOf(task) : snap[s] \in Settled => state[s] = snap[s]
  /\ pc \in {"dispatch", "begin"} => \A s \in todo : NeedsMet(s)
  /\ pc = "begin" => NeedsMet(sel)

\* A step that can still begin has an attempt left.
AttemptsLeft ==
  \A s \in Steps : state[s] \in {"absent", "pending"} =>
    Cardinality(AttemptsOf(s)) < Tries[s] + Hops[s]

HelplessInv == NoQuestions /\ OrderInv /\ AttemptsLeft /\ RetryBound

\* Without questions there are no answers.
LEMMA QuestionStep == NoHelp /\ NoQuestions /\ [Next]_vars => NoQuestions'
<1> SUFFICES ASSUME NoHelp, NoQuestions, [Next]_vars PROVE NoQuestions'
  OBVIOUS
<1> USE DEF NoHelp, NoQuestions
<1>1. CASE FinishCommit
  BY <1>1 DEF FinishCommit
<1>2. ASSUME NEW s \in Steps, Invocation(s) PROVE NoQuestions'
  BY <1>2 DEF Invocation, Claim, PrepareFails, Launch, RecordPid, Exit, FinishRead, Dropped, durable
<1>3. CASE Tick
  BY <1>3 DEF Tick, TickBegin, TickTasks, TickEnd, ReapRead, Release, Hold, Select, SettleRead,
     SettleWrite, ReadyRead, ReadyWrite, DispatchEnd, Begin, BeginRefused, durable
<1>4. CASE TickHeld
  BY <1>4 DEF TickHeld, durable
<1>5. CASE Request
  BY <1>5 DEF Request, Cancel, Resume, AddStep, Ask, Answer, Reconcile, ReleaseCheck,
     ReleaseDelete, SetWorkerStatus, RevokeAccount, GrantAccount, durable
<1>6. CASE Process
  BY <1>6 DEF Process, Crash, Start, StopBegin, StopEnd, StopRead, StopSkip, RunStepBreaks,
     OrphanExit, durable
<1>7. CASE UNCHANGED vars
  BY <1>7 DEF vars, durable
<1> QED
  BY <1>1, <1>2, <1>3, <1>4, <1>5, <1>6, <1>7 DEF Next

\* A settled step stays settled, until settle retries it.
LEMMA SettledStays ==
  ASSUME SafeInv, FlowInv, NoHelp, NoQuestions, Next, ~SettleWrite,
         NEW n \in Steps, state[n] \in Settled
  PROVE  state'[n] = state[n]
<1> USE NoneAssumption, StructureAssumption
    DEF SafeInv, TypeOK, RowsOwned, FlowInv, NoHelp, NoQuestions, Settled, LiveStates
<1>1. CASE FinishCommit
  <2>1. fin.step \in Steps /\ n # fin.step
    BY <1>1 DEF FinishCommit, FinishIsBusy, MapNamesLive, LivePinned
  <2> QED
    BY <1>1, <2>1 DEF FinishCommit
<1>2. CASE ReadyWrite
  <2>1. n \notin Skipped
    BY <1>2 DEF ReadyWrite, Skipped, Considered, PlanHolds, Planned
  <2> QED
    BY <1>2, <2>1 DEF ReadyWrite
<1>3. CASE Begin
  BY <1>3 DEF Begin
<1>4. CASE Start
  BY <1>4 DEF Start, TableFlow, RunningPinned
<1>5. ASSUME NEW t \in Tasks, Cancel(t) \/ Resume(t) PROVE state'[n] = state[n]
  BY <1>5 DEF Cancel, Resume
<1>6. ASSUME NEW s \in Steps, AddStep(s) \/ Answer(s) \/ Reconcile(s) PROVE state'[n] = state[n]
  BY <1>6 DEF AddStep, Answer, Reconcile
<1> QED
  BY <1>1, <1>2, <1>3, <1>4, <1>5, <1>6, TableChanges

\* The dependencies of a row in the tick's hands stay as ready found them.
LEMMA NeedsStay ==
  ASSUME SafeInv, FlowInv, NoHelp, NoQuestions, Next, ~SettleWrite, NEW s \in Steps, NeedsMet(s)
  PROVE  NeedsMet(s)'
<1>1. ASSUME NEW n \in Needs[s] PROVE state'[n] = Wanted(s, n)
  <2>1. n \in Steps /\ state[n] = Wanted(s, n) /\ Wanted(s, n) \in Settled
    BY StructureAssumption DEF NeedsMet, Wanted, Settled
  <2> QED
    BY <2>1, SettledStays
<1> QED
  BY <1>1 DEF NeedsMet, Wanted

\* ready returns the rows whose dependencies are as they should be.
LEMMA ReadyNeeds ==
  ASSUME SafeInv, OrderInv, pc = "ready", NEW s \in Considered, s \notin Skipped, TaskOf[s] = task
  PROVE  NeedsMet(s)
<1> SUFFICES ASSUME NEW n \in Needs[s] PROVE state[n] = Wanted(s, n)
  BY DEF NeedsMet
<1>1. s \in Steps /\ n \in Steps /\ n \in StepsOf(task) /\ snap[n] \in Terminal
  BY StructureAssumption DEF Considered, StepsOf
<1>2. snap[n] = Wanted(s, n)
  BY <1>1, NoneAssumption DEF Skipped, ConditionFails, NeedFails, Wanted
<1>3. Wanted(s, n) \in Settled
  BY <1>1, StructureAssumption DEF Wanted, Settled
<1> QED
  BY <1>1, <1>2, <1>3 DEF OrderInv

\* The tick's picture of the dependencies holds until begin.
LEMMA OrderStep ==
  SafeInv /\ FlowInv /\ NoHelp /\ NoQuestions /\ OrderInv /\ [Next]_vars => OrderInv'
<1> SUFFICES ASSUME SafeInv, FlowInv, NoHelp, NoQuestions, OrderInv, [Next]_vars,
                    pc' \in {"ready", "dispatch", "begin"}
             PROVE  OrderInv'
  BY DEF OrderInv
<1> USE StructureAssumption DEF SafeInv, TypeOK, TickPlaced
<1>1. CASE UNCHANGED vars
  BY <1>1 DEF vars, durable, tick, OrderInv, NeedsMet, StepsOf, Wanted
<1>2. CASE Begin
  <2>1. pc = "begin" /\ pc' = "dispatch" /\ todo' = todo \ {sel} /\ ~SettleWrite
    BY <1>2 DEF Begin, TickAt, SettleWrite
  <2>2. \A s \in todo' : NeedsMet(s)'
    BY <1>2, <2>1, NeedsStay DEF OrderInv, Next, Tick
  <2> QED
    BY <2>1, <2>2 DEF OrderInv
<1>3. CASE ReadyRead
  BY <1>3 DEF ReadyRead, TickAt, OrderInv, Snapshot, StepsOf, durable
<1>4. CASE Next /\ ~Begin /\ ~ReadyRead
  <2>1. pc \in {"ready", "dispatch", "begin"} /\ task' = task /\ ~SettleWrite
    BY <1>4, PlanKept DEF SettleWrite
  <2>2. ASSUME pc' = "ready", NEW s \in StepsOf(task), snap'[s] \in Settled
        PROVE  state'[s] = snap'[s]
    <3>1. snap' = snap /\ state[s] = snap[s] /\ s \in Steps
      BY <1>4, <2>2, PlanPlaces DEF OrderInv, StepsOf
    <3> QED
      BY <1>4, <2>1, <2>2, <3>1, SettledStays
  <2>3. ASSUME pc' \in {"dispatch", "begin"}, NEW s \in todo' PROVE NeedsMet(s)'
    <3>1. s \in Steps /\ NeedsMet(s)
      <4>1. CASE ReadyWrite /\ pc = "ready" /\ todo' = Considered \ Skipped
        <5>1. s \in Considered /\ s \notin Skipped /\ s \in Steps /\ TaskOf[s] = task
          BY <2>3, <4>1 DEF Considered, FlowInv, PlanHolds, Planned
        <5> QED
          BY <4>1, <5>1, ReadyNeeds
      <4>2. CASE pc \in {"dispatch", "begin"} /\ todo' \subseteq todo
        BY <2>3, <4>2 DEF OrderInv
      <4> QED
        BY <1>4, <2>3, <4>1, <4>2, PlanPlaces
    <3> QED
      BY <1>4, <2>1, <3>1, NeedsStay
  <2>4. ASSUME pc' = "begin" PROVE NeedsMet(sel)'
    <3>1. CASE pc = "begin" /\ sel' = sel
      <4>1. NeedsMet(sel) /\ sel \in Steps
        BY <3>1 DEF OrderInv
      <4>2. \A s \in Steps : NeedsMet(s) => NeedsMet(s)'
        BY <1>4, <2>1, NeedsStay
      <4>3. (\A s \in Steps : s = sel => NeedsMet(s)') => NeedsMet(sel)'
        BY <3>1, <4>1 DEF NeedsMet, Wanted
      <4> QED
        BY <4>1, <4>2, <4>3
    <3>2. ASSUME NEW s \in Steps, Select(s), s \in todo, sel' = s PROVE NeedsMet(sel)'
      <4>1. NeedsMet(s)'
        BY <2>3, <2>4, <3>2 DEF Select
      <4> QED
        BY <3>2, <4>1 DEF NeedsMet, Wanted
    <3> QED
      BY <1>4, <2>4, <3>1, <3>2, PlanPlaces
  <2> QED
    BY <2>1, <2>2, <2>3, <2>4 DEF OrderInv, StepsOf
<1> QED
  BY <1>1, <1>2, <1>3, <1>4

\* Only begin gives a step another attempt, and it gives one.
LEMMA AttemptsGrow ==
  ASSUME SafeInv, Next, NEW s \in Steps
  PROVE  /\ IsFiniteSet(AttemptsOf(s)) /\ IsFiniteSet(AttemptsOf(s)')
         /\ Cardinality(AttemptsOf(s)) \in Nat /\ Cardinality(AttemptsOf(s)') \in Nat
         /\ IF Begin /\ s = sel
            THEN Cardinality(AttemptsOf(s)') <= Cardinality(AttemptsOf(s)) + 1
            ELSE Cardinality(AttemptsOf(s)') <= Cardinality(AttemptsOf(s))
<1> USE BoundAssumption DEF SafeInv, TypeOK
<1>1. /\ IsFiniteSet(AttemptsOf(s)) /\ IsFiniteSet(AttemptsOf(s)')
      /\ Cardinality(AttemptsOf(s)) \in Nat /\ Cardinality(AttemptsOf(s)') \in Nat
  BY FS_Subset, FS_CardinalityType DEF AttemptsOf
<1>2. CASE Begin
  <2>1. PICK a \in Fresh : owner' = [owner EXCEPT ![a] = sel]
    BY <1>2 DEF Begin
  <2>2. a \in AttemptIds
    BY <2>1 DEF Fresh
  <2>3. CASE s = sel
    <3>1. AttemptsOf(s)' \subseteq AttemptsOf(s) \cup {a}
      BY <2>1, <2>2, <2>3 DEF AttemptsOf
    <3>2. /\ IsFiniteSet(AttemptsOf(s) \cup {a})
          /\ Cardinality(AttemptsOf(s) \cup {a}) <= Cardinality(AttemptsOf(s)) + 1
      <4>1. /\ IsFiniteSet(AttemptsOf(s) \cup {a})
            /\ Cardinality(AttemptsOf(s) \cup {a}) =
                 IF a \in AttemptsOf(s) THEN Cardinality(AttemptsOf(s))
                 ELSE Cardinality(AttemptsOf(s)) + 1
        BY ONLY <1>1, FS_AddElement
      <4> QED
        BY <1>1, <4>1
    <3>3. Cardinality(AttemptsOf(s)') <= Cardinality(AttemptsOf(s) \cup {a})
      BY <3>1, <3>2, FS_Subset
    <3>4. Cardinality(AttemptsOf(s) \cup {a}) \in Nat
      BY <3>2, FS_CardinalityType
    <3> QED
      BY <1>1, <1>2, <2>3, <3>2, <3>3, <3>4
  <2>4. CASE s # sel
    <3>1. AttemptsOf(s)' \subseteq AttemptsOf(s)
      BY <2>1, <2>2, <2>4 DEF AttemptsOf
    <3> QED
      BY <1>1, <2>4, <3>1, FS_Subset
  <2> QED
    BY <2>3, <2>4
<1>3. CASE ~Begin
  <2>1. owner' = owner
    <3>1. FinishCommit \/ SettleWrite \/ ReadyWrite \/ Start => owner' = owner
      BY DEF FinishCommit, SettleWrite, ReadyWrite, Start
    <3>2. ASSUME NEW t \in Tasks, Cancel(t) \/ Resume(t) PROVE owner' = owner
      BY <3>2 DEF Cancel, Resume
    <3>3. ASSUME NEW u \in Steps, AddStep(u) \/ Answer(u) \/ Reconcile(u) PROVE owner' = owner
      BY <3>3 DEF AddStep, Answer, Reconcile
    <3> QED
      BY <1>3, <3>1, <3>2, <3>3, TableChanges
  <2>2. AttemptsOf(s)' = AttemptsOf(s)
    BY <2>1 DEF AttemptsOf
  <2> QED
    BY <1>1, <1>3, <2>2
<1> QED
  BY <1>2, <1>3

\* settle retries a step only while its attempts and fallbacks last.
LEMMA RetriableLeft ==
  ASSUME SafeInv, NEW s \in Retriable
  PROVE  Cardinality(AttemptsOf(s)) < Tries[s] + Hops[s]
<1> USE BoundAssumption DEF SafeInv, TypeOK
<1>1. s \in Steps /\ Counted(s) < Tries[s]
  BY DEF Retriable
<1>2. IsFiniteSet(AttemptsOf(s)) /\ IsFiniteSet(CapacityFailures(s))
  BY FS_Subset DEF AttemptsOf, CapacityFailures
<1>3. Cardinality(AttemptsOf(s)) \in Nat /\ Cardinality(CapacityFailures(s)) \in Nat
  BY <1>2, FS_CardinalityType
<1>4. Smaller(Cardinality(CapacityFailures(s)), Hops[s]) <= Hops[s]
  BY <1>1, <1>3 DEF Smaller
<1>5. Smaller(Cardinality(CapacityFailures(s)), Hops[s]) \in Nat
  BY <1>1, <1>3 DEF Smaller
<1> QED
  BY <1>1, <1>3, <1>4, <1>5 DEF Counted

\* A step becomes pending again only through settle or, for its first attempt,
\* through add_steps.
LEMMA PendingAgain ==
  ASSUME SafeInv, NoHelp, NoQuestions, Next,
         NEW s \in Steps, state'[s] \in {"absent", "pending"}
  PROVE  state[s] \in {"absent", "pending"} \/ (SettleWrite /\ s \in Retriable)
<1> USE DEF SafeInv, TypeOK, NoHelp, NoQuestions
<1>1. CASE FinishCommit
  BY <1>1 DEF FinishCommit, FinishedState, Requeued
<1>2. CASE SettleWrite \/ ReadyWrite \/ Start
  BY <1>2 DEF SettleWrite, ReadyWrite, Start
<1>3. CASE Begin
  BY <1>3 DEF Begin
<1>4. ASSUME NEW t \in Tasks, Cancel(t) \/ Resume(t) PROVE state[s] \in {"absent", "pending"}
  BY <1>4 DEF Cancel, Resume
<1>5. ASSUME NEW u \in Steps, AddStep(u) \/ Answer(u) \/ Reconcile(u)
      PROVE  state[s] \in {"absent", "pending"}
  BY <1>5 DEF AddStep, Answer, Reconcile
<1> QED
  BY <1>1, <1>2, <1>3, <1>4, <1>5, TableChanges

\* No step runs out of attempts it is still owed, nor gets one it is not.
LEMMA RetryStep ==
  SafeInv /\ NoHelp /\ NoQuestions /\ AttemptsLeft /\ RetryBound /\ [Next]_vars
    => (AttemptsLeft /\ RetryBound)'
<1> SUFFICES ASSUME SafeInv, NoHelp, NoQuestions, AttemptsLeft, RetryBound, [Next]_vars,
                    NEW s \in Steps
             PROVE  /\ state'[s] \in {"absent", "pending"} =>
                         Cardinality(AttemptsOf(s)') < Tries[s] + Hops[s]
                    /\ Cardinality(AttemptsOf(s)') <= Tries[s] + Hops[s]
  BY DEF AttemptsLeft, RetryBound
<1>1. CASE UNCHANGED vars
  <2>1. state' = state /\ AttemptsOf(s)' = AttemptsOf(s)
    BY <1>1 DEF vars, durable, AttemptsOf
  <2> QED
    BY <2>1 DEF AttemptsLeft, RetryBound
<1>2. CASE Next /\ Begin /\ s = sel
  <2>1. state[s] = "pending" /\ state'[s] = "running"
    BY <1>2 DEF Begin, SafeInv, TypeOK
  <2>2. Cardinality(AttemptsOf(s)) < Tries[s] + Hops[s]
    BY <2>1 DEF AttemptsLeft
  <2>3. Tries[s] \in Nat /\ Hops[s] \in Nat
    BY BoundAssumption
  <2> QED
    BY <1>2, <2>1, <2>2, <2>3, AttemptsGrow
<1>3. CASE Next /\ ~(Begin /\ s = sel)
  <2>1. Cardinality(AttemptsOf(s)') <= Cardinality(AttemptsOf(s))
    BY <1>3, AttemptsGrow
  <2>2. Cardinality(AttemptsOf(s)) \in Nat /\ Cardinality(AttemptsOf(s)') \in Nat
    BY <1>3, AttemptsGrow
  <2>3. Tries[s] \in Nat /\ Hops[s] \in Nat
    BY BoundAssumption
  <2>4. state'[s] \in {"absent", "pending"} => Cardinality(AttemptsOf(s)) < Tries[s] + Hops[s]
    BY <1>3, PendingAgain, RetriableLeft DEF AttemptsLeft
  <2> QED
    BY <2>1, <2>2, <2>3, <2>4 DEF RetryBound
<1> QED
  BY <1>1, <1>2, <1>3

\* Nothing is decided and no attempt is spent at first.
LEMMA HelplessInit == Init => HelplessInv
<1> SUFFICES ASSUME Init PROVE HelplessInv
  OBVIOUS
<1>1. NoQuestions /\ OrderInv
  BY DEF Init, NoQuestions, OrderInv
<1>2. ASSUME NEW s \in Steps
      PROVE  Cardinality(AttemptsOf(s)) = 0 /\ Tries[s] \in Nat \ {0} /\ Hops[s] \in Nat
  <2>1. AttemptsOf(s) = {}
    BY NoneAssumption DEF Init, AttemptsOf
  <2> QED
    BY <2>1, FS_EmptySet, BoundAssumption
<1>3. AttemptsLeft /\ RetryBound
  BY <1>2 DEF AttemptsLeft, RetryBound
<1> QED
  BY <1>1, <1>3 DEF HelplessInv

\* The invariant of an instance in which nobody resumes a task and no worker asks.
THEOREM HelplessAlways ==
  ASSUME NoHelp
  PROVE  Spec => [](SafeInv /\ FlowInv /\ HelplessInv)
<1>1. Init => SafeInv /\ FlowInv /\ HelplessInv
  BY SafeInit, FlowInit, HelplessInit
<1>2. SafeInv /\ FlowInv /\ HelplessInv /\ [Next]_vars => HelplessInv'
  BY QuestionStep, OrderStep, RetryStep DEF HelplessInv
<1>3. SafeInv /\ FlowInv /\ [Next]_vars => (SafeInv /\ FlowInv)'
  BY SafeStep, FlowStep
<1> QED
  BY <1>1, <1>2, <1>3, PTL DEF Spec

\* A step never runs more often than its attempts and fallbacks allow, whatever
\* crashes, is cancelled, reconciled or added.
THEOREM RetriesBounded ==
  ASSUME NoHelp
  PROVE  Spec => []RetryBound
<1>1. HelplessInv => RetryBound
  BY DEF HelplessInv
<1> QED
  BY <1>1, HelplessAlways, PTL

\* A step begins only while what it depends on has succeeded, or has ended as
\* its condition asks, although ready decided that from an older snapshot.
THEOREM DependenciesFirst ==
  ASSUME NoHelp
  PROVE  Spec => DependencyOrder
<1> DEFINE Ordered ==
      \A s \in Steps : state[s] = "pending" /\ state'[s] = "running" =>
        \A n \in Needs[s] : state[n] = IF WhenStep[s] = n THEN WhenStatus[s] ELSE "succeeded"
<1>1. SafeInv /\ FlowInv /\ HelplessInv /\ [Next]_vars => Ordered
  <2> SUFFICES ASSUME SafeInv, HelplessInv, [Next]_vars,
                      NEW s \in Steps, state[s] = "pending", state'[s] = "running"
               PROVE  NeedsMet(s)
    BY DEF NeedsMet, Wanted
  <2>1. Next
    BY DEF vars, durable
  <2>2. Begin
    BY <2>1, OnlyBeginRuns
  <2>3. pc = "begin" /\ s = sel
    BY <2>2 DEF Begin
  <2> QED
    BY <2>3 DEF HelplessInv, OrderInv
<1>2. Spec => [][Ordered]_vars
  BY <1>1, HelplessAlways, PTL DEF Spec
<1> QED
  BY <1>2 DEF DependencyOrder
-----------------------------------------------------------------------------
(***************************************************************************)
(* One writer for each scope, for every plan, crash and restart. The claim *)
(* of a coding step outlives its daemon in the claims table; what has to   *)
(* be shown is that no process outlives its claim. An entry of the running *)
(* map holds its claim from Store::claim on (MapClaims), and a claim goes  *)
(* only with an attempt whose process has ended (EndedGone, FinishPlaced). *)
(*                                                                         *)
(* The instances exclude release_claims: its checks and its DELETE are no  *)
(* transaction, and an attempt that begins between them loses its claim.   *)
(***************************************************************************)

AliveUsed == \A a \in alive : astate[a] # "unused"

\* An outcome is recorded for an invocation that returned or was dropped,
FinishPlaced == fin.step # None => phase[fin.step] \in {"returned", "aborted"}

\* and such an invocation, like one that has not launched yet, has no process.
EndedGone ==
  \A s \in Steps : phase[s] \in {"spawned", "claimed", "returned", "aborted"} => cur[s] \notin alive

\* A process the daemon knows by pid belongs to a live attempt.
KnownLive == \A a \in alive \cap recorded : astate[a] \in LiveStates

\* Store::claim lets no two claims of a task overlap.
ClaimsApart ==
  \A s, u \in claims : s # u /\ TaskOf[s] = TaskOf[u] => <<s, u>> \notin Overlap

WriterClaims == \A a \in alive \cap recorded : owner[a] \in Agents => owner[a] \in claims

MapClaims == \A s \in Agents : phase[s] \in {"claimed", "launched", "executing"} => s \in claims

WriterInv ==
  /\ AliveUsed /\ FinishPlaced /\ EndedGone /\ KnownLive
  /\ ClaimsApart /\ WriterClaims /\ MapClaims
  /\ releasing = {}

\* What WriterInv speaks of, and the actions that write it.
writing == <<owner, astate, claims, phase, cur, fin, releasing, alive, recorded>>

LEMMA WritingChanges ==
  ASSUME Next, "release" \notin Ops, releasing = {}
  PROVE  \/ FinishCommit \/ TickBegin \/ Begin \/ BeginRefused \/ Crash \/ StopEnd \/ Start
         \/ \E s \in Steps : \/ Claim(s) \/ PrepareFails(s) \/ Launch(s) \/ RecordPid(s)
                             \/ \E o \in Outcomes : Exit(s, o)
                             \/ FinishRead(s) \/ Dropped(s) \/ RunStepBreaks(s)
                             \/ ReapRead(s) \/ Release(s) \/ StopRead(s) \/ StopSkip(s)
                             \/ Reconcile(s)
         \/ \E a \in AttemptIds : OrphanExit(a)
         \/ UNCHANGED writing
<1> USE DEF writing, durable, memory, system
<1>1. ASSUME NEW s \in Steps, Invocation(s)
      PROVE  \/ Claim(s) \/ PrepareFails(s) \/ Launch(s) \/ RecordPid(s)
             \/ \E o \in Outcomes : Exit(s, o)
             \/ FinishRead(s) \/ Dropped(s)
  BY <1>1 DEF Invocation, Outcomes
<1>2. Tick => \/ TickBegin \/ Begin \/ BeginRefused
              \/ \E s \in Steps : ReapRead(s) \/ Release(s)
              \/ UNCHANGED writing
  <2>1. ASSUME NEW s \in Steps, Hold(s) \/ Select(s) PROVE UNCHANGED writing
    BY <2>1 DEF Hold, Select
  <2>2. ASSUME NEW t \in Tasks, SettleRead(t) PROVE UNCHANGED writing
    BY <2>2 DEF SettleRead
  <2>3. TickTasks \/ TickEnd \/ SettleWrite \/ ReadyRead \/ ReadyWrite \/ DispatchEnd
          => UNCHANGED writing
    BY DEF TickTasks, TickEnd, SettleWrite, ReadyRead, ReadyWrite, DispatchEnd
  <2> QED
    BY <2>1, <2>2, <2>3 DEF Tick
<1>3. TickHeld => UNCHANGED writing
  BY DEF TickHeld
<1>4. Request => (\E s \in Steps : Reconcile(s)) \/ UNCHANGED writing
  BY DEF Request, Cancel, Resume, AddStep, Ask, Answer, ReleaseCheck, ReleaseDelete,
     SetWorkerStatus, RevokeAccount, GrantAccount
<1>5. Process => \/ Crash \/ StopEnd \/ Start
                 \/ \E s \in Steps : StopRead(s) \/ StopSkip(s) \/ RunStepBreaks(s)
                 \/ \E a \in AttemptIds : OrphanExit(a)
                 \/ UNCHANGED writing
  BY DEF Process, StopBegin
<1> QED
  BY <1>1, <1>2, <1>3, <1>4, <1>5 DEF Next

\* Every action keeps a process and its claim together.
LEMMA WriterStep ==
  ASSUME "release" \notin Ops
  PROVE  SafeInv /\ WriterInv /\ [Next]_vars => WriterInv'
<1> SUFFICES ASSUME SafeInv, WriterInv, [Next]_vars PROVE WriterInv'
  OBVIOUS
<1> USE NoneAssumption, StructureAssumption
    DEF SafeInv, TypeOK, RowsOwned, LiveUnique, MapNamesLive, Busy, Unfinished, LiveStates,
        WriterInv, AliveUsed, FinishPlaced, EndedGone, KnownLive, ClaimsApart, WriterClaims, MapClaims
<1>1. CASE FinishCommit
  <2> DEFINE f == fin.step
  <2>1. /\ f \in Steps /\ phase[f] \in {"returned", "aborted"} /\ cur[f] \notin alive
        /\ cur[f] \in AttemptIds /\ owner[cur[f]] = f /\ astate[cur[f]] = "running"
    BY <1>1 DEF FinishCommit
  <2>2. /\ astate' = [astate EXCEPT ![cur[f]] = FinishedAttempt(f)]
        /\ claims' = claims \/ claims' = claims \ {f}
        /\ phase' = [phase EXCEPT ![f] = phase'[f]] /\ phase'[f] \in {"none", "done"}
        /\ \A s \in Steps : s # f => cur'[s] = cur[s]
        /\ fin'.step = None
        /\ UNCHANGED <<owner, releasing, alive, recorded>>
    BY <1>1, <2>1 DEF FinishCommit, NoFin, system
  <2>3. FinishedAttempt(f) # "unused"
    BY DEF FinishedAttempt, FinishedState
  <2>4. \A a \in alive : astate'[a] = astate[a]
    BY <2>1, <2>2
  <2>5. \A a \in alive \cap recorded : owner[a] # f
    BY <2>1
  <2>6. WriterClaims' /\ MapClaims'
    BY <2>1, <2>2, <2>5
  <2>7. EndedGone' /\ ClaimsApart'
    BY <2>1, <2>2
  <2> QED
    BY <2>2, <2>4, <2>6, <2>7
<1>2. CASE TickBegin
  BY <1>2 DEF TickBegin, durable, system, NoFin
<1>3. CASE Begin
  <2>1. PICK a \in Fresh : /\ owner' = [owner EXCEPT ![a] = sel]
                           /\ astate' = [astate EXCEPT ![a] = "running"]
                           /\ cur' = [cur EXCEPT ![sel] = a]
    BY <1>3 DEF Begin
  <2>2. a \in AttemptIds /\ astate[a] = "unused" /\ sel \in Steps /\ a \notin alive
    BY <1>3, <2>1 DEF Begin, Fresh, TickPlaced
  <2>3. /\ phase' = [phase EXCEPT ![sel] = "spawned"] /\ fin = NoFin
        /\ UNCHANGED <<claims, fin, releasing, alive, recorded>>
    BY <1>3 DEF Begin, system
  <2> QED
    BY <2>1, <2>2, <2>3 DEF NoFin
<1>4. CASE BeginRefused \/ Crash \/ StopEnd
  BY <1>4 DEF BeginRefused, Crash, StopEnd, Forget, NoFin, durable
<1>5. CASE Start
  BY <1>5 DEF Start, memory
<1>6. ASSUME NEW s \in Steps, Claim(s) PROVE WriterInv'
  <2>1. /\ claims' = claims \/ (s \in Agents /\ ClaimFree(s) /\ claims' = claims \cup {s})
        /\ s \in Agents => s \in claims'
        /\ phase[s] = "spawned" /\ phase' = [phase EXCEPT ![s] = "claimed"] /\ fin = NoFin
        /\ UNCHANGED <<owner, astate, cur, fin, releasing, alive, recorded>>
    BY <1>6 DEF Claim, Yielded, system
  <2>2. ClaimFree(s) => \A u \in claims : u # s /\ TaskOf[s] = TaskOf[u] =>
                          <<s, u>> \notin Overlap /\ <<u, s>> \notin Overlap
    <3> SUFFICES ASSUME ClaimFree(s), NEW u \in claims, u # s, TaskOf[s] = TaskOf[u]
                 PROVE  <<s, u>> \notin Overlap /\ <<u, s>> \notin Overlap
      OBVIOUS
    <3>1. <<s, u>> \notin Overlap
      BY DEF ClaimFree
    <3>2. u \in Steps /\ (<<u, s>> \in Overlap => <<s, u>> \in Overlap)
      OBVIOUS
    <3> QED
      BY <3>1, <3>2
  <2>3. ASSUME NEW u \in claims', NEW v \in claims', u # v, TaskOf[u] = TaskOf[v]
        PROVE  <<u, v>> \notin Overlap
    <3>1. CASE u \in claims /\ v \in claims
      BY <2>3, <3>1
    <3>2. CASE u \notin claims \/ v \notin claims
      <4>1. ClaimFree(s) /\ ((u = s /\ v \in claims) \/ (v = s /\ u \in claims))
        BY <2>1, <2>3, <3>2
      <4> QED
        BY <2>2, <2>3, <4>1
    <3> QED
      BY <3>1, <3>2
  <2> QED
    BY <2>1, <2>3 DEF NoFin
<1>7. ASSUME NEW s \in Steps, PrepareFails(s) \/ FinishRead(s) PROVE WriterInv'
  BY <1>7 DEF PrepareFails, FinishRead, Yielded, NoFin, durable, system
<1>8. ASSUME NEW s \in Steps, Launch(s) PROVE WriterInv'
  BY <1>8 DEF Launch, durable
<1>9. ASSUME NEW s \in Steps, RecordPid(s) PROVE WriterInv'
  BY <1>9 DEF RecordPid, durable
<1>10. ASSUME NEW s \in Steps, NEW o \in Outcomes, Exit(s, o) PROVE WriterInv'
  BY <1>10 DEF Exit, Yielded, NoFin, durable
<1>11. ASSUME NEW s \in Steps, Dropped(s) \/ RunStepBreaks(s) PROVE WriterInv'
  BY <1>11 DEF Dropped, RunStepBreaks, Yielded, NoFin, durable
<1>12. ASSUME NEW s \in Steps, ReapRead(s) \/ StopRead(s) PROVE WriterInv'
  BY <1>12 DEF ReapRead, StopRead, durable, system
<1>13. ASSUME NEW s \in Steps, Release(s) \/ StopSkip(s) PROVE WriterInv'
  BY <1>13 DEF Release, StopSkip, NoFin, durable, system
<1>14. ASSUME NEW s \in Steps, Reconcile(s) PROVE WriterInv'
  BY <1>14 DEF Reconcile, StillExists, UncertainOf, AttemptsOf, memory, system
<1>15. ASSUME NEW a \in AttemptIds, OrphanExit(a) PROVE WriterInv'
  BY <1>15 DEF OrphanExit, durable, memory
<1>16. CASE UNCHANGED writing
  BY <1>16 DEF writing
<1>17. CASE UNCHANGED vars
  BY <1>16, <1>17 DEF vars, durable, memory, system, writing
<1> QED
  BY <1>1, <1>2, <1>3, <1>4, <1>5, <1>6, <1>7, <1>8, <1>9, <1>10, <1>11, <1>12, <1>13, <1>14,
     <1>15, <1>16, <1>17, WritingChanges

\* Two processes the daemon knows by pid never write the same scope of a task,
\* whatever crashes, restarts, cancels and resumes, as long as no claim is
\* released by hand.
THEOREM SoleWriterAlways ==
  ASSUME "release" \notin Ops
  PROVE  Spec => []SoleWriter
<1>1. Init => SafeInv /\ WriterInv
  <2>1. Init => WriterInv
    BY StructureAssumption DEF Init, WriterInv, AliveUsed, FinishPlaced, EndedGone, KnownLive,
       ClaimsApart, WriterClaims, MapClaims, NoFin
  <2> QED
    BY <2>1, SafeInit
<1>2. SafeInv /\ WriterInv /\ [Next]_vars => (SafeInv /\ WriterInv)'
  BY SafeStep, WriterStep
<1>3. SafeInv /\ WriterInv => SoleWriter
  BY DEF SafeInv, TypeOK, LiveUnique, WriterInv, KnownLive, ClaimsApart, WriterClaims, SoleWriter
<1> QED
  BY <1>1, <1>2, <1>3, PTL DEF Spec
=============================================================================
