------------------------------ MODULE Decision ------------------------------
(* Advisory decisions of one task (decision/{store,review,shadow,typesafe}.rs):  *)
(* reviews of the events a durable cursor has passed, and routing decisions     *)
(* queued at dispatch.  Every decision is a row of `decisions`; two in-memory   *)
(* queues hand rows to local tasks, which prepare in a blocking thread and then *)
(* call the provider.                                                         *)
(*                                                                            *)
(* Aborting a local task does not stop its blocking thread: an orphan goes on   *)
(* to the end of `prepare`.  A restart interrupts every open row and queues     *)
(* again only the reviews that never left the queue.  The row of the review of  *)
(* event e is named e; the evidence of a review is abstracted to the plan       *)
(* revision it was built from.                                                *)
EXTENDS Naturals, FiniteSets, Sequences

CONSTANTS MaxEvents,   \* bound: events of the task
          Routes,      \* rows of routing decisions, numbers above MaxEvents
          MaxDecisions,\* max_decisions_per_task
          DcSlots,     \* CONCURRENCY of each queue
          DcPending,   \* MAX_PENDING of each queue
          MaxAttempts, \* max_attempts of the provider client
          MaxPlans,    \* bound: plan revisions
          MaxDaemons   \* bound: daemon processes

ASSUME DcBounds ==
  /\ MaxEvents \in Nat \ {0} /\ Routes \subseteq Nat \ (0..MaxEvents)
  /\ {MaxDecisions, DcSlots, DcPending, MaxAttempts, MaxPlans, MaxDaemons} \subseteq Nat \ {0}

VARIABLES
  dcEvents,  \* the task's events: is it a checkpoint, and the revision it names (0: none)
  dcCursor,  \* review_scan_cursor
  dcChecks,  \* events with a review_checkpoints row
  dcRow,     \* decisions: state, started # NULL, provider_attempts
  dcPend,    \* rows in a queue's memory
  dcJob,     \* where the local task of a row is, "idle": not in `running`
  dcOrphan,  \* rows whose prepare thread lost its local task: "no" or where it is
  dcTries,   \* attempts of the call, in memory
  dcEvid,    \* plan read by prepare; revision and coverage of the checkpoint
  dcTask,    \* status of the task
  dcPlan,    \* MAX(revision) of the task, and the revision tasks.plan is of
  dcAuth,    \* the operator's configuration still is the one the task has pinned
  dcDaemon,  \* number of the daemon process
  dcUp,      \* it runs its scheduler
  dcSent     \* history: daemons that sent the row's request

dcVars == <<dcEvents, dcCursor, dcChecks, dcRow, dcPend, dcJob, dcOrphan, dcTries, dcEvid,
            dcTask, dcPlan, dcAuth, dcDaemon, dcUp, dcSent>>

Reviews == 1..MaxEvents
DcRows == Reviews \cup Routes
QueueOf(i) == IF i \in Reviews THEN Reviews ELSE Routes
Preparing == {"prepare", "read", "started"}
Open(i) == dcRow[i].st \in {"queued", "running"}
DcTerminal == {"succeeded", "cached", "failed", "skipped", "cancelled", "interrupted"}

DcInit ==
  /\ dcEvents = <<>> /\ dcCursor = 0 /\ dcChecks = {}
  /\ dcRow = [i \in DcRows |-> [st |-> "none", started |-> FALSE, attempts |-> 0]]
  /\ dcPend = {} /\ dcJob = [i \in DcRows |-> "idle"] /\ dcOrphan = [i \in DcRows |-> "no"]
  /\ dcTries = [i \in DcRows |-> 0]
  /\ dcEvid = [i \in DcRows |-> [plan |-> 0, rev |-> 0, whole |-> FALSE]]
  /\ dcTask = "running" /\ dcPlan = 1 /\ dcAuth = TRUE
  /\ dcDaemon = 1 /\ dcUp = TRUE /\ dcSent = [i \in DcRows |-> {}]

-----------------------------------------------------------------------------
(* The decisions table.                                                       *)

(* enqueue_bounded: the row is recorded whether or not the task's limit admits  *)
(* it.                                                                        *)
Admitted == Cardinality({i \in DcRows : dcRow[i].st # "none"}) < MaxDecisions

Enqueued(i) == [st |-> IF ~Admitted \/ Cardinality(dcPend \cap QueueOf(i)) >= DcPending
                       THEN "skipped" ELSE "queued",
                started |-> FALSE, attempts |-> 0]

(* start: WHERE state='queued'                                                *)
Startable(i) == dcRow[i].st = "queued"

(* finish_state: WHERE state IN ('queued','running'); every caller ignores or    *)
(* logs the refusal.                                                          *)
FinishState(i, st) == IF Open(i) THEN [dcRow[i] EXCEPT !.st = st] ELSE dcRow[i]

(* interrupt_running                                                          *)
InterruptedRow(row) == IF row.st \in {"queued", "running"} THEN [row EXCEPT !.st = "interrupted"] ELSE row

(* resume_never_sent: a row that was started stays held even if its attempt     *)
(* counter is zero.                                                           *)
ResumableUnsent(i, row) == i \in Reviews /\ row.st = "interrupted" /\ row.attempts = 0
Resumable(i, row) == i \in Reviews /\ row.st = "interrupted" /\ ~row.started /\ row.attempts = 0

-----------------------------------------------------------------------------
(* The task and its operator (external to the two queues).                     *)

RoomForEvent == Len(dcEvents) < MaxEvents

(* An event of the task; classify decides whether it is a checkpoint, and its    *)
(* writer read current_revision or left it out.                               *)
Classify(e) == dcEvents[e].checkpoint

TaskEvent ==
  /\ RoomForEvent
  /\ \E ev \in [checkpoint : {TRUE}, rev : {0, dcPlan}] \cup [checkpoint : {FALSE}, rev : {0}] :
       dcEvents' = Append(dcEvents, ev)
  /\ UNCHANGED <<dcTries, dcCursor, dcChecks, dcRow, dcPend, dcJob, dcOrphan, dcEvid, dcTask, dcPlan, dcAuth, dcDaemon, dcUp, dcSent>>

(* add_steps: revision, plan and workflow.revised in one transaction; a task    *)
(* that succeeded runs again.                                                  *)
PlanRevised ==
  /\ RoomForEvent /\ dcPlan < MaxPlans
  /\ dcPlan' = dcPlan + 1 /\ dcTask' = IF dcTask = "succeeded" THEN "running" ELSE dcTask
  /\ dcEvents' = Append(dcEvents, [checkpoint |-> TRUE, rev |-> dcPlan'])
  /\ UNCHANGED <<dcTries, dcCursor, dcChecks, dcRow, dcPend, dcJob, dcOrphan, dcEvid, dcAuth, dcDaemon, dcUp, dcSent>>

(* The scheduler settles the task, and writes task.finished.                   *)
TaskEnds ==
  /\ dcTask = "running" /\ dcTask' \in {"succeeded", "failed"}
  /\ RoomForEvent /\ dcEvents' = Append(dcEvents, [checkpoint |-> TRUE, rev |-> dcPlan])
  /\ UNCHANGED <<dcTries, dcCursor, dcChecks, dcRow, dcPend, dcJob, dcOrphan, dcEvid, dcPlan, dcAuth, dcDaemon, dcUp, dcSent>>

TaskCancelled ==
  /\ dcTask = "running" /\ dcTask' = "cancelled"
  /\ UNCHANGED dcEvents
  /\ UNCHANGED <<dcTries, dcCursor, dcChecks, dcRow, dcPend, dcJob, dcOrphan, dcEvid, dcPlan, dcAuth, dcDaemon, dcUp, dcSent>>

OperatorRevokes ==
  /\ dcAuth /\ dcAuth' = FALSE
  /\ UNCHANGED <<dcTries, dcEvents, dcCursor, dcChecks, dcRow, dcPend, dcJob, dcOrphan, dcEvid, dcTask, dcPlan, dcDaemon, dcUp, dcSent>>

-----------------------------------------------------------------------------
(* scan: one transaction records row and checkpoint of the next event, unless    *)
(* an earlier scan did (event_seq is UNIQUE), and a statement of its own then    *)
(* moves the cursor; a crash falls between the two.                           *)
AlreadyRecorded(e) == e \in dcChecks

CheckpointDue(e) == dcUp /\ dcCursor < Len(dcEvents) /\ e = dcCursor + 1

ScanEvent(e) ==
  /\ CheckpointDue(e) /\ Classify(e)
  /\ ~AlreadyRecorded(e) /\ e \notin dcChecks
  /\ dcRow' = [dcRow EXCEPT ![e] = Enqueued(e)]
  /\ dcChecks' = dcChecks \cup {e}
  /\ dcPend' = IF Enqueued(e).st = "queued" THEN dcPend \cup {e} ELSE dcPend
  /\ UNCHANGED <<dcTries, dcEvents, dcCursor, dcJob, dcOrphan, dcEvid, dcTask, dcPlan, dcAuth, dcDaemon, dcUp, dcSent>>

AdvanceCursor(e) ==
  /\ CheckpointDue(e) /\ (~Classify(e) \/ AlreadyRecorded(e))
  /\ dcCursor' = e
  /\ UNCHANGED <<dcTries, dcEvents, dcChecks, dcRow, dcPend, dcJob, dcOrphan, dcEvid, dcTask, dcPlan, dcAuth, dcDaemon, dcUp, dcSent>>

(* shadow::Queue::enqueue, after a dispatch of the task                         *)
RouteEnqueue(i) ==
  /\ dcUp /\ i \in Routes /\ dcRow[i].st = "none" /\ dcTask = "running"
  /\ dcRow' = [dcRow EXCEPT ![i] = Enqueued(i)]
  /\ dcPend' = IF Enqueued(i).st = "queued" THEN dcPend \cup {i} ELSE dcPend
  /\ UNCHANGED <<dcTries, dcEvents, dcCursor, dcChecks, dcJob, dcOrphan, dcEvid, dcTask, dcPlan, dcAuth, dcDaemon, dcUp, dcSent>>

(* hydrate: reviews queued on disk that memory does not hold                    *)
HydrateNone == {}
Hydrate == {i \in Reviews : dcRow[i].st = "queued" /\ i \notin dcPend /\ dcJob[i] = "idle"}

(* A queue's tick: a cancelled task loses its running jobs and its pending rows; *)
(* otherwise the memory is filled up and the free slots are.                   *)
Lost(Q) == [i \in DcRows |-> IF i \in Q /\ dcJob[i] \in Preparing THEN dcJob[i] ELSE dcOrphan[i]]
RunningJobs(q) == {i \in q : dcJob[i] # "idle"}

CancelQueue(q, mine) ==
  /\ dcTask = "cancelled" /\ mine \cup RunningJobs(q) # {}
  /\ dcRow' = [i \in DcRows |-> IF i \in mine \cup RunningJobs(q) THEN FinishState(i, "cancelled") ELSE dcRow[i]]
  /\ dcOrphan' = Lost(RunningJobs(q))
  /\ dcJob' = [i \in DcRows |-> IF i \in q THEN "idle" ELSE dcJob[i]]
  /\ dcPend' = dcPend \ q

FillQueue(q, mine) ==
  LET Full(s) == Cardinality(s \cup (dcPend \cap q)) = DcPending
      Busy(s) == Cardinality(s \cup RunningJobs(q)) = DcSlots
  IN /\ dcTask # "cancelled"
     /\ \E held \in SUBSET (mine \ dcPend) : \E go \in SUBSET (held \cup (dcPend \cap q)) :
          /\ Cardinality(held \cup (dcPend \cap q)) <= DcPending /\ (held = mine \ dcPend \/ Full(held))
          /\ Cardinality(go \cup RunningJobs(q)) <= DcSlots /\ (go = held \cup (dcPend \cap q) \/ Busy(go))
          /\ held \cup go # {}
          /\ dcPend' = (dcPend \cup held) \ go
          /\ dcJob' = [i \in DcRows |-> IF i \in go THEN "prepare" ELSE dcJob[i]]
     /\ UNCHANGED <<dcRow, dcOrphan>>

QueueTick(q) ==
  LET mine == (dcPend \cap q) \cup (IF q = Reviews THEN Hydrate ELSE {})
  IN /\ dcUp
     /\ CancelQueue(q, mine) \/ FillQueue(q, mine)
     /\ UNCHANGED <<dcTries, dcEvents, dcCursor, dcChecks, dcEvid, dcTask, dcPlan, dcAuth, dcDaemon, dcUp, dcSent>>

-----------------------------------------------------------------------------
(* prepare, in a blocking thread: the task's row is read first, the revision and *)
(* the other evidence later; then the checkpoint is updated and the row started;  *)
(* what needs no provider is completed by a statement of its own.               *)

(* The thread of job i, with or without its local task.                        *)
ThreadAt(i, pc) == dcJob[i] = pc \/ dcOrphan[i] = pc
Moves(i, pc, next, orphaned) ==
  IF dcJob[i] = pc THEN dcJob' = [dcJob EXCEPT ![i] = next] /\ UNCHANGED dcOrphan
                   ELSE dcOrphan' = [dcOrphan EXCEPT ![i] = orphaned] /\ UNCHANGED dcJob

(* What stops prepare: the pins differ, secrets, credential or git are            *)
(* unavailable, or a statement fails.  The local task marks the row skipped; an    *)
(* orphan has none to do so.                                                  *)
PreparationFails(i) ==
  /\ \E pc \in Preparing :
       /\ ThreadAt(i, pc)
       /\ Moves(i, pc, "idle", "no")
       /\ dcRow' = IF dcJob[i] = pc THEN [dcRow EXCEPT ![i] = FinishState(i, "skipped")] ELSE dcRow
  /\ UNCHANGED <<dcTries, dcEvents, dcCursor, dcChecks, dcPend, dcEvid, dcTask, dcPlan, dcAuth, dcDaemon, dcUp, dcSent>>

PrepareReads(i) ==
  /\ ThreadAt(i, "prepare") /\ dcAuth
  /\ Moves(i, "prepare", "read", "read")
  /\ dcEvid' = [dcEvid EXCEPT ![i].plan = dcPlan]
  /\ UNCHANGED <<dcTries, dcEvents, dcCursor, dcChecks, dcRow, dcPend, dcTask, dcPlan, dcAuth, dcDaemon, dcUp, dcSent>>

(* coverage: the checkpoint must name the revision that is current              *)
Coverage(i) == dcEvents[i].rev # 0 /\ dcEvents[i].rev = dcPlan

(* The checkpoint's row is updated, then the decision started, which fails for a   *)
(* row that is no longer queued.                                               *)
PrepareRest(i) ==
  /\ ThreadAt(i, "read")
  /\ IF i \in Reviews
     THEN \E whole \in {FALSE, Coverage(i)} :
            dcEvid' = [dcEvid EXCEPT ![i].rev = dcPlan, ![i].whole = whole]
     ELSE UNCHANGED dcEvid
  /\ IF Startable(i)
     THEN /\ dcRow' = [dcRow EXCEPT ![i].st = "running", ![i].started = TRUE]
          /\ Moves(i, "read", "started", "started")
     ELSE Moves(i, "read", "idle", "no") /\ UNCHANGED dcRow
  /\ UNCHANGED <<dcTries, dcEvents, dcCursor, dcChecks, dcPend, dcTask, dcPlan, dcAuth, dcDaemon, dcUp, dcSent>>

(* The end of prepare: a review whose evidence is not complete abstains; a        *)
(* routing decision finds a cached answer, abstains for want of guidance, or is    *)
(* put to the provider.                                                       *)
ReviewPrepared(i) == IF dcEvid[i].whole THEN {"call"} ELSE {"succeeded"}
RoutePrepared == {"call", "succeeded", "cached"}

PrepareEnds(i) ==
  /\ ThreadAt(i, "started")
  /\ \E done \in IF i \in Reviews THEN ReviewPrepared(i) ELSE RoutePrepared :
       /\ Moves(i, "started", IF done = "call" THEN "call" ELSE "idle", "no")
       /\ dcRow' = IF done # "call" /\ dcRow[i].st = "running" THEN [dcRow EXCEPT ![i].st = done] ELSE dcRow
  /\ UNCHANGED <<dcTries, dcEvents, dcCursor, dcChecks, dcPend, dcEvid, dcTask, dcPlan, dcAuth, dcDaemon, dcUp, dcSent>>

-----------------------------------------------------------------------------
(* The call of the provider (run, execute_counted).                            *)

(* authorize, before every attempt: reviews may outlive the task's run.          *)
AuthorizeCall(i) == dcAuth /\ (dcTask = "running" \/ (i \in Reviews /\ dcTask \in {"succeeded", "failed"}))

(* One attempt: the counter is written first, its failure is ignored, then the   *)
(* request is sent.                                                           *)
CallSends(i) ==
  /\ dcJob[i] = "call" /\ AuthorizeCall(i)
  /\ dcTries' = [dcTries EXCEPT ![i] = @ + 1]
  /\ \E counted \in {0, 1} :
       dcRow' = [dcRow EXCEPT ![i].attempts = IF dcRow[i].st = "running" THEN @ + counted ELSE @]
  /\ dcJob' = [dcJob EXCEPT ![i] = "sent"]
  /\ dcSent' = [dcSent EXCEPT ![i] = @ \cup {dcDaemon}]
  /\ UNCHANGED <<dcEvents, dcCursor, dcChecks, dcPend, dcOrphan, dcEvid, dcTask, dcPlan, dcAuth, dcDaemon, dcUp>>

(* 429, 529 or a connection that failed, with attempts and time left            *)
CallRetries(i) ==
  /\ dcJob[i] = "sent" /\ dcTries[i] < MaxAttempts
  /\ dcJob' = [dcJob EXCEPT ![i] = "call"]
  /\ UNCHANGED <<dcEvents, dcCursor, dcChecks, dcRow, dcPend, dcOrphan, dcTries, dcEvid, dcTask, dcPlan, dcAuth, dcDaemon, dcUp, dcSent>>

(* The outcome of the call: an answer validate_response accepts, or any failure;  *)
(* before an attempt (no authority, no credential, offline, budget spent) there    *)
(* is none but failure.  The row then has the attempts counted in memory.        *)
AfterCall(i, st) ==
  IF dcTask = "cancelled" THEN FinishState(i, "cancelled")
  ELSE IF Open(i) /\ (st = "succeeded" => dcRow[i].st = "running")
       THEN [dcRow[i] EXCEPT !.st = st, !.attempts = dcTries[i]] ELSE dcRow[i]

DecisionEnds(i) ==
  /\ dcJob[i] \in {"call", "sent"}
  /\ \E st \in {"succeeded", "failed"} :
       /\ dcJob[i] = "call" => st = "failed"
       /\ dcRow' = [dcRow EXCEPT ![i] = AfterCall(i, st)]
  /\ dcJob' = [dcJob EXCEPT ![i] = "idle"]
  /\ UNCHANGED <<dcEvents, dcCursor, dcChecks, dcPend, dcOrphan, dcTries, dcEvid, dcTask, dcPlan, dcAuth, dcDaemon, dcUp, dcSent>>

-----------------------------------------------------------------------------
(* shutdown of both queues; the blocking threads go on until the process exits.  *)
DcShutdown ==
  /\ dcUp /\ dcUp' = FALSE
  /\ LET held == dcPend \cup RunningJobs(DcRows)
     IN dcRow' = [i \in DcRows |-> IF i \in held THEN FinishState(i, "cancelled") ELSE dcRow[i]]
  /\ dcOrphan' = Lost(DcRows)
  /\ dcPend' = {} /\ dcJob' = [i \in DcRows |-> "idle"]
  /\ UNCHANGED <<dcTries, dcEvents, dcCursor, dcChecks, dcEvid, dcTask, dcPlan, dcAuth, dcDaemon, dcSent>>

(* The process dies and the next one starts: recover, then resume_never_sent.    *)
DcRestart ==
  /\ dcDaemon < MaxDaemons
  /\ dcDaemon' = dcDaemon + 1 /\ dcUp' = TRUE
  /\ LET stopped == [i \in DcRows |-> InterruptedRow(dcRow[i])]
     IN dcRow' = [i \in DcRows |-> IF Resumable(i, stopped[i]) THEN [stopped[i] EXCEPT !.st = "queued"]
                                                               ELSE stopped[i]]
  /\ dcPend' = {} /\ dcJob' = [i \in DcRows |-> "idle"] /\ dcOrphan' = [i \in DcRows |-> "no"]
  /\ dcTries' = [i \in DcRows |-> 0]
  /\ UNCHANGED <<dcEvents, dcCursor, dcChecks, dcEvid, dcTask, dcPlan, dcAuth, dcSent>>

DcScan == \E e \in Reviews : ScanEvent(e) \/ AdvanceCursor(e)
DcJob(i) == PreparationFails(i) \/ PrepareReads(i) \/ PrepareRest(i) \/ PrepareEnds(i) \/ CallSends(i) \/ CallRetries(i) \/ DecisionEnds(i)

DcNext ==
  \/ TaskEvent \/ PlanRevised \/ TaskEnds \/ TaskCancelled \/ OperatorRevokes
  \/ DcScan
  \/ \E i \in Routes : RouteEnqueue(i)
  \/ QueueTick(Reviews) \/ QueueTick(Routes)
  \/ \E i \in DcRows : DcJob(i)
  \/ DcShutdown \/ DcRestart

DcSpec == DcInit /\ [][DcNext]_dcVars

-----------------------------------------------------------------------------
(* Rows, jobs and orphans fit together: a row is started only by its job, a job   *)
(* that calls the provider has a started row, and no job is also pending.        *)
DcTypeOK ==
  /\ dcCursor \in 0..Len(dcEvents) /\ dcChecks \subseteq 1..Len(dcEvents)
  /\ dcRow \in [DcRows -> [st : {"none", "queued", "running"} \cup DcTerminal,
                           started : BOOLEAN, attempts : 0..MaxAttempts]]
  /\ \A i \in DcRows : dcJob[i] # "idle" => dcRow[i].attempts <= dcTries[i] /\ dcTries[i] <= MaxAttempts
  /\ dcJob \in [DcRows -> {"idle", "call", "sent"} \cup Preparing]
  /\ dcOrphan \in [DcRows -> {"no"} \cup Preparing]
  /\ dcPend \cap RunningJobs(DcRows) = {}
  /\ \A q \in {Reviews, Routes} : Cardinality(dcPend \cap q) <= DcPending /\ Cardinality(RunningJobs(q)) <= DcSlots

(* No decision's request is sent by two daemon processes: a review is queued      *)
(* again after a restart only if it cannot have been sent                      *)
(* (review::resume_never_sent).                                               *)
NeverSentTwice == \A i \in DcRows : Cardinality(dcSent[i]) <= 1

(* A finished decision stays as it is, whatever threads of its job survive the    *)
(* abort; only a restart takes an interrupted review back to the queue.          *)
FinishedStays ==
  [][\A i \in DcRows : dcRow[i].st \in DcTerminal /\ dcRow'[i] # dcRow[i]
       => dcRow[i].st = "interrupted" /\ dcDaemon' # dcDaemon]_dcVars

(* A review that list shows as fresh was built from the plan the task has now,     *)
(* although prepare reads plan and revision in two steps.                       *)
FreshIsCurrent ==
  \A e \in Reviews : dcRow[e].st = "succeeded" /\ dcEvid[e].whole /\ dcEvid[e].rev = dcPlan
                       => dcEvid[e].plan = dcPlan

(* The scan passes every event, also when a restart repeats an event whose        *)
(* checkpoint is already recorded.                                            *)
EventsPassed == \A e \in Reviews : (Len(dcEvents) >= e /\ dcUp) ~> (dcCursor >= e \/ ~dcUp)

(* A decision that is queued or running ends.                                  *)
DecisionsEnd == \A i \in DcRows : (Open(i) /\ dcUp) ~> (~Open(i) \/ ~dcUp)

\* The invariants together: what every request, crash and retry above must preserve.
DcInv ==
  /\ DcTypeOK
  /\ NeverSentTwice
  /\ FreshIsCurrent
=============================================================================
