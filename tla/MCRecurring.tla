----------------------------- MODULE MCRecurring -----------------------------
(* What the periodic loops of one daemon bring about: top-ups, logins,        *)
(* messages, budgets, environments, storage, previews and decisions. The      *)
(* parts share no state: part says which one a behaviour is of, and the       *)
(* others rest in one initial state.                                          *)
EXTENDS Topup, Login, Mailbox, Budget, Environment, Storage, Maintenance, Preview, Decision

VARIABLE part

LoginRoots == [l \in LoginIds |-> IF l = "l2" THEN "d2" ELSE "d1"]

\* Bounds: one preview that ages, or two that do not.
PvBound == IF part = "preview" THEN pvPhase'[2] = "none" /\ pvFresh'[2]
           ELSE pvFresh' = pvFresh /\ pvCount' <= 2

\* Bounds: two reviews whose requests are sent once; or beside one review that abstains
\* two routing decisions, or one and a restart.
Once(i) == dcTries[i] >= 1 => dcJob[i] # "call"
DcBound ==
  /\ Once(1)'
  /\ IF part = "reviews" THEN Once(2)' /\ dcRow'[3].st = "none" /\ dcRow'[4].st = "none"
     ELSE /\ Once(3)' /\ dcPlan' = 1 /\ dcAuth' /\ dcTask' \notin {"succeeded", "failed"}
          /\ dcEvents' \in {<<>>, <<[checkpoint |-> TRUE, rev |-> 0]>>}
          /\ (dcUp' /\ dcDaemon' = 1) \/ dcRow'[4].st = "none"

\* The variables of all parts.
mcVars == <<part, topupVars, loginVars, mailVars, budgetVars, envVars, storageVars, mtVars, pvVars, dcVars>>

Parts == {"topup", "login", "mailbox", "budget", "environment", "storage", "maintenance", "previews", "routes"}

MCInit ==
  /\ part \in Parts
  /\ TopupInit
  /\ part # "topup" => keyNow = CHOOSE k \in Keys : TRUE
  /\ LoginInit
  /\ MailInit
  /\ BudgetInit
  /\ EnvInit
  /\ StorageInit
  /\ MtInit
  /\ PvInit
  /\ part = "previews" => pvMute = {1}
  /\ part # "previews" => pvMute = {}
  /\ DcInit

\* One part moves.
MCNext ==
  /\ UNCHANGED part
  /\ \/ /\ part = "topup" /\ TopupNext
        /\ UNCHANGED <<loginVars, mailVars, budgetVars, envVars, storageVars, mtVars, pvVars,
                       dcVars>>
     \/ /\ part = "login" /\ LoginNext
        /\ UNCHANGED <<topupVars, mailVars, budgetVars, envVars, storageVars, mtVars, pvVars,
                       dcVars>>
     \/ /\ part = "mailbox" /\ MailNext
        /\ UNCHANGED <<topupVars, loginVars, budgetVars, envVars, storageVars, mtVars, pvVars,
                       dcVars>>
     \/ /\ part = "budget" /\ BudgetNext
        /\ UNCHANGED <<topupVars, loginVars, mailVars, envVars, storageVars, mtVars, pvVars,
                       dcVars>>
     \/ /\ part = "environment" /\ EnvNext
        /\ UNCHANGED <<topupVars, loginVars, mailVars, budgetVars, storageVars, mtVars, pvVars,
                       dcVars>>
     \/ /\ part = "storage" /\ StorageNext
        /\ UNCHANGED <<topupVars, loginVars, mailVars, budgetVars, envVars, mtVars, pvVars,
                       dcVars>>
     \/ /\ part = "maintenance" /\ MtNext
        /\ UNCHANGED <<topupVars, loginVars, mailVars, budgetVars, envVars, storageVars, pvVars,
                       dcVars>>
     \/ /\ part = "previews" /\ PvNext /\ PvBound
        /\ UNCHANGED <<topupVars, loginVars, mailVars, budgetVars, envVars, storageVars, mtVars,
                       dcVars>>
     \/ /\ part = "routes" /\ DcNext /\ DcBound
        /\ UNCHANGED <<topupVars, loginVars, mailVars, budgetVars, envVars, storageVars, mtVars,
                       pvVars>>

\* The fairness of the parts: the loops, timers and processes that keep running.
MCFairness ==
  \* The daemon checks every minute; a check that died or failed to write is tried again, and
  \* its last write does not fail every time.
  /\ WF_topupVars(part = "topup" /\ TopupTick)
  /\ SF_topupVars(part = "topup" /\ Finish)
  /\ WF_topupVars(part = "topup" /\ TopupAdvance)
  \* The supervisor has its own thread and wakes at the deadline; the handoff prints its
  \* instructions itself.
  /\ \A l \in LoginIds : WF_loginVars(part = "login" /\ SuperviseLogin(l))
  /\ \A l \in LoginIds : WF_loginVars(part = "login" /\ LoginOutput(l))
  \* The scheduler visits every running task and attempts return.
  /\ WF_mailVars(part = "mailbox" /\ NotifyCompletedChild)
  /\ WF_mailVars(part = "mailbox" /\ WakeCommit)
  /\ WF_mailVars(part = "mailbox" /\ SettleTask)
  /\ WF_mailVars(part = "mailbox" /\ FinishStray)
  /\ \A w \in Members : WF_mailVars(part = "mailbox" /\ BeginStep(w))
  /\ \A w \in Members : WF_mailVars(part = "mailbox" /\ FinishStep(w))
  /\ \A w \in Members : WF_mailVars(part = "mailbox" /\ WakeNotified(w))
  \* The sampler keeps running; the ruling finds the database free once in a while.
  /\ WF_budgetVars(part = "budget" /\ BudgetUnit)
  /\ WF_budgetVars(part = "budget" /\ Renew)
  /\ WF_budgetVars(part = "budget" /\ DeadlineDue)
  /\ WF_budgetVars(part = "budget" /\ PollRecord)
  /\ WF_budgetVars(part = "budget" /\ Rule)
  /\ SF_budgetVars(part = "budget" /\ RuleRead)
  \* The maintenance loop and the pass at startup run; a stop returns; a process that took over
  \* a pid ends.
  /\ \A e \in Envs : WF_envVars(part = "environment" /\ PassOver(e))
  /\ \A e \in Envs : WF_envVars(part = "environment" /\ Sweep(e))
  /\ \A e \in Envs : WF_envVars(part = "environment" /\ SweepRelease(e))
  /\ \A e \in Envs : WF_envVars(part = "environment" /\ EnvStop(e))
  /\ \A e \in Envs : WF_envVars(part = "environment" /\ EnvRelease(e))
  /\ \A e \in Envs : WF_envVars(part = "environment" /\ ForeignExits(e))
  \* The pressure loop measures and publishes every interval; the hook has a timeout.
  /\ WF_storageVars(part = "storage" /\ Measure)
  /\ WF_storageVars(part = "storage" /\ Publish)
  /\ WF_storageVars(part = "storage" /\ HookEnds)
  \* The guard polls for as long as the command runs.
  /\ \A t \in MtTasks : WF_mtVars(part = "maintenance" /\ CommandGuard(t))
  \* The scanner keeps ticking and its requests have a timeout.
  /\ WF_pvVars(part = "previews" /\ ScanStarts /\ PvBound)
  /\ WF_pvVars(part = "previews" /\ StatusAnswer /\ PvBound)
  /\ WF_pvVars(part = "previews" /\ Settle /\ PvBound)
  /\ WF_pvVars(part = "previews" /\ PvPublish /\ PvBound)
  \* The event loop ticks; its jobs return or time out.
  /\ WF_dcVars(part = "routes" /\ DcScan /\ DcBound)
  /\ WF_dcVars(part = "routes" /\ QueueTick(Reviews) /\ DcBound)
  /\ WF_dcVars(part = "routes" /\ QueueTick(Routes) /\ DcBound)
  /\ \A i \in DcRows : WF_dcVars(part = "routes" /\ DcJob(i) /\ DcBound)

MCSpec == MCInit /\ [][MCNext]_mcVars /\ MCFairness

\* The loops of a daemon finish what they began: a login ends, a message is seen, an idle
\* attempt is ruled on, pending cleanup is done, an incident gets its hook, and a command
\* stops when its authority is withdrawn.
DaemonSettles ==
  /\ LoginEnds
  /\ MailSeen
  /\ IdleIsRuled
  /\ PendingIsCleaned
  /\ IncidentGetsHook
  /\ RevokedCommandStops

\* Reservations of previews are settled although one of them never answers, every event is
\* passed by the reviewer, and every queued decision ends, also after a restart.
AdviceSettles ==
  /\ ReservationsSettle
  /\ EventsPassed
  /\ DecisionsEnd
=============================================================================
