----------------------------- MODULE MCConverging ----------------------------
(* What daemons, workers and hosts settle between them: enrolment, pairing,   *)
(* streams, delegated work, fleet operations, updates, guests and packs. The  *)
(* parts share no state: part says which one a behaviour is of, and the       *)
(* others rest in one initial state.                                          *)
EXTENDS Admission, Pairing, Control, Federation, Fleet, Update, Ax, Catalog

VARIABLE part

\* Bounds: one task, of which the context or the plan changes; or two tasks.
FedBound ==
  part = "oneTask" => /\ fstatus'["t2"] = "none"
                      /\ fversion' = 1 \/ (fplan'["t1"] = {} /\ revising'["t1"] = NoRevising)

\* Bound: the update is the only command.
UpdBound == rop' = "none"

\* The variables of all parts.
mcVars == <<part, admVars, pairVars, ctlVars, fedVars, fleetVars, updVars, axVars, catVars>>

Parts == {"admission", "pairing", "control", "oneTask", "twoTasks", "fleet", "update", "ax", "catalog"}

MCInit ==
  /\ part \in Parts
  /\ AdmInit
  /\ PairInit
  /\ CtlInit
  /\ FedInit
  /\ part = "oneTask" => fstatus = [t \in Delegated |-> "none"]
  /\ part = "twoTasks" => fstatus = [t \in Delegated |-> "running"]
  /\ part \notin {"oneTask", "twoTasks"} => fstatus = [t \in Delegated |-> "none"]
  /\ FleetInit
  /\ part # "fleet" => release = [good |-> TRUE, safe |-> TRUE]
  /\ UpdInit
  /\ part # "update" => build = [supervised |-> TRUE, good |-> TRUE, migrates |-> TRUE]
  /\ AxInit
  /\ CatInit

\* One part moves.
MCNext ==
  /\ UNCHANGED part
  /\ \/ /\ part = "admission" /\ AdmNext
        /\ UNCHANGED <<pairVars, ctlVars, fedVars, fleetVars, updVars, axVars, catVars>>
     \/ /\ part = "pairing" /\ PairNext
        /\ UNCHANGED <<admVars, ctlVars, fedVars, fleetVars, updVars, axVars, catVars>>
     \/ /\ part = "control" /\ CtlNext
        /\ UNCHANGED <<admVars, pairVars, fedVars, fleetVars, updVars, axVars, catVars>>
     \/ /\ part = "oneTask" /\ FedNext /\ FedBound
        /\ UNCHANGED <<admVars, pairVars, ctlVars, fleetVars, updVars, axVars, catVars>>
     \/ /\ part = "twoTasks" /\ (FedPlaced \/ FedLinks \/ FedWorker \/ CancelDelegated("t2") \/ (\E m \in wire : Handle(m)))
        /\ UNCHANGED <<admVars, pairVars, ctlVars, fleetVars, updVars, axVars, catVars>>
     \/ /\ part = "fleet" /\ FleetNext
        /\ UNCHANGED <<admVars, pairVars, ctlVars, fedVars, updVars, axVars, catVars>>
     \/ /\ part = "update" /\ UpdNext /\ UpdBound
        /\ UNCHANGED <<admVars, pairVars, ctlVars, fedVars, fleetVars, axVars, catVars>>
     \/ /\ part = "ax" /\ AxNext
        /\ UNCHANGED <<admVars, pairVars, ctlVars, fedVars, fleetVars, updVars, catVars>>
     \/ /\ part = "catalog" /\ CatNext
        /\ UNCHANGED <<admVars, pairVars, ctlVars, fedVars, fleetVars, updVars, axVars>>

\* The fairness of the parts: the loops, timers and processes that keep running.
MCFairness ==
  \* The worker loop reconnects and renews; a request is answered, or its connection ends; not
  \* every answer is lost.
  /\ \A m \in Machines : WF_admVars(part = "admission" /\ GenerateKey(m))
  /\ \A m \in Machines : WF_admVars(part = "admission" /\ EnrollExchange(m))
  /\ \A m \in Machines : WF_admVars(part = "admission" /\ PersistState(m))
  /\ \A m \in Machines : WF_admVars(part = "admission" /\ InstallState(m))
  /\ \A m \in Machines : WF_admVars(part = "admission" /\ RenewIfDue(m))
  /\ \A m \in Machines : WF_admVars(part = "admission" /\ CloseStream(m))
  /\ \A m \in Machines : WF_admVars(part = "admission" /\ (\E k \in Invitations : k = home[m].pending /\ JoinFresh(m, k)))
  /\ \A m \in Machines : SF_admVars(part = "admission" /\ (\E r \in inbox : r.from = m /\ r.live /\ (RegisterNew(r) \/ RegisterKnown(r))))
  /\ WF_admVars(part = "admission" /\ (\E r \in inbox : RequestLost(r)))
  \* The operator repeats network add, and accept is not refused for a busy daemon for ever;
  \* commands return.
  /\ \A c \in Controllers : WF_pairVars(part = "pairing" /\ AddStart(c))
  /\ \A c \in Controllers : WF_pairVars(part = "pairing" /\ AddPacket(c))
  /\ \A c \in Controllers : WF_pairVars(part = "pairing" /\ AddRow(c))
  /\ \A c \in Controllers : WF_pairVars(part = "pairing" /\ AddManaged(c))
  /\ \A c \in Controllers : WF_pairVars(part = "pairing" /\ AddSend(c))
  /\ \A c \in Controllers : WF_pairVars(part = "pairing" /\ AddFails(c))
  /\ \A c \in Controllers : SF_pairVars(part = "pairing" /\ AcceptStart(c))
  /\ \A c \in Controllers : WF_pairVars(part = "pairing" /\ ActivateRead(c))
  /\ \A c \in Controllers : WF_pairVars(part = "pairing" /\ ActivateRow(c))
  /\ \A c \in Controllers : WF_pairVars(part = "pairing" /\ ActivateReady(c))
  /\ \A c \in Controllers : WF_pairVars(part = "pairing" /\ SetupKeys(c))
  /\ \A c \in Controllers : WF_pairVars(part = "pairing" /\ SetupDone(c))
  /\ \A f \in WorkerFiles : WF_pairVars(part = "pairing" /\ ApplyFile(f))
  /\ WF_pairVars(part = "pairing" /\ AcceptDone)
  \* The worker reconnects; a stream whose connection is gone is noticed by both ends.
  /\ WF_ctlVars(part = "control" /\ WorkerStarts)
  /\ WF_ctlVars(part = "control" /\ (\E g \in Gens : StreamOpens(g)))
  /\ WF_ctlVars(part = "control" /\ StreamDrops /\ (~link[wstream] \/ loop[wstream] # "run"))
  /\ \A g \in Gens : WF_ctlVars(part = "control" /\ LoopBreaks(g))
  \* The tick visits every link; the worker answers what it received; not every message is
  \* lost.
  /\ WF_fedVars(part \in {"oneTask", "twoTasks"} /\ FedLinks)
  /\ \A t \in Delegated : WF_fedVars(part \in {"oneTask", "twoTasks"} /\ SyncAsk(t))
  /\ \A t \in Delegated : WF_fedVars(part \in {"oneTask", "twoTasks"} /\ SyncApply(t))
  /\ \A t \in Delegated : WF_fedVars(part \in {"oneTask", "twoTasks"} /\ BlockSync(t))
  /\ \A op \in {"accept", "revoke", "cancel", "status"} : WF_fedVars(part \in {"oneTask", "twoTasks"} /\ (\E m \in wire : m.op = op /\ Handle(m)))
  \* The fleet loop ticks, and recovery runs at startup.
  /\ WF_fleetVars(part = "fleet" /\ FleetTick)
  /\ WF_fleetVars(part = "fleet" /\ RecoverOperations)
  \* The helper and the restarted daemon run; launchd or systemd starts it again.
  /\ WF_updVars(part = "update" /\ LaunchHelper /\ UpdBound)
  /\ WF_updVars(part = "update" /\ UpdStartup /\ UpdBound)
  /\ WF_updVars(part = "update" /\ UpdHelper /\ UpdBound)
  \* The loop ticks and the provider carries out what it accepted.
  /\ WF_axVars(part = "ax" /\ AxTick)
  /\ WF_axVars(part = "ax" /\ AxMoves)
  /\ WF_axVars(part = "ax" /\ AxEnrolls)
  /\ WF_axVars(part = "ax" /\ AxWorkEnds)
  \* Commands and installers that were not killed go on.
  /\ WF_catVars(part = "catalog" /\ LocalCommandReads)
  /\ WF_catVars(part = "catalog" /\ CliReads)
  /\ WF_catVars(part = "catalog" /\ BootstrapBegins)
  /\ \A p \in Installers : WF_catVars(part = "catalog" /\ InstallBegins(p))
  /\ \A p \in Installers : WF_catVars(part = "catalog" /\ (StagePack(p) \/ ActivatePack(p) \/ InstallCommits(p)))

MCSpec == MCInit /\ [][MCNext]_mcVars /\ MCFairness

\* Workers and controllers agree in the end: a worker enrols, installs what it saved, is
\* disconnected when revoked; a pairing completes; a stream returns; a cancelled task is
\* stopped on its worker.
WorkersSettle ==
  /\ Enrolls
  /\ SavedIsInstalled
  /\ RevokedDisconnects
  /\ Pairs
  /\ StreamReturns
  /\ CancelStopsWorker

\* Operations on machines are settled: each runtime gets its turn, an update handed over is
\* decided, a destroyed sandbox is gone or given up, and a requested pack is installed or
\* refused.
MachinesSettle ==
  /\ TriedInTurn
  /\ HandoffDecided
  /\ AxDestroySettles
  /\ RequestsSettle
=============================================================================
