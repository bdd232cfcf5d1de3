----------------------------- MODULE MCMachines ------------------------------
(* The machines and accounts that work runs on: the reservations of shared    *)
(* accounts, work handed to other daemons, control of workers, and fleets of  *)
(* containers and guests. The parts share no state: part says which one a     *)
(* behaviour is of, and the others rest in one initial state.                 *)
EXTENDS MCScheduler, Federation, Control, Fleet, Lima, Ax

VARIABLE part

\* Bounds: one task, of which the context or the plan changes; or two tasks.
FedBound ==
  part = "oneTask" => /\ fstatus'["t2"] = "none"
                      /\ fversion' = 1 \/ (fplan'["t1"] = {} /\ revising'["t1"] = NoRevising)

\* The variables of all parts.
mcVars == <<part, vars, fedVars, ctlVars, fleetVars, vmVars, axVars>>

Parts == {"scheduler", "oneTask", "twoTasks", "control", "fleet", "lima", "ax"}

MCInit ==
  /\ part \in Parts
  /\ Init
  /\ FedInit
  /\ part = "oneTask" => fstatus = [t \in Delegated |-> "none"]
  /\ part = "twoTasks" => fstatus = [t \in Delegated |-> "running"]
  /\ part \notin {"oneTask", "twoTasks"} => fstatus = [t \in Delegated |-> "none"]
  /\ CtlInit
  /\ FleetInit
  /\ part # "fleet" => release = [good |-> TRUE, safe |-> TRUE]
  /\ VmInit
  /\ part # "lima" => vmName = [i \in VmIds |-> CHOOSE n \in VmNames : TRUE] /\ guest = [n \in VmNames |-> NoGuest]
  /\ AxInit

\* One part moves.
MCNext ==
  /\ UNCHANGED part
  /\ \/ /\ part = "scheduler" /\ Next
        /\ UNCHANGED <<fedVars, ctlVars, fleetVars, vmVars, axVars>>
     \/ /\ part = "oneTask" /\ FedNext /\ FedBound
        /\ UNCHANGED <<vars, ctlVars, fleetVars, vmVars, axVars>>
     \/ /\ part = "twoTasks" /\ (FedPlaced \/ FedLinks \/ FedWorker \/ CancelDelegated("t2") \/ (\E m \in wire : Handle(m)))
        /\ UNCHANGED <<vars, ctlVars, fleetVars, vmVars, axVars>>
     \/ /\ part = "control" /\ CtlNext
        /\ UNCHANGED <<vars, fedVars, fleetVars, vmVars, axVars>>
     \/ /\ part = "fleet" /\ FleetNext
        /\ UNCHANGED <<vars, fedVars, ctlVars, vmVars, axVars>>
     \/ /\ part = "lima" /\ VmNext
        /\ UNCHANGED <<vars, fedVars, ctlVars, fleetVars, axVars>>
     \/ /\ part = "ax" /\ AxNext
        /\ UNCHANGED <<vars, fedVars, ctlVars, fleetVars, vmVars>>

MCSpec == MCInit /\ [][MCNext]_mcVars

\* Work on other hosts: an assignment or call is carried out once, the controller's plan
\* follows the worker's, a cancellation is not forgotten, uncertain work stays blocked; the
\* newest stream is the registered one and nobody waits on an ended one.
FederationSafe ==
  /\ [](part \in {"oneTask", "twoTasks"} => FedInv)
  /\ CancelReachesWorker /\ UncertainStaysBlocked
  /\ [](part = "control" => CtlInv)
  /\ CapacityIsReal

\* Containers, guests and sandboxes: none is orphaned, oversold, removed by name from
\* somebody else, or left running unguarded; a failed update pauses the rollout; a machine
\* that is taken down has ended the work its drain found and is held.
FleetsSafe ==
  /\ [](part = "fleet" => FleetInv)
  /\ PausedStartsNone
  /\ [](part = "lima" => VmInv)
  /\ OthersGuestsKept
  /\ [](part = "ax" => AxInv)
  /\ DeletedAsFound
=============================================================================
