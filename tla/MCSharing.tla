----------------------------- MODULE MCSharing -------------------------------
(* What tasks and hosts share: leases of remote accounts, the tree of         *)
(* delegated tasks, its messages and budgets, environments, worktrees and     *)
(* storage. The parts share no state: part says which one a behaviour is of,  *)
(* and the others rest in one initial state.                                  *)
EXTENDS Leases, Delegation, Mailbox, Budget, Environment, Storage, Worktrees

VARIABLE part

\* Bound: of a lost call, a new version of the credential and a new grant, two at most.
LeaseBound == lostCalls' + credVersion' + grants' <= 4

\* Two generations of tasks, already delegated.
Chain == [c \in Children |-> IF c = "a" THEN Root ELSE IF c = "b" THEN "a" ELSE NoTask]
ChainInit ==
  /\ par = Chain /\ reqOf = [c \in Children |-> IF c = "c" THEN "none" ELSE "r1"]
  /\ dst = [t \in Tasks |-> IF t = "c" THEN "none" ELSE "running"]
  /\ ctx = 1 /\ rev = [c \in Children |-> 0] /\ acc = [c \in Children |-> NoAcc]
  /\ imp = [c \in Children |-> NoImp] /\ asked = {} /\ q = NoQuestion /\ replies = {}
  /\ settling = {}

\* The variables of all parts.
mcVars == <<part, leaseVars, treeVars, mailVars, budgetVars, envVars, storageVars, wtVars>>

Parts == {"lease", "leases", "grow", "ask", "accept", "mailbox", "budget", "environment", "storage", "worktrees"}

MCInit ==
  /\ part \in Parts
  /\ LeasesInit
  /\ part = "lease" => open = [s \in RemoteSteps |-> s = "s1"]
  /\ part = "leases" => open = [s \in RemoteSteps |-> TRUE]
  /\ part \notin {"lease", "leases"} => open = [s \in RemoteSteps |-> FALSE]
  /\ IF part \in {"ask", "accept"} THEN ChainInit ELSE TreeInit
  /\ MailInit
  /\ BudgetInit
  /\ EnvInit
  /\ StorageInit
  /\ WtInit

\* One part moves.
MCNext ==
  /\ UNCHANGED part
  /\ \/ /\ part = "lease" /\ ((LeasesWork \/ LeasesOperator) /\ LeaseBound)
        /\ UNCHANGED <<treeVars, mailVars, budgetVars, envVars, storageVars, wtVars>>
     \/ /\ part = "leases" /\ LeasesWork /\ lostCalls' = 0
        /\ UNCHANGED <<treeVars, mailVars, budgetVars, envVars, storageVars, wtVars>>
     \/ /\ part = "grow" /\ (TreeSettles \/ TreeGrows)
        /\ UNCHANGED <<leaseVars, mailVars, budgetVars, envVars, storageVars, wtVars>>
     \/ /\ part = "ask" /\ (TreeSettles \/ TreeAsks)
        /\ UNCHANGED <<leaseVars, mailVars, budgetVars, envVars, storageVars, wtVars>>
     \/ /\ part = "accept" /\ (TreeSettles \/ TreeAccepts)
        /\ UNCHANGED <<leaseVars, mailVars, budgetVars, envVars, storageVars, wtVars>>
     \/ /\ part = "mailbox" /\ MailNext
        /\ UNCHANGED <<leaseVars, treeVars, budgetVars, envVars, storageVars, wtVars>>
     \/ /\ part = "budget" /\ BudgetNext
        /\ UNCHANGED <<leaseVars, treeVars, mailVars, envVars, storageVars, wtVars>>
     \/ /\ part = "environment" /\ EnvNext
        /\ UNCHANGED <<leaseVars, treeVars, mailVars, budgetVars, storageVars, wtVars>>
     \/ /\ part = "storage" /\ StorageNext
        /\ UNCHANGED <<leaseVars, treeVars, mailVars, budgetVars, envVars, wtVars>>
     \/ /\ part = "worktrees" /\ WtNext
        /\ UNCHANGED <<leaseVars, treeVars, mailVars, budgetVars, envVars, storageVars>>

MCSpec == MCInit /\ [][MCNext]_mcVars

\* Leases of remote accounts: a step runs on its reserved account, the project's capacity
\* comes back when it ends, and a revoked grant stays out.
LeasesSafe ==
  /\ [](part \in {"lease", "leases"} => LeasesInv)

\* The tree of tasks and its mail: one child per request within the limits, an answer is
\* final and releases whoever waits for it, no message is skipped by a cursor, announced
\* twice, or answered by an endless cascade of follow-ups.
TasksSafe ==
  /\ [](part \in {"grow", "ask", "accept"} => TreeInv)
  /\ AnswerStable
  /\ [](part = "mailbox" => MailInv)

\* The host a task works on: an attempt is ruled idle only when it was, a hold stops and a
\* release continues every process; environments have their own ports and are removed when
\* stopped; a full disk is reported until there is headroom; and a worktree is removed only
\* when its work is merged and can be restored.
HostSafe ==
  /\ [](part = "budget" => BudgetInv)
  /\ [](part = "environment" => EnvInv)
  /\ [](part = "storage" => StorageInv)
  /\ [](part = "worktrees" => WtInv)
  /\ RemovedIsIntegrated /\ RecordedValidationHolds
=============================================================================
