SPECIFICATION Spec
CONSTANTS
  None = None
  Tasks = {"t1", "t2"}
  Steps <- PairSteps
  Initial = {"code", "verify"}
  TaskOf <- PairAcross
  Needs <- PairNeeds
  WhenStep <- PairWhenStep
  WhenStatus <- PairWhenStatus
  Tries <- OnceTries
  Hops <- PairHops
  Agents = {"code", "verify"}
  Exclusive = {}
  Overlap = {}
  Concurrency = 1
  HostLimit = 1
  AccountLimit = 2
  AttemptIds <- TwoAttempts
  Ops = {"ask", "cancel", "crash", "revoke", "hold"}
INVARIANTS TypeOK NoStrandedWait HostCeiling
