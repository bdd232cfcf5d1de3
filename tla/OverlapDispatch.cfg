SPECIFICATION Spec
CONSTANTS
  None = None
  Tasks = {"t1"}
  Steps <- PairSteps
  Initial = {"code", "verify"}
  TaskOf <- PairTaskOf
  Needs <- PairNeeds
  WhenStep <- PairWhenStep
  WhenStatus <- PairWhenStatus
  Tries <- PairTries
  Hops <- PairHops
  Agents = {"code", "verify"}
  Exclusive = {}
  Overlap <- PairOverlap
  Concurrency = 2
  HostLimit = 2
  AccountLimit = 2
  AttemptIds <- ThreeAttempts
  Ops = {}
INVARIANT OverlapSerializes
