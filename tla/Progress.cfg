SPECIFICATION LoopSpec
CONSTANTS
  None = None
  Tasks = {"t1"}
  Steps <- PairSteps
  Initial = {"code"}
  TaskOf <- PairTaskOf
  Needs <- PairFollow
  WhenStep <- PairWhenStep
  WhenStatus <- PairWhenStatus
  Tries <- PairTries
  Hops <- PairHops
  Agents = {"code"}
  Exclusive = {"verify"}
  Overlap = {}
  Concurrency = 2
  HostLimit = 2
  AccountLimit = 2
  AttemptIds <- SixAttempts
  Ops = {"cancel", "break", "capacity", "loop", "crash", "stop", "release", "add", "report", "reconcile"}
PROPERTIES TaskSettles CancelStops
