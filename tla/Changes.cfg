SPECIFICATION MCSpec
CONSTANTS
  None = None
  Tasks = {"t1"}
  Steps <- PlanSteps
  Initial = {"code", "repair", "ship"}
  TaskOf <- PlanTaskOf
  Needs <- PlanNeeds
  WhenStep <- PlanWhenStep
  WhenStatus <- PlanWhenStatus
  Tries <- PlanTries
  Hops <- PlanHops
  Agents = {"code", "repair", "ship"}
  Exclusive = {"lint"}
  Overlap = {}
  Concurrency = 2
  HostLimit = 2
  AccountLimit = 2
  AttemptIds <- SixAttempts
  Ops = {"break", "hold", "add", "capacity", "loop"}
  MaxCommits = 3
  MaxForeign = 2
  MaxRbOps = 3
  RecKeys = {"k1","k2"}
  MaxTrees = 2
  MaxRvMoves = 2
  MaxEvents = 2
  Routes = {3,4}
  MaxDecisions = 2
  DcSlots = 1
  DcPending = 1
  MaxAttempts = 2
  MaxPlans = 2
  MaxDaemons = 2
  Previews = {1,2}
  MaxOrd = 2
  MaxPubs = 3
  MaxReviews = 3
  MaxPvMoves = 3
  MaxDrift = 2
  MaxTries = 3
  MaxRelTries = 3
  MaxOthers = 3
  MtTasks = {"t1","t2"}
  MaxRev = 2
  MtBudget = 2
  MaxDeaths = 1
  MaxResumes = 1
  Packs = {"k1","k2"}
  MaxRows = 2
  MaxKills = 2
INVARIANTS
  ExclusiveAlone RetryBound
PROPERTIES
  DependencyOrder BranchSafe ReviewSafe DeliverySafe UpkeepSafe
CHECK_DEADLOCK FALSE
