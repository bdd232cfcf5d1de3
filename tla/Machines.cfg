SPECIFICATION MCSpec
CONSTANTS
  None = None
  Tasks = {"t1", "t2"}
  Steps <- PairSteps
  Initial = {"code", "verify"}
  TaskOf <- PairAcross
  Needs <- PairNeeds
  WhenStep <- PairWhenStep
  WhenStatus <- PairWhenStatus
  Tries <- PairTries
  Hops <- PairHops
  Agents = {"code", "verify"}
  Exclusive = {}
  Overlap = {}
  Concurrency = 1
  HostLimit = 2
  AccountLimit = 1
  AttemptIds <- ThreeAttempts
  Ops = {"revoke", "crash", "reconcile", "stop", "release"}
  Delegated = {"t1","t2"}
  RemoteRoots = {"t2"}
  Workers = 1
  Revisions = {"r1"}
  MaxContext = 2
  MaxFailed = 1
  Calls = {"x1","x2"}
  PendingCap = 1
  MaxStream = 3
  MaxProc = 2
  FleetRuntimes = {"w1","w2"}
  Ready = {"w1"}
  FleetActs = {"create","destroy","restart","update","reconcile","skills"}
  MaxOps = 2
  MaxCrashes = 1
  VmIds = {"g1","g2"}
  VmActs = {"create","start","stop","destroy","reconcile"}
  VmNames = {"n1","n2"}
  VmCpus = 1
  HostCpus = 1
  MaxVmOps = 3
  MaxVmFaults = 1
  AxActs = {"create","start","stop","destroy","reconcile"}
  MaxAxOps = 3
  MaxAxFaults = 2
INVARIANTS
  AccountCeiling
PROPERTIES
  FederationSafe FleetsSafe
CHECK_DEADLOCK FALSE
