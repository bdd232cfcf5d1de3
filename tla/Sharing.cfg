SPECIFICATION MCSpec
CONSTANTS
  RemoteSteps = {"s1","s2"}
  ProjectLimit = 1
  AccountLimit = 1
  MaxLease = 2
  MaxCredential = 2
  MaxGrant = 2
  MaxLost = 1
  Children = {"a","b","c"}
  Remote = {"b"}
  RequestIds = {"r1"}
  ChildLimit = 2
  DepthLimit = 2
  Answers = {"x","y"}
  MaxContextVersion = 3
  MaxRevision = 1
  Members = {"w1","w2"}
  Tests = {}
  MaxMessages = 2
  MaxResults = 1
  MaxMailCrash = 1
  Procs = {"p1"}
  Budget = 2
  Envs = {"e1","e2"}
  Composed = {"e2"}
  OnWorker = {"e1"}
  Ports = {1,2}
  RootLimit = 1
  MaxUpset = 2
  Volumes = {"root","home"}
  TaskVolumes = {"root"}
  Held = {"a1"}
  MaxIncident = 2
  MaxOutage = 1
  Crew = {"w1"}
  Pinned = FALSE
  BaseSet = TRUE
  Origin = TRUE
  MaxHead = 2
  MaxFall = 1
PROPERTIES
  FleetWithinLimit LeasesSafe TasksSafe HostSafe
CHECK_DEADLOCK FALSE
