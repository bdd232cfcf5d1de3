SPECIFICATION MCSpec
CONSTANTS
  Machines = {"m1"}
  Invitations = {"k1"}
  MaxWorkers = 2
  Lifetime = 2
  MaxClock = 2
  MaxInbox = 1
  MaxKeyPairs = 2
  MaxCerts = 3
  MaxBreak = 1
  Controllers = {"c1"}
  MaxPacket = 3
  MaxStop = 2
  Calls = {"x1"}
  PendingCap = 1
  MaxStream = 3
  MaxProc = 2
  Delegated = {"t1","t2"}
  RemoteRoots = {"t2"}
  Workers = 1
  Revisions = {}
  MaxContext = 1
  MaxFailed = 1
  FleetRuntimes = {"w1","w2"}
  Ready = {"w1"}
  FleetActs = {"create","restart"}
  MaxOps = 2
  MaxCrashes = 1
  MaxDeaths = 1
  MaxResumes = 0
  AxActs = {"create","start","stop","destroy","reconcile"}
  MaxAxOps = 2
  MaxAxFaults = 2
  Packs = {"k1","k2"}
  MaxRows = 2
  MaxKills = 1
PROPERTIES
  WorkersSettle MachinesSettle
CHECK_DEADLOCK FALSE
