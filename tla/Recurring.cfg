SPECIFICATION MCSpec
CONSTANTS
  Attempts = {1}
  Months = {1}
  Quotes = {2}
  Credit = 2
  Limits = {3}
  Keys = {"k1"}
  LoginIds = {"l1"}
  RootOf <- LoginRoots
  Inputs = {"a"}
  QueueLimit = 1
  Members = {"w1","w2"}
  Tests = {}
  MaxMessages = 1
  MaxResults = 1
  MaxMailCrash = 1
  Procs = {"p1"}
  Budget = 1
  Envs = {"e1","e2"}
  Composed = {"e2"}
  OnWorker = {"e1"}
  Ports = {1,2}
  RootLimit = 1
  MaxUpset = 2
  Volumes = {"root"}
  TaskVolumes = {"root"}
  Held = {"a1"}
  MaxIncident = 1
  MaxOutage = 1
  MtTasks = {"t1"}
  MaxRev = 2
  MtBudget = 2
  Previews = {1,2}
  MaxOrd = 1
  MaxPubs = 2
  MaxEvents = 2
  Routes = {3,4}
  MaxDecisions = 2
  DcSlots = 1
  DcPending = 1
  MaxAttempts = 1
  MaxPlans = 1
  MaxDaemons = 2
PROPERTIES
  SavedReplyIsRecorded DaemonSettles AdviceSettles
CHECK_DEADLOCK FALSE
