SPECIFICATION MCSpec
CONSTANTS
  Attempts = {1,2}
  Months = {1,2}
  Quotes = {2,3}
  Credit = 2
  Limits = {5}
  Keys = {"k1","k2"}
  SignupIds = {"r1","r2"}
  Caps = {5,6}
  Amount = 4
  FeePoints = {3}
  Unit = 2
  Whole = 10
  LoginIds = {"l1","l2"}
  RootOf <- LoginRoots
  Inputs = {"a"}
  QueueLimit = 1
  Callers = {"c1","c2"}
  SignIns = {"s1"}
  Holds = {"h1"}
  MaxToken = 4
  MaxVersion = 4
  Controllers = {"c1","c2"}
  MaxPacket = 3
  MaxStop = 2
  Machines = {"m1"}
  Invitations = {"k1"}
  MaxWorkers = 2
  Lifetime = 2
  MaxClock = 2
  MaxInbox = 2
  MaxKeyPairs = 3
  MaxCerts = 3
  MaxBreak = 2
  Runtimes = {"r1","r2"}
  Names = {"a","b"}
  MaxBeats = 1
INVARIANTS
  NeverPaidTwice PaymentsAccounted
PROPERTIES
  MonthlyLimit DisabledNeverPays TopupPays SignupPays SignupSafe
  LoginSafe TokensSafe EnrolmentSafe
CHECK_DEADLOCK FALSE
