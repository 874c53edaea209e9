SPECIFICATION Spec
CONSTANTS
  RunParts = {"removals", "setups", "snapshots", "snapshots again", "registrations",
           "requests", "crashes", "plans", "entries", "cache threads",
           "cache processes", "fetches", "variants", "network", "images"}
  None = None
  RemovalsThreads = {"t1", "t2", "t3"}
  RemovalsIssued = 3
  RemovalsCalls = 3
  RemovalsFaults = 1
  SetUpsThreads = {"t1", "t2"}
  SetUpsIssued = 4
  SetUpsCalls = 3
  SetUpsFaults = 1
  AccountPasswords = {"p1", "p2"}
  SnapshotsSubscribers = {"s1", "s2"}
  SnapshotsAgainSubscribers = {"s1"}
  SnapshotsChanges = 3
  RegisteredLaunched = {"a1", "a2"}
  RegisteredStrangers = {"x"}
  RegisteredPids = {"n1", "n2"}
  RegisteredPeers = {"c1"}
  RegisteredPlaces = 1
  RegisteredRetries = 2
  RegisteredStops = 1
  RequestedAccounts = {"a1", "a2"}
  CrashingAccounts = {"a1"}
  InstallerSessions = {"s1"}
  RequestedThreads = {"t1"}
  PlannedThreads = {"t1", "t2"}
  MaxCode = 2
  NewKeyFrom = 3
  Declaring = {2}
  UnshownExits = 2
  RequestedExits = 1
  CrashingExits = 2
  CrashingCrashes = 2
  FetchCallers = {"r1", "r2"}
  FetchedVariants = {"v1"}
  FetchedLifetimes = {1}
  FetchedAge = 1
  FetchedTime = 2
  VariedVariants = {"v1", "v2"}
  VariedLifetimes = {0, 1}
  VariedAge = 0
  VariedTime = 1
  FetchAsks = 2
  VariedLosses = 1
  AnsweredIds = {"i1", "i2"}
  AnsweredRedirects = 0
  AnsweredRetries = 0
  AnsweredParts = 1
  LoadedImages = {"x"}
  LoadedLoads = {"l1", "l2", "l3"}
  LoadedFlights = 2
  LoadedParts = 1
  LoadedClears = 1
CHECK_DEADLOCK FALSE
INVARIANTS CredentialsKept SessionsToldAndServed VersionsKept CacheWhole FreshEnough
  AnswersInOrder
PROPERTIES NeverBack
