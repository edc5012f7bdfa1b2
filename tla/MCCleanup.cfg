CONSTANTS
  JudgeJobs = {j1, j2}
  Early = {}
  Poisoned = {j2}
  Runs = {r1, r2}
  JudgePageSize = 1
  MaxAttempts = 2
  Dwell = 1
  Lease = 2
  Life = 1
  Margin = 1
  Backoff = 1
  MaxFaults = 1
  MaxSlow = 1
  MaxChanges = 1
  None = None
  JobOrder <- MCJobOrder
  JobRows <- MCJobRows
  OwnerRows <- MCOwnerRows
  Retention = 1
  Skew = 1
  ScanPageSize = 2
  RunSearches = 1
  RunAssignments = 2
  LastEnd = 1
  LastClock = 2
  MaxRaises = 0
  Requests = {p1, p2}
  Keys = {k1}
  MaxVersions = 1
  AuthTTL = 1
  IntentTTL = 2
  LifecycleAge = 2
  InvocationLimit = 1
  ReleaseAge = 3
  TerminalRetention = 1
  PageSize = 1
  RunPages = 1
  MaxFailures = 1
  LastCreate = 0
  MaxClock = 4
SPECIFICATION CleanupSideSpec
CHECK_DEADLOCK FALSE
SYMMETRY CleanupSymmetry
INVARIANTS DeletionSound ExpirySound SourceKept
