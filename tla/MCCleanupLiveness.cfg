CONSTANTS
  JudgeJobs = {j1, j2}
  Early = {}
  Poisoned = {j2}
  Runs = {r1}
  JudgePageSize = 1
  MaxAttempts = 2
  Dwell = 1
  Lease = 2
  Life = 1
  Margin = 1
  Backoff = 1
  MaxFaults = 1
  MaxSlow = 1
  MaxChanges = 0
  None = None
  JobOrder <- MCJobOrder
  JobRows <- MCOneRow
  OwnerRows <- MCOwnerRows
  Retention = 1
  Skew = 0
  ScanPageSize = 3
  RunSearches = 1
  RunAssignments = 1
  LastEnd = 1
  LastClock = 2
  MaxRaises = 1
  Requests = {p1}
  Keys = {k1}
  MaxVersions = 2
  AuthTTL = 1
  IntentTTL = 1
  LifecycleAge = 1
  InvocationLimit = 0
  ReleaseAge = 2
  TerminalRetention = 1
  PageSize = 1
  RunPages = 1
  MaxFailures = 1
  LastCreate = 0
  MaxClock = 4
SPECIFICATION CleanupSideSpec
CHECK_DEADLOCK FALSE
PROPERTIES EveryProductClosed TerminalJobsDisappear OrphansDeleted
