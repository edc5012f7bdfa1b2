CONSTANTS
  Keys = {k1, k2}
  Calls = {c1, c2}
  Freshness = 2
  MaxEdits = 0
  Repeats = TRUE
  Appended = {audit}
  MaxClock = 1
  Deliveries = {d1, d2}
  Lifetime = 1
  BatchSize = 3
  MaxDeliveries = 2
  NoDelivery = NoDelivery
  Works = {1, 2}
  Sweeps = {s1, s2}
  BatchLimit = 2
  StaleAfter = 1
  Timeout = 1
  MaxRechecks = 1
  MaxCommands = 1
  MaxRedrives = 1
  MaxSweepFaults = 0
  LastTick = 2
  Pubs = {1}
  Recoverers = {r1, r2}
  Limit = 1
  PubStaleAfter = 0
  Deadline = 1
  MaxPubRedrives = 1
  MaxTouches = 2
  MaxFailures = 2
  MaxPubFaults = 1
SYMMETRY SideSymmetry
SPECIFICATION SideSpec
CHECK_DEADLOCK FALSE
INVARIANTS RequestSound MarkedMeansExpiring RecoverySound RedrivesBounded
PROPERTY GrantedOnAuthority
