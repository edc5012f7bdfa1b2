CONSTANTS
  Keys = {k1}
  Calls = {c1}
  Freshness = 1
  MaxEdits = 1
  Repeats = FALSE
  Appended = {audit}
  MaxClock = 1
  Deliveries = {d1}
  Lifetime = 1
  BatchSize = 2
  MaxDeliveries = 2
  NoDelivery = NoDelivery
  Works = {1, 2}
  Sweeps = {s1}
  BatchLimit = 1
  StaleAfter = 1
  Timeout = 1
  MaxRechecks = 0
  MaxCommands = 0
  MaxRedrives = 1
  MaxSweepFaults = 1
  LastTick = 2
  Pubs = {1, 2}
  Recoverers = {r1}
  Limit = 1
  PubStaleAfter = 0
  Deadline = 1
  MaxPubRedrives = 0
  MaxTouches = 1
  MaxFailures = 0
  MaxPubFaults = 0
SPECIFICATION SideSpec
CHECK_DEADLOCK FALSE
PROPERTIES MarkedOrReported StrandedSettled EveryPublicationEnds
