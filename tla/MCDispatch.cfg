SPECIFICATION FairDispatch
CONSTANTS
  Works = {w1, bad1, bad2}
  Dispatchers = {d1, d2}
  Rejected = {bad1, bad2}
  Limit = 2
  MaxFaults = 2
  None = None
INVARIANTS StartedSettleable RowsTrue
PROPERTIES DeliveryKept WorkSettles
CHECK_DEADLOCK FALSE
