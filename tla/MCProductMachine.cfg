CONSTANTS
  MaxReview = 2
  MaxWork = 9
  MaxFaults = 2
  SellerWork = 4
SPECIFICATION FairSpec
INVARIANTS MachineSound LateCallsSafe
PROPERTIES QuietAfterEnd MachineEnds PromiseKept
CHECK_DEADLOCK FALSE
