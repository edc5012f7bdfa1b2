CONSTANTS
  MaxReview = 2
  MaxWork = 9
  MaxFaults = 2
  SellerWork = 4
SPECIFICATION MachineSpec
INVARIANT UpdateDetermined
CHECK_DEADLOCK FALSE
