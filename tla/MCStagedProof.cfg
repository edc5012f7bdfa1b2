CONSTANTS
  Deadline = 1
  FreshUntil = 1
  ShopLimit = 1
  ProductLimit = 2
  Workers = {w1, w2}
  NoWorker = NoWorker
  PollBudget = 5
  MaxRedrives = 1
  MaxFaults = 0
SPECIFICATION MachineSpec
SYMMETRY WorkerSymmetry
INVARIANT UnknownWithoutProof
CHECK_DEADLOCK FALSE
