CONSTANTS
  Deadline = 2
  FreshUntil = 1
  ShopLimit = 1
  ProductLimit = 3
  Workers = {w1, w2}
  NoWorker = NoWorker
  PollBudget = 8
  MaxRedrives = 1
  MaxFaults = 1
SPECIFICATION FairMachineSpec
INVARIANTS OnePost OutcomesTrue
PROPERTIES PromiseKept Settles
CHECK_DEADLOCK FALSE
