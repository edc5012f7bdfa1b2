SPECIFICATION Spec
CONSTANTS
  MaxReview = 2
  MaxWork = 8
CHECK_DEADLOCK FALSE
PROPERTY RetryWithinDeadline
