CONSTANTS
  MaxReview = 2
  MaxWork = 6
  Calls = {c1, c2}
  Listings = {good, other, bad}
  ValidOnes = {good, other}
  NoListing = NoListing
  LastVersion = 2
SPECIFICATION JobSpec
SYMMETRY FirstPhaseSymmetry
INVARIANTS TypeOK OneShot PermitsAccounted JobCoherent WorkflowSound
PROPERTIES CommitAccepted CallsKept
CHECK_DEADLOCK FALSE
