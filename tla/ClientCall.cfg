SPECIFICATION FairSpec
CONSTANTS
  Placements = {p1}
  Cancels = {k1}
  MaxRetries = 5
CHECK_DEADLOCK FALSE
INVARIANTS OneOrder FailureExplained
PROPERTIES ImplementsRemote CallEnds
