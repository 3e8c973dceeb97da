SPECIFICATION FairSpec
CONSTANTS
  Symbols = {s1, s2}
  None = None
  Profits = {2}
  Moves = {4}
  Fee = 1
  Capacity = 2
  MaxEvents = 3
  MaxRuns = 1
CHECK_DEADLOCK FALSE
INVARIANTS TypeOK Accounted ClosesRecovered
PROPERTIES ImplementsLog EventJournaled
