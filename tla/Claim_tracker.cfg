SPECIFICATION Spec
CONSTANTS
  Symbols = {s1}
  None = None
  Profits = {2}
  Moves = {3}
  Fee = 1
  Capacity = 2
  MaxEvents = 2
  MaxRuns = 1
CHECK_DEADLOCK FALSE
PROPERTIES TrackerCounts
