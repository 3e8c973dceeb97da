SPECIFICATION Spec
CONSTANTS
  Sides = {buy, sell}
  SignalBars = {2}
  MaxAttempt = 1
  Prices = {p1, p2}
  None = None
  Expiry = 1
  MaxBar = 3
  Lag = 0
  MaxRuns = 2
  CancelOnNoSignal = FALSE
  AnswerLoss = TRUE
SYMMETRY Symmetry
INVARIANTS TypeOK SinglePending NoStrayOrder TrackedIsReal
PROPERTIES PositionGuard FreshSignal
