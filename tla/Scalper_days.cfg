SPECIFICATION Spec
CONSTANTS
  Symbols = {s1, s2}
  Signals = {x1}
  None = None
  Results <- LossAndGain
  Limit = 1
  MaxPnl = 1
  AnswerLoss = TRUE
  MaxRuns = 2
SYMMETRY Symmetry
INVARIANTS TypeOK Durable
PROPERTIES TradedOnce FlatEntry ReportIsReal GuardCloses GuardReopens
