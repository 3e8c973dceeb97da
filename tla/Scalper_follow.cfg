SPECIFICATION FairSpec
CONSTANTS
  Symbols = {s1, s2}
  Signals = {x1}
  None = None
  Results = {0}
  Limit = 0
  MaxPnl = 0
  AnswerLoss = FALSE
  MaxRuns = 2
PROPERTIES CloseNoticed PositionFollowed
