SPECIFICATION RunSpec
CONSTANTS
  Sides = {buy, sell}
  SignalBars = {2}
  MaxAttempt = 0
  Prices = {p1}
  None = None
  Expiry = 1
  MaxBar = 4
  Lag = 1
  MaxRuns = 1
  CancelOnNoSignal = TRUE
  AnswerLoss = FALSE
PROPERTIES ImplementsSlot ShutdownEnds GoneIsNoticed CandleOnce
