SPECIFICATION Spec
CONSTANTS
  Candles <- Shapes
  Size = 7
  Span = 14
  MinCandles = 2
  LookBack = 2
  ExpiryBars = 5
  MinDist = 3
INVARIANT SignalsAreRetests
PROPERTY SignalsStay
