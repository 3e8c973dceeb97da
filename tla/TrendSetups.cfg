SPECIFICATION Spec
CONSTANTS
  Candles <- Shapes
  Size = 7
  PerHour = 3
  LookBack = 1
  Offset = 1
  RR = 1
  Expiry = 2
CHECK_DEADLOCK FALSE
INVARIANTS TradesAreDue NewestStood
