SPECIFICATION Spec
CONSTANTS
  Tick = 4
  Step = 2
  MinQty = 2
  MaxQty = 8
  Risk = 30
  RR = 2
  Fee = 3
  Leverage = 2
  Entries <- PriceRange
  Distances <- StopRange
  Slips <- SlipRange
  Atrs = {0, 5}
  Balances = {0, 25, 100}
CHECK_DEADLOCK FALSE
INVARIANTS SoundOrder RiskKept StopSnapped
