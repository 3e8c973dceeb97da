SPECIFICATION FairSpec
CONSTANTS
  Symbols = {s1, s2}
  MaxSignals = 2
CHECK_DEADLOCK FALSE
INVARIANTS TypeOK OneLateCycle
PROPERTIES NoCycleCut StopEnds
