CONSTANTS
  s1 = s1
  s2 = s2
  x1 = x1
  x2 = x2
  Services = {s1, s2}
  Pairs = {x1}
  Capacity = 1
  MaxPieces = 1
  MaxSignals = 2
SPECIFICATION FairSpec
INVARIANTS
  CleanEnd
PROPERTIES
  AppEndsSession
CHECK_DEADLOCK FALSE
