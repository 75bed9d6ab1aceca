CONSTANTS
  s1 = s1
  s2 = s2
  x1 = x1
  x2 = x2
  Services = {}
  Pairs = {x1, x2}
  Capacity = 1
  MaxPieces = 2
  MaxSignals = 0
SPECIFICATION FairSpec
INVARIANTS
  TypeOK
  BridgesSound
PROPERTIES
  DataMoves
CHECK_DEADLOCK FALSE
