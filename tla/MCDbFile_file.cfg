CONSTANTS
  p1 = p1
  p2 = p2
  p3 = p3
  Nobody = Nobody
  Hole = Hole
  Procs = {p1, p2}
  Size <- MCSize
  MaxTries = 2
  MaxOps = 4
  MaxKills = 1
SPECIFICATION FairSpec
INVARIANTS
  TypeOK
  FileSound
  FreshMemory
PROPERTIES
  OperationsEnd
