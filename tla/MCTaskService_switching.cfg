CONSTANTS
  c1 = c1
  p1 = p1
  Cids = {c1}
  Packages = {p1}
  Requests <- SwitchRequests
  Present = {}
  MaxTasks = 3
  Snap = TRUE
SPECIFICATION FairSpec
INVARIANTS
  LockDiscipline
PROPERTIES
  OutcomeStands
  EveryOperationEnds
  ObjectsReleased
