CONSTANTS
  c1 = c1
  p1 = p1
  Cids = {c1}
  Packages = {p1}
  Requests <- PackageRequests
  Present = {c1}
  MaxTasks = 3
  Snap = FALSE
SPECIFICATION Spec
INVARIANTS
  TypeOK
  
  NoTwins
PROPERTIES
  KeepsLifecycle
