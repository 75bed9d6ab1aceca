CONSTANTS
  a1 = a1
  a2 = a2
  s1 = s1
  s2 = s2
  Apps = {a1, a2}
  Sessions = {s1}
  Threads = {s1}
  Backend = "lxc"
  RestStates = {"stopped", "frozen"}
  StartFails = TRUE
  StopFails = TRUE
  MaxRestarts = 1
  ManualRestart = TRUE
SPECIFICATION FairSpec
INVARIANTS
  TypeOK
  CounterCounts
PROPERTIES
  KeepsLease
  ClientsReturn
