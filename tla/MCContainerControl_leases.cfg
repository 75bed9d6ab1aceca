CONSTANTS
  a1 = a1
  a2 = a2
  s1 = s1
  s2 = s2
  Apps = {a1, a2}
  Sessions = {s1, s2}
  Threads = {s1}
  Backend = "lxd"
  RestStates = {"stopped"}
  StartFails = FALSE
  StopFails = FALSE
  MaxRestarts = 0
  ManualRestart = FALSE
SPECIFICATION FairSpec
INVARIANTS
  KeptRunning
  CounterCounts
PROPERTIES
  Drains
  RefusalsEnd
