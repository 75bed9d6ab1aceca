CONSTANTS
  c1 = c1
  c2 = c2
  p1 = p1
  p2 = p2
  a1 = a1
  m1 = m1
  None = None
  Cids = {c1, c2}
  Packages = {p1, p2}
  Archives = {a1}
  Mounts = {m1}
  Commands <- MCCommands
  MergeSources <- MCSources
  MaxCommands = 4
SPECIFICATION FairSpec
INVARIANTS
  TypeOK
  DefaultListed
  Consistent
  
PROPERTIES
  CommandsEnd
