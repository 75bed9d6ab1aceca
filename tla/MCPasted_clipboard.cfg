CONSTANTS
  w1 = w1
  w2 = w2
  host = host
  t1 = t1
  t2 = t2
  Surfaces = {w1, w2}
  Host = host
  Texts = {t1, t2}
  Nothing = Nothing
  Null = Null
  MaxCopies = 2
  MaxMoves = 3
SPECIFICATION Spec
INVARIANTS
  TypeOK
  ClipboardsAgree
  InItsName
PROPERTIES
  NoEcho
