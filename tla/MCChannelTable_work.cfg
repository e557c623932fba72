SPECIFICATION FairSpec
CONSTANTS
  Workers = {w1, w2}
  Clients = {c1, c2, c3}
  Ids = {i1, i2}
  Chans = {h1, h2, h3}
  PipeCap = 1
  Failing = TRUE
  None = None
  Null = Null
INVARIANTS OneChannel OnePlace
PROPERTIES GiveEnds
CHECK_DEADLOCK FALSE
