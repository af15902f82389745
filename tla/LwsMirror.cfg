SPECIFICATION MFairSpec
CONSTANTS
  c1 = c1
  c2 = c2
  c3 = c3
  x = x
  Conns = {c1, c2, c3}
  Names = {x}
  QUEUELEN = 4
  RXFLOW_MIN = 2
  MaxInstances = 1
  NoName = NoName
  Garbage = Garbage
  DestroyElement = TRUE
  MaxMessages = 4
INVARIANTS
  NothingLost
  NobodyStalls
  OnlySlowestTimed
PROPERTIES
  NeverShut
CHECK_DEADLOCK FALSE
