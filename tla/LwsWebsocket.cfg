SPECIFICATION Spec
CONSTANTS
  c1 = c1
  c2 = c2
  good = good
  bad = bad
  long = long
  broken = broken
  notes = notes
  null = null
  Conns = {c1, c2}
  Packets = {good, long, broken, notes}
  Fragment <- MCFragment
  Frags <- MCFrags
  Number <- MCNumber
  CRCValid = {good, notes}
  Unsplittable = {broken}
  Multiline = {notes}
  NoReply = null
  CanFail = TRUE
  Window = 2
  MaxSends = 3
  MaxBoots = 2
SYMMETRY Symm
INVARIANTS
  TypeOK
  InOrderOnce
  WrittenIsLogged
  AckIsBacked
  LatestIsOnItsWay
CHECK_DEADLOCK FALSE
