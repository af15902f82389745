SPECIFICATION Spec
CONSTANTS
  c1 = c1
  c2 = c2
  good = good
  bad = bad
  long = long
  broken = broken
  notes = notes
  null = null
  Conns = {c1, c2}
  Packets = {good}
  Fragment <- MCFragment
  Frags <- MCFrags
  Number <- MCNumber
  CRCValid = {good, notes}
  Unsplittable = {}
  Multiline = {notes}
  NoReply = null
  CanFail = FALSE
  Window = 1
  MaxSends = 2
  MaxBoots = 1
INVARIANT OwnRepliesOnly
CHECK_DEADLOCK FALSE
