SPECIFICATION FairSpec
CONSTANTS
  c1 = c1
  c2 = c2
  good = good
  bad = bad
  long = long
  broken = broken
  notes = notes
  null = null
  Conns = {c1, c2}
  Packets = {good, bad, broken}
  Fragment <- MCFragment
  Frags <- MCFrags
  Number <- MCNumber
  CRCValid = {good, notes}
  Unsplittable = {broken}
  Multiline = {notes}
  NoReply = null
  CanFail = FALSE
  Window = 1
  MaxSends = 3
  MaxBoots = 2
INVARIANT OneReplyEach
PROPERTY Answered
CHECK_DEADLOCK FALSE
