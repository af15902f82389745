SPECIFICATION CFairSpec
CONSTANTS
  c1 = c1
  blank = blank
  bad = bad
  firstWord = firstWord
  deviceA = deviceA
  deviceB = deviceB
  null = null
  Conns = {c1}
  Packets = {blank, bad}
  Fragment <- MCFragment
  Frags <- MCFrags
  Number <- MCNumber
  CRCValid = {blank}
  Unsplittable = {}
  Multiline = {}
  NoReply = null
  CanFail = TRUE
  Window = 1
  MaxSends = 2
  MaxBoots = 1
  Device <- MCDevice
  Word <- MCWord
  Tries = 2
  MaxChanges = 2
INVARIANTS
  StoredVerifies
  Settled
PROPERTIES
  AckIsKept
CHECK_DEADLOCK FALSE
