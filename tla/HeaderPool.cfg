SPECIFICATION FairSpec
CONSTANTS
  a1 = a1
  a2 = a2
  a3 = a3
  a4 = a4
  b1 = b1
  b2 = b2
  b3 = b3
  alice = alice
  bob = bob
  Conns = {a1, a2, a3, a4, b1, b2}
  Peers = {alice, bob}
  Peer <- MCPeer
  MaxPool = 3
  LimitAh = 2
  LimitWsi = 3
INVARIANTS
  Accounting
  WaitListIsRight
  PeerOutlivesWsi
PROPERTIES
  WaitingEnds
CHECK_DEADLOCK FALSE
