SPECIFICATION FairSpec
CONSTANTS
  c1 = c1
  c2 = c2
  Conns = {c1, c2}
  Requests <- MCRequests
  Pipelined = 2
  MaxRequests <- MCMaxRequests
  MaxAccepts = 3
INVARIANTS
  ResponsesAreWhole
  NeverForgotten
PROPERTIES
  RequestEnds
CHECK_DEADLOCK FALSE
