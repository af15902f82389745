SPECIFICATION FairSpec
CONSTANTS
  c1 = c1
  c2 = c2
  c3 = c3
  Conns = {c1, c2, c3}
  Null = Null
  MaxJoins = 3
INVARIANTS
  ShownIsRight
  UntoldIsOnCourse
PROPERTIES
  Converges
CHECK_DEADLOCK FALSE
