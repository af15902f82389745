SPECIFICATION Spec
CONSTANTS
  r1 = r1
  r2 = r2
  null = null
  a = a
  b = b
  garbage = garbage
  Readers = {r1, r2}
  NullTail = null
  Elements = {a, b}
  Garbage = garbage
  Count = 3
  ElementLens = {1, 2}
  DestroyElement = TRUE
  MaxBatch = 2
  MaxInserts = 5
INVARIANT CountsAddUp
PROPERTY ImplementsFifo
CHECK_DEADLOCK FALSE
