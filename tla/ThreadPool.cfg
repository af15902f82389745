SPECIFICATION FairSpec
CONSTANTS
  w1 = w1
  t1 = t1
  t2 = t2
  Workers = {w1}
  Tasks = {t1, t2}
  NoTask = NoTask
  MaxQueueDepth = 2
  Tries = 2
INVARIANTS
  TasksAreKept
  ExclusiveSync
PROPERTIES
  FinishedIsReaped
  DestroyEnds
CHECK_DEADLOCK FALSE
