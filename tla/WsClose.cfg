SPECIFICATION FairSpec
CONSTANT Builds = {TRUE, FALSE}
INVARIANTS
  ToldOnceInOrder
  OneCloseFrame
  ReasonReachesPeer
  FlushedBeforeClose
  ClosingIsTimed
PROPERTIES
  CloseEnds
CHECK_DEADLOCK FALSE
