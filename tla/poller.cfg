CONSTANTS
  Tasks = {a, b}
  NONE = NONE
  MaxRequest = 2
  MaxFault = 2
  MaxRestart = 1
SPECIFICATION FairSpec
INVARIANTS Tracked StopTruth ServedFresh
PROPERTIES StopEnds RequestServed
CHECK_DEADLOCK FALSE
