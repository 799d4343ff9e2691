SPECIFICATION FairSpec
CONSTANTS
  Client = {c1}
  SendCap = 1
  Instance = {i1}
  Request = {q1, q2}
  MaxBuild = 1
  MaxLine = 1
INVARIANT NeverPanics
PROPERTIES ServesLogStream BuildEnds GoneIsForgotten
CHECK_DEADLOCK FALSE
