SPECIFICATION Spec
CONSTANTS
  Client = {}
  SendCap = 1
  Instance = {i1, i2}
  Request = {q1, q2, q3}
  MaxBuild = 2
  MaxLine = 1
INVARIANTS OneBuild LogInOrder EditsKept
SYMMETRY Alike
CHECK_DEADLOCK FALSE
