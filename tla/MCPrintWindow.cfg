SPECIFICATION Spec
CONSTANTS
  s1 = s1
  s2 = s2
  s3 = s3
  Sends = {s1, s2}
  MaxRuns = 2
  MaxTerminations = 0
  NPlates = 1
  Reused = {}
SYMMETRY SendSymmetry
CHECK_DEADLOCK FALSE
INVARIANTS
  WindowHolds
