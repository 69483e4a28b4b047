SPECIFICATION Spec
CONSTANTS
  s1 = s1
  s2 = s2
  s3 = s3
  Sends = {s1, s2}
  MaxRuns = 2
  MaxTerminations = 1
  NPlates = 2
  Reused = {1, 2}
SYMMETRY SendSymmetry
CHECK_DEADLOCK FALSE
INVARIANTS
  TypeOK
  OnePrint
  NoOldRun
  UnqueuedIsTrue
  MessageAgrees
  PlatesOnce
  CancelRecords
