SPECIFICATION Spec
CONSTANTS
  s1 = s1
  s2 = s2
  s3 = s3
  Sends = {s1, s2}
  MaxRuns = 2
  MaxTerminations = 1
  RunAttempts = 1
  AnswersRunning = FALSE
  HasPrelude = FALSE
  HasGate = FALSE
SYMMETRY SendSymmetry
CHECK_DEADLOCK FALSE
INVARIANT RepeatNeverRepeats
