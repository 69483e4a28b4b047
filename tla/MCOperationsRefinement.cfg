SPECIFICATION Spec
CONSTANTS
  s1 = s1
  s2 = s2
  s3 = s3
  Sends = {s1, s2, s3}
  MaxRuns = 3
  MaxTerminations = 0
  RunAttempts = 2
  AnswersRunning = TRUE
  HasPrelude = TRUE
  HasGate = TRUE
CHECK_DEADLOCK FALSE
PROPERTIES
  ImplementsKeyedCommand
