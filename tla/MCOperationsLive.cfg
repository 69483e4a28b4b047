SPECIFICATION FairSpec
CONSTANTS
  s1 = s1
  s2 = s2
  s3 = s3
  Sends = {s1, s2}
  MaxRuns = 2
  MaxTerminations = 1
  RunAttempts = 1
  AnswersRunning = TRUE
  HasPrelude = TRUE
  HasGate = FALSE
CHECK_DEADLOCK FALSE
PROPERTIES
  RunningRowsEnd
  SendsAnswered
  RunsClose
