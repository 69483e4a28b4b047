SPECIFICATION Spec
CONSTANTS
  s1 = s1
  s2 = s2
  s3 = s3
  Sends = {s1, s2, s3}
  MaxRuns = 3
  MaxTerminations = 1
  RunAttempts = 1
  AnswersRunning = FALSE
  HasPrelude = FALSE
  HasGate = TRUE
SYMMETRY SendSymmetry
CHECK_DEADLOCK FALSE
INVARIANTS
  TypeOK
  EffectOnce
  AttemptOnce
  NothingDoneIsTrue
  RecordMeansCompleted
  LostOnlyIfClosed
  AnswersAgree
  GoneOnlyIfPruned
PROPERTIES
  RecordIsFinal
