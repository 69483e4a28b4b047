SPECIFICATION FairSpec
CONSTANTS
  a = a
  b = b
  c = c
  Requests = {a, b, c}
  MayCrash = TRUE
CHECK_DEADLOCK FALSE
INVARIANTS
  TypeOK
  PairStays
PROPERTY NothingLeft
