SPECIFICATION FairSpec
CONSTANTS
  a = a
  b = b
  c = c
  Requests = {a, b, c}
  MayCrash = FALSE
CHECK_DEADLOCK FALSE
INVARIANTS
  BytesStay
