SPECIFICATION Spec
CONSTANTS
  r1 = r1
  r2 = r2
  Requests = {r1}
  Decisions = {"approved"}
  MaxNext = 0
  MaxFaults = 1
  MaxAsks = 1
  MayEnd = FALSE
  None = None
INVARIANTS TimerKept
CHECK_DEADLOCK FALSE
