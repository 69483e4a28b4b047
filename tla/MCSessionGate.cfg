SPECIFICATION Spec
CONSTANTS
  r1 = r1
  r2 = r2
  Requests = {r1, r2}
  Decisions = {"approved"}
  MaxNext = 1
  MaxFaults = 1
  MaxAsks = 1
  MayEnd = TRUE
  None = None
SYMMETRY Symmetry
INVARIANTS TypeOK ToldIsRecorded EndedTurnHoldsNothing StatusFollowsRows ResolvingHasJob
CHECK_DEADLOCK FALSE
