SPECIFICATION Spec
CONSTANTS
  t1 = t1
  t2 = t2
  Turns = {t1, t2}
  Placements = 2
  MaxReleases = 1
  MaxFaults = 2
  None = None
SYMMETRY Symmetry
INVARIANTS TypeOK MessageOnce ToldWhatLanded TurnsApart AcceptedNotLost
PROPERTIES OnlyItsEnd StoppedStays
CHECK_DEADLOCK FALSE
