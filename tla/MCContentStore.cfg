SPECIFICATION Spec
CONSTANTS
  k1 = k1
  k2 = k2
  p1 = p1
  p2 = p2
  b1 = b1
  b2 = b2
  Keys = {k1, k2}
  Bytes = {b1, b2}
  Ops = {p1, p2}
  MaxObjects = 3
  MaxStarts = 3
  MaxFaults = 1
  Sweeper = Sweeper
  None = None
SYMMETRY Symmetry
INVARIANTS TypeOK NamedIsStored Tracked
PROPERTIES ClaimKept
CHECK_DEADLOCK FALSE
