SPECIFICATION CallsSpec
CONSTANTS
  p1 = p1
  p2 = p2
  p3 = p3
  d1 = d1
  PoolSize = 2
  PageIds = {p1, p2, p3}
  InvalidPage = InvalidPage
  Data = {d1}
  Blank = Blank
  Absent = Absent
  MaxPins = 2
  DiskFaults = TRUE
SYMMETRY Symmetric
INVARIANT OnePinAtMost
PROPERTY KeepsContract
