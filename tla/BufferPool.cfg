SPECIFICATION Spec
CONSTANTS
  p1 = p1
  p2 = p2
  p3 = p3
  d1 = d1
  p4 = p4
  PoolSize = 3
  PageIds = {p1, p2, p3, p4}
  InvalidPage = InvalidPage
  Data = {d1}
  Blank = Blank
  Absent = Absent
  MaxPins = 2
  DiskFaults = TRUE
SYMMETRY Symmetric
INVARIANTS TypeOK SlotsPartitioned PageTableConsistent CleanMatchesDisk
PROPERTIES PinnedStay SaveAllIsDurable IsCachedStore
