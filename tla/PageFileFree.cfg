SPECIFICATION Spec
CONSTANTS
  d1 = d1
  d2 = d2
  NoData = NoData
  Absent = Absent
  InvalidPageId = 5
  Data = {d1, d2}
  WriteFaults = {"lost"}
  CrashMidOperation = FALSE
  ClientsRelease = TRUE
SYMMETRY Images
INVARIANTS TypeOK FreeListOK NoDoubleAllocation PagesAccountedFor
PROPERTIES ReopenKeepsMemory IsPageStore
