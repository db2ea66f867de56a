SPECIFICATION Spec
CONSTANTS
  d1 = d1
  d2 = d2
  NoData = NoData
  Absent = Absent
  InvalidPageId = 5
  Data = {d1, d2}
  WriteFaults = {"lost", "torn", "rollback"}
  CrashMidOperation = TRUE
  ClientsRelease = FALSE
SYMMETRY Images
INVARIANTS NoDoubleAllocation
PROPERTIES IsPageStore
