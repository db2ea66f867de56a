SPECIFICATION Spec
CONSTANTS
  d1 = d1
  d2 = d2
  NoData = NoData
  Absent = Absent
  InvalidPageId = 4
  Data = {d1}
  WriteFaults = {}
  CrashMidOperation = TRUE
  ClientsRelease = TRUE

INVARIANT FirstAllocatablePageId
