SPECIFICATION FairSpec
CONSTANTS
  A = A
  B = B
  v1 = v1
  v2 = v2
  Names = {A, B}
  Capacity <- TwoAndNone
  Values = {v1}
  MaxPages = 3
  Absent = Absent
  Tombstone = Tombstone
  Nil = Nil
  Torn = Torn
  DiskFaults = TRUE
  SaveFaults = {"unopened"}
  Crashes = FALSE
  Scanned = {A, B}
INVARIANTS TypeOK ScanOnce ScanComplete
PROPERTY CallsReturn
