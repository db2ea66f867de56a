SPECIFICATION Spec
CONSTANTS
  A = A
  B = B
  v1 = v1
  v2 = v2
  Names = {A, B}
  Capacity <- OneAndTwo
  Values = {v1, v2}
  MaxPages = 3
  Absent = Absent
  Tombstone = Tombstone
  Nil = Nil
  Torn = Torn
  DiskFaults = TRUE
  SaveFaults = {"unopened"}
  Crashes = FALSE
  Scanned = {}
INVARIANTS RowsReadable RowsReachable CatalogSaved PagesOwned NoPhantomRows
