SPECIFICATION Spec
CONSTANTS
  A = A
  B = B
  v1 = v1
  v2 = v2
  Names = {A, B}
  Capacity <- OneAndNone
  Values = {v1}
  MaxPages = 4
  Absent = Absent
  Tombstone = Tombstone
  Nil = Nil
  Torn = Torn
  DiskFaults = TRUE
  SaveFaults = {"unopened", "torn"}
  Crashes = TRUE
  Scanned = {}
INVARIANTS CatalogLoads CatalogPagesExist ChainsDisjoint
