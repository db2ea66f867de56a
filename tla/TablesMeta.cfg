SPECIFICATION Spec
CONSTANTS
  none = none
  u = u
  post = post
  longest = longest
  longer = longer
  NameLength <- TriedNames
  ColumnLists <- TriedColumns
  MaxTables = 2
  MaxPages = 3
  Cuts <- TriedCuts
  Found <- FoundFiles
INVARIANTS SoundLoads FieldsApart CutIsNoCatalog
