SPECIFICATION Spec
CONSTANTS
  v1 = v1
  v2 = v2
  PageSize = 45
  Bytes = {v1, v2}
  Payloads <- Uniform
  Zero = Zero
  Meta = Meta
  Deleted = Deleted
INVARIANTS TypeOK LayoutOK MetaIntact
PROPERTIES IsRowSlots
CHECK_DEADLOCK FALSE
