SPECIFICATION Spec
CONSTANTS
  Schemas <- SmallSchemas
  Rows <- SmallRows
  Refused = Refused
  Nothing = Nothing
INVARIANTS NoOverrun RoundTrip AcceptedRowsFit
