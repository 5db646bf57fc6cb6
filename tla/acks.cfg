\* What a call that returned Ok has made durable, a secondary index and the ids,
\* through power losses, failing reads and compactions that fail before their swap.
CONSTANTS
  d1 = d1
  d2 = d2
  d3 = d3
  a = a
  b = b
  Docs = {d1, d2, d3}
  NoDoc = NoDoc
  MaxId = 2
  Faults = {"power", "read", "temp", "torn_header"}
  Fields = {"f"}
  Vals = {a, b}
  NoVal = NoVal
  FieldVal <- DocFields
  TooLarge = {}
  MaxLog = 3
  MaxShadows = 1
SPECIFICATION Spec
INVARIANTS
  IndexNeverChangesResult
  NextIdIsFresh
  NextIdBeyondLog
  AckIsDurable
PROPERTIES
  OnlyWritesChange
  ImplementsDurableKV
