\* A write fails after update or delete has taken the old document out of the index.
CONSTANTS
  d1 = d1
  d2 = d2
  d3 = d3
  a = a
  b = b
  Docs = {d1, d2}
  NoDoc = NoDoc
  MaxId = 2
  Faults = {"write"}
  Fields = {"f"}
  Vals = {a, b}
  NoVal = NoVal
  FieldVal <- DocFields
  TooLarge = {}
  MaxLog = 3
  MaxShadows = 1
SPECIFICATION Spec
INVARIANTS
  IndexNeverChangesResult
