\* The directory sync or re-open after compaction's rename fails.
CONSTANTS
  d1 = d1
  d2 = d2
  d3 = d3
  a = a
  b = b
  Docs = {d1, d2}
  NoDoc = NoDoc
  MaxId = 2
  Faults = {"reopen"}
  Fields = {}
  Vals = {a, b}
  NoVal = NoVal
  FieldVal <- DocFields
  TooLarge = {}
  MaxLog = 3
  MaxShadows = 1
SPECIFICATION Spec
INVARIANTS
  ReadsMatchLog
