\* Kills and power losses at every step, and system calls that fail.
CONSTANTS
  d1 = d1
  d2 = d2
  d3 = d3
  a = a
  b = b
  Docs = {d1}
  NoDoc = NoDoc
  MaxId = 2
  Faults = {"kill", "power", "write", "read", "sync", "temp", "open"}
  Fields = {}
  Vals = {a, b}
  NoVal = NoVal
  FieldVal <- DocFields
  TooLarge = {}
  MaxLog = 2
  MaxShadows = 1
SPECIFICATION Spec
INVARIANTS
  ReadsMatchLog
  CorruptNeedsFailedWrite
PROPERTIES
  NeverEditedInPlace
  ImplementsDurableKV
