\* Every fault at once: calls return, and the state stays one the code can be in.
CONSTANTS
  d1 = d1
  d2 = d2
  d3 = d3
  a = a
  b = b
  Docs = {d1}
  NoDoc = NoDoc
  MaxId = 2
  Faults = {"write", "sync", "read", "temp", "rename", "reopen", "open", "kill", "power", "torn_header", "reorder"}
  Fields = {"f"}
  Vals = {a}
  NoVal = NoVal
  FieldVal <- DocFields
  TooLarge = {}
  MaxLog = 2
  MaxShadows = 1
SPECIFICATION FairSpec
INVARIANTS
  TypeOK
PROPERTIES
  CallsReturn
