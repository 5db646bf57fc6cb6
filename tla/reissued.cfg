\* Ids across compaction and re-open.
CONSTANTS
  d1 = d1
  d2 = d2
  a = a
  b = b
  Docs = {d1}
  NoDoc = NoDoc
  MaxId = 2
  Faults = {}
  Fields = {}
  Vals = {a, b}
  NoVal = NoVal
  FieldVal <- DocFields
  TooLarge = {}
  MaxLog = 3
  MaxShadows = 1
SPECIFICATION IdsSpec
PROPERTIES
  NeverReissued
