\* The sync of an insert under Always fails after its record is in place.
CONSTANTS
  d1 = d1
  d2 = d2
  d3 = d3
  a = a
  b = b
  Docs = {d1, d2}
  NoDoc = NoDoc
  MaxId = 2
  Faults = {"sync"}
  Fields = {}
  Vals = {a, b}
  NoVal = NoVal
  FieldVal <- DocFields
  TooLarge = {}
  MaxLog = 3
  MaxShadows = 1
SPECIFICATION Spec
INVARIANTS
  NextIdIsFresh
