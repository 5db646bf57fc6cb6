\* Two readers and a writer behind a lock, with the faults that leave a handle or
\* a file in its worst state.
CONSTANTS
  d1 = d1
  d2 = d2
  d3 = d3
  a = a
  r1 = r1
  r2 = r2
  Docs = {d1, d2, d3}
  NoDoc = NoDoc
  MaxId = 2
  Faults = {"rename", "reopen", "open", "power", "torn_header", "reorder"}
  Fields = {"f"}
  Vals = {a}
  NoVal = NoVal
  FieldVal <- DocFields
  TooLarge = {d3}
  MaxLog = 2
  MaxShadows = 1
  Readers = {r1, r2}
SPECIFICATION SharedFairSpec
INVARIANTS
  ReadsSeeOneState
PROPERTIES
  ReadsReturn
