\* Records of different lengths, a document that holds the frame of another
\* record, writes that stop anywhere, restarts, power losses and compactions.
CONSTANTS
  one = one
  two = two
  short = short
  quoting = quoting
  Ids = {one, two}
  Bodies = {short, quoting}
  BodyLen <- Lens
  Held <- HeldDelete
  MaxRecord = 6
  MaxCells = 11
SPECIFICATION Spec
INVARIANTS
  TypeOK
  CorruptNeedsFailedWrite
  TailIsEndOfLog
  GetsLastBody
PROPERTIES
  RecoversWritten
  CompactReclaimsSlack
