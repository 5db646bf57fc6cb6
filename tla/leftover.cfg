\* A failed write followed by a shorter record.
CONSTANTS
  one = one
  two = two
  short = short
  quoting = quoting
  Ids = {one, two}
  Bodies = {short, quoting}
  BodyLen <- Lens
  Held <- HeldDelete
  MaxRecord = 6
  MaxCells = 11
SPECIFICATION Spec
INVARIANTS
  TornWriteNeverCorrupts
