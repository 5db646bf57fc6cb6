\* Documents of up to two edited fields, with values of every kind, and every
\* byte of their records damaged.
CONSTANTS
  ByteBits = 4
  LenWidth = 2
  IntWidth = 2
  MaxDepth = 18
  Names <- TwoNames
  Inputs <- SomeInputs
  Iterables <- SomeIterables
  Texts <- SomeTexts
  MaxRecord = 18
  MaxFields = 2
SPECIFICATION Spec
INVARIANTS
  NamesAreUnique
  BodyRoundTrips
  CutsAreCorrupt
  ChecksumIsCrc32c
  ReplayCatchesRot
  SerdeRoundTrips
PROPERTIES
  EditsTouchOneField
