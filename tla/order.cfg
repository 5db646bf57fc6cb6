\* Indexed and scanned queries over values of every kind.
CONSTANTS
  DocIds = {1, 2, 3}
  Values <- SomeValues
  Universe <- AllValues
  Absent = Absent
  SignBit = 4
  MaxDepth = 3
  cmp <- total_cmp_value
SPECIFICATION Spec
INVARIANTS
  TypeOK
  FindAgrees
  RangeAgrees
  OrderIsTotal
PROPERTIES
  RebuildChangesNothing
