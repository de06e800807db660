CONSTANTS
  PartSize = 3
  Size = {0, 1, 2, 4}
  MaxParts = 3
  Undef = Undef
SPECIFICATION Spec
INVARIANTS
  TypeOK
  Disjoint
  RestIsZero
  OnlyOversizedOverrun
