CONSTANTS
  Kind = "Fleet"
  Names = {n1}
  Ids = {i1, i2, i3}
  NoId = NoId
  Values = {v1, v2}
  Empty = Empty
  Faults = {"error", "garbled", "lost", "vanish", "crash"}
SPECIFICATION Spec
INVARIANTS OneExternal NoOrphan OwnershipInv
PROPERTIES DeletedFromBoth
SYMMETRY Symmetric
