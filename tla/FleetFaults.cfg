CONSTANTS
  Kind = "Fleet"
  Names = {n1}
  Ids = {i1, i2}
  NoId = NoId
  Values = {v1, v2}
  Empty = Empty
  Faults = {"error", "garbled", "lost", "lostCreate", "vanish", "crash", "race"}
SPECIFICATION Spec
INVARIANTS TypeOK AvailableIsProtected LockInv TraceInv
PROPERTIES FinalizerGuards UuidKept CreationIsBracketed DeletesOnlyDeleted
SYMMETRY Symmetric
