CONSTANTS
  Kind = "BoardServiceInjection"
  Names = {n1}
  Boards = {b1}
  Faults = {"error"}
SPECIFICATION Spec
INVARIANTS NoOrphan
