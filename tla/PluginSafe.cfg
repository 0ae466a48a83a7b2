CONSTANTS
  Kind = "BoardPluginInjection"
  Names = {n1, n2}
  Boards = {b1}
  Faults = {"error", "lost", "offline", "gone", "crash", "race"}
SPECIFICATION Spec
INVARIANTS TypeOK AccountInv NoOrphan
PROPERTIES Implements
SYMMETRY Symmetric
