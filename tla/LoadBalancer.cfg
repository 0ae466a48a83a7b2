CONSTANTS
  Functions = {f1, f2, f3}
  NodeCount = 2
  Capacity = 2
  MaxDoubts = 1
  Faults = {"silent", "late", "lost", "invalid", "garbled", "named"}
SPECIFICATION Spec
INVARIANTS TypeOK BalanceInv Balanced OneCopyPerAnswer
SYMMETRY Symmetric
CHECK_DEADLOCK FALSE
