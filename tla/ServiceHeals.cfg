CONSTANTS
  Kind = "BoardServiceInjection"
  Names = {n1}
  Boards = {b1, b2}
  Faults = {"error", "lost", "offline", "gone", "move"}
SPECIFICATION LiveSpec
PROPERTIES Heals DeletionEnds ReadyIsVerified
