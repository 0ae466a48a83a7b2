CONSTANTS
  Kind = "BoardPluginInjection"
  Names = {n1}
  Boards = {b1}
  Faults = {"gone"}
SPECIFICATION LiveSpec
PROPERTIES ReadyIsVerified
