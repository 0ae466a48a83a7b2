CONSTANTS
  Kind = "BoardPluginInjection"
  Names = {n1, n2}
  Boards = {b1}
  Faults = {}
SPECIFICATION LiveSpec
PROPERTIES Heals
