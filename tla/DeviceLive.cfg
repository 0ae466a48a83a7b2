CONSTANTS
  Kind = "Device"
  Names = {n1}
  Ids = {i1}
  NoId = NoId
  Values = {v1, v2}
  Empty = Empty
  Faults = {"error", "garbled", "lost"}
SPECIFICATION LiveSpec
PROPERTIES Converges DeletionCompletes Implements
