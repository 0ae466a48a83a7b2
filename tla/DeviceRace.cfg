CONSTANTS
  Kind = "Device"
  Names = {n1}
  Ids = {i1, i2}
  NoId = NoId
  Values = {v1, v2}
  Empty = Empty
  Faults = {"race"}
SPECIFICATION Spec
PROPERTIES DeletedFromBoth
