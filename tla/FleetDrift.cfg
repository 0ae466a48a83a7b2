CONSTANTS
  Kind = "Fleet"
  Names = {n1}
  Ids = {i1}
  NoId = NoId
  Values = {v1, v2}
  Empty = Empty
  Faults = {}
SPECIFICATION LiveSpec
PROPERTIES Converges
