SPECIFICATION Spec
CONSTANTS
  Clients = {c1, c2, c3}
  ChunkCount = 4
  ChunkSize = 3
  Stride = 2
  StaticMin = 4
  Sizes = {1, 2}
  Values = {1}
  MaxStatic = 1
SYMMETRY Symmetry
INVARIANTS TagsIntact BlocksDisjoint FlagsExact
PROPERTY RefinesBlockStore
CHECK_DEADLOCK FALSE
