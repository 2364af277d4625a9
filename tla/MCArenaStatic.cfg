SPECIFICATION Spec
CONSTANTS
  Clients = {c1}
  ChunkCount = 3
  ChunkSize = 4
  Stride = 2
  StaticMin = 3
  Sizes = {1, 2, 3}
  Values = {1}
  MaxStatic = 3
INVARIANTS TypeOK StaticsDisjoint
PROPERTY RefinesBlockStore
CHECK_DEADLOCK FALSE
