SPECIFICATION Spec
CONSTANTS
  k1 = k1
  k2 = k2
  k3 = k3
  k4 = k4
  v1 = v1
  v2 = v2
  Keys = {k1, k2, k3, k4}
  Vals = {v1, v2}
  Hashes <- MCHashes
  Assignments <- MCAssignments
  Others <- MCOthers
  MinCapacity = 4
  ShrinkPercent = 51
  MaxCapacity = 8
  ItemSizes = {10, 17}
  PointerSize = 8
  Careful = FALSE
  Tombstone = Tombstone
  None = None
  KeyError = KeyError
INVARIANT KeysFound
CHECK_DEADLOCK FALSE
