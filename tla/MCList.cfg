SPECIFICATION Spec
CONSTANTS
  Elems = {1, 2}
  Garbage = Garbage
  Indices <- MCIndices
  Others <- MCOthers
  Factors <- MCFactors
  MinCapacity = 4
  MaxCapacity = 8
  None = None
  IndexError = IndexError
  ValueError = ValueError
INVARIANTS TypeOK WritesInside NoGarbage
PROPERTIES Thrifty RefinesList
CHECK_DEADLOCK FALSE
