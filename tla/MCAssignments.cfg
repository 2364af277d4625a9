CONSTANTS
  Functions <- MCFunctions
  Classes <- MCClasses
  Declared <- MCDeclared
  Values0 <- MCValues
  Heap0 <- MCHeap
  Body <- MCBody
  Programs <- MCPrograms
SPECIFICATION Spec
INVARIANTS
  TypeOK
  MeansPython
  RefusesTypeErrors
  WritesC
CHECK_DEADLOCK FALSE
