SPECIFICATION Spec
CONSTANTS
  Exceptions <- MCExceptions
  Functions <- MCFunctions
  Statement <- ContainedStatements
  Depth <- MCDepth
  Programs <- ContainedPrograms
  Patience = 30
  MaxTests = 4
INVARIANTS
  TypeOK
  MeansTheSame
  CheckedAtOnce
  ExceptsRestored
PROPERTY
  Terminates
CHECK_DEADLOCK FALSE
