SPECIFICATION Spec
CONSTANTS
  Exceptions <- MCExceptions
  Functions <- MCFunctions
  Statement <- JumpingStatements
  Depth <- MCDepth
  Programs <- JumpingPrograms
  Patience = 30
  MaxTests = 2
INVARIANT
  ExceptsRestored
CHECK_DEADLOCK FALSE
