SPECIFICATION Spec
CONSTANTS
  Sources <- FourOperands
  Containers <- MCContainers
INVARIANT
  AlwaysRight
CHECK_DEADLOCK FALSE
