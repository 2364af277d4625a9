SPECIFICATION Spec
CONSTANTS
  Sources <- MCSources
  Containers <- MCContainers
INVARIANTS
  TypeOK
  AdjoiningIsRight
  CallsComeInOrder
CHECK_DEADLOCK FALSE
