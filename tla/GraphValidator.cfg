SPECIFICATION Spec
CONSTANTS
  Nodes <- AllNodes
  Graphs <- Artifacts
  MaxBare = 2
INVARIANTS
  AcceptsExactlyExecutable
  WalkStaysOnRoles
  WalkIsBounded
CHECK_DEADLOCK FALSE
