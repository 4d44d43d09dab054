CONSTANTS
  Node = {1, 2, 3}
  Variable <- MCVariable
  Contents <- MCContents
SPECIFICATION FilledSpec
CHECK_DEADLOCK FALSE
INVARIANTS
  TypeOK
  SortedAsClaimed
PROPERTY ImplementsStream
