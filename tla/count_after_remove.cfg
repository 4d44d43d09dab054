CONSTANTS
  Node = {1, 2}
  Variable <- MCVariable
  Indexes <- AllIndexes
  NULL = NULL
  MaxCount = 4
SPECIFICATION Spec
INVARIANT CountExact
