CONSTANTS
  Node = {1, 2}
  Variable <- MCVariable
  Indexes <- AllButPos
  NULL = NULL
  MaxCount = 4
SPECIFICATION Spec
INVARIANTS
  TypeOK
  OperationsExact
  TerminalsShared
  RefcountExact
  NothingEmpty
  CountMostlyRight
  StatementsComplete
PROPERTY ImplementsTripleStore
