CONSTANTS
  Key = {1, 2, 3, 4, 5, 6, 7, 8, 9}
  Branching = 4
SPECIFICATION ForwardSpec
INVARIANTS
  TypeOK
  SearchFinds
  IterationAscends
  WellFormed
