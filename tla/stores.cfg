CONSTANTS
  Terms <- MCTerms
  Triples <- MCTriples
  MapNodes <- MCMapNodes
  Base = 3
  MaxResources = 3
  MaxStatements = 3
  MaxCount = 2
SPECIFICATION Spec
CHECK_DEADLOCK FALSE
INVARIANTS TypeOK HoldsWhatWasAdded StatementsMatch CountsMatch
PROPERTY NamesStay
