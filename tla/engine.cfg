CONSTANTS
  Tasks <- MCTasks
  NodeKind <- MCNodeKind
SPECIFICATION Spec
CHECK_DEADLOCK FALSE
INVARIANTS
  JoinYieldsThePairs MergedInOrder PatternAnswers SubstitutionSelects ReorderedTriplesJoin
