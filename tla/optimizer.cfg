CONSTANTS
  Contents <- MCContents
  Bgps <- MCBgps
  Services <- MCServices
  NodeKind <- MCNodeKind
SPECIFICATION Spec
CHECK_DEADLOCK FALSE
INVARIANTS
  EveryWayOnce PlannedOrder PlanAnswers
