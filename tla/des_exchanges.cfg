CONSTANTS
  Rank = {r1, r2, r3}
  NumSends = 1
  NumRecvs = 2
  WithCount = TRUE
  Load <- MCLoad
  Exchanges = 2
  MayFail = TRUE
  NULL = NULL
SPECIFICATION FairSpec
CHECK_DEADLOCK FALSE
INVARIANTS
  TypeOK
  SuccessMeansOver
  HandledRight
PROPERTY AllComplete
