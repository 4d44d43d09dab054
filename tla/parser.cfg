CONSTANTS
  Files <- MCFiles
  BatchSize = 2
  Times = {0, 1}
  LastTime = 1
  FirstName = 4
  MaxFiles = 3
  Base = 256
SPECIFICATION Spec
CHECK_DEADLOCK FALSE
INVARIANTS BatchesReachTheStore BlankNodesApart
