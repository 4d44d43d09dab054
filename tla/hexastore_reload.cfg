CONSTANTS
  Node = {1, 2}
  Variable <- MCVariable
  Indexes <- AllIndexes
  NULL = NULL
  MaxCount = 2
SPECIFICATION ReloadSpec
INVARIANT SoundAfterReload
