CONSTANTS
  CommSize = 3
  Sizes <- MCSizes
  BufSizes <- MCBufSizes
SPECIFICATION Spec
CHECK_DEADLOCK FALSE
INVARIANTS BytesOnce LinesExact
PROPERTY AllLoaded
