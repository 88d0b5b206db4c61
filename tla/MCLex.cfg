SPECIFICATION FairSpec
CONSTANTS
  UINT32_MAX = 100
  MaxVersions = 1
  ColumnAtEof = FALSE
  JunkEnds = {0}
  MinChunk = 3
  Inputs <- MCInputs
INVARIANTS
  CursorSound
  CursorTrue
  LookaheadCovered
PROPERTIES
  AdvanceProgress
  LexReturns
