SPECIFICATION TagSpec
CONSTANTS
  Queries <- MCQueries
  Inputs <- MCInputs
  MaxLineLen = 4
INVARIANTS
  OneTagPerNode
  LinesTrue
CHECK_DEADLOCK FALSE
