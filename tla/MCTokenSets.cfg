SPECIFICATION TokSpec
CONSTANTS
  Sets = {s1, s2}
  Terminals = {0, 128}
  Externals = {1}
  ChunkWords = 2
  MaxWords = 5
INVARIANTS
  ArenaSound
PROPERTIES
  TokenSetsAreSets
CHECK_DEADLOCK FALSE
