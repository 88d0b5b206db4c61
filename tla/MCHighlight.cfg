SPECIFICATION HlSpec
CONSTANTS
  Documents <- MCDocuments
  Configurations <- MCConfigurations
  highlight_indices <- MCHighlightIndices
  MaxByte = 9
  MaxLayers = 4
INVARIANTS
  EventsWellFormed
  ExtentsExact
  InjectionsConfined
  
  LinesBalanced
CHECK_DEADLOCK FALSE
