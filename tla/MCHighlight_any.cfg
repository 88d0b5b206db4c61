SPECIFICATION HlSpec
CONSTANTS
  Documents <- MCOnes
  Configurations <- MCConfigurations
  highlight_indices <- MCHighlightIndices
  MaxByte = 9
  MaxLayers = 4
INVARIANT
  NodesColored
CHECK_DEADLOCK FALSE
