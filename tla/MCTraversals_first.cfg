CONSTANTS
  nvtxs = 3
  Graphs <- MCGraphs
  Starts <- MCStarts
  Weights <- MCWeights
  EveryTurn = 1000
  Stride = 25
SPECIFICATION Spec
INVARIANT FirstRowChosen
