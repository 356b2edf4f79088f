CONSTANTS
  nvtxs = 4
  Graphs <- MCGraphs
  Starts <- MCStarts
  Weights <- MCWeights
  EveryTurn = 1
  Stride = 2
SPECIFICATION Spec
INVARIANTS
  ComponentsFound
  BreadthFirstOrder
  BestFirstOrder
  ShortestLengths
