CONSTANTS
  NULL = NULL
  Garbage = Garbage
  MaxFirst = 2
  GraphMax = 3
  Matrices <- MCMatrices
  MaxEntries <- MCEntries
  Values <- MCValues
  MaxWeight = 5
  SparseLimit = 1
  TopColor = 3
  Colors <- MCColors
  Fractions <- MCFractions
  Keepvals = {4}
  Zscores = {5}
SPECIFICATION Spec
INVARIANTS
  ViewsInStep
  Symmetrized
PROPERTIES
  MatrixSpec
