CONSTANTS
  p1 = p1
  p2 = p2
  p3 = p3
  p4 = p4
  p5 = p5
  Ptr = {p1, p2, p3, p4, p5}
  NULL = NULL
  SizeMax = 21
  PtrdiffMax = 11
  InitMops = 3
  MopBytes = 1
  CoreSize = 5
  StructBytes = 1
  Align = 2
  Requests <- MCRequests
  MaxFrames <- MCMaxFrames
  MaxPayloads <- MCMaxPayloads
SPECIFICATION Spec
SYMMETRY PtrSymmetry
INVARIANTS
  StorageOwned
  CountersExact
  DisjointInside
PROPERTIES
  RefusalKeepsState
