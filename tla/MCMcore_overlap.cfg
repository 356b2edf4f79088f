CONSTANTS
  p1 = p1
  p2 = p2
  p3 = p3
  p4 = p4
  p5 = p5
  Ptr = {p1, p2, p3, p4, p5}
  NULL = NULL
  SizeMax = 31
  PtrdiffMax = 15
  InitMops = 4
  MopBytes = 1
  CoreSize = 5
  StructBytes = 1
  Align = 2
  Requests <- MCRequests
  MaxFrames <- MCMaxFrames
  MaxPayloads <- OverlapPayloads
SPECIFICATION Spec
SYMMETRY PtrSymmetry
INVARIANT
  CoreBlocksDisjoint
