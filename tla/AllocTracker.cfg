\* SIZE_MAX = 6 and PTRDIFF_MAX = 3: requests of 0, 2 and 4 bytes meet the forced
\* byte, the limit of one request and, added up, the limit of the statistics. The
\* log starts with two slots, can double once, and then meets the overflow check
\* of the next doubling. No symmetry: RegionSpec contains a liveness property.
CONSTANTS
  p1 = p1
  p2 = p2
  p3 = p3
  Ptr = {p1, p2, p3}
  NULL = NULL
  SizeMax = 6
  PtrdiffMax = 3
  InitMops = 2
  MopBytes = 1
  Sizes = {0, 2, 4}
SPECIFICATION Spec
INVARIANTS
  LogWellFormed
  RecordsOwnBlocks
  StatsExact
PROPERTIES
  FailureIsNoOp
  RegionSpec
