CONSTANTS
  NULL = NULL
  Garbage = Garbage
  Int32Max = 3
  SizeMax = 200
  MaxWeight = 100
  FirstCap = 1
  FirstLine = 2
  Width = 2
  ReadCalls <- MCReadCalls
  WriteCalls <- MCWriteCalls
SPECIFICATION Spec
CHECK_DEADLOCK FALSE
INVARIANT NothingLeaked
INVARIANT WithinCapacity
INVARIANT RoundTrip
PROPERTY MeaningSpec
