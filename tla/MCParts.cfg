CONSTANTS
  MaxNodes = 6
  Priority = {1, 2}
  MaxFirst = FALSE
  NWay = 3
  CSize = 2
  LineSize = 2
  Addr = {0, 1, 4, 8, 12, 14}
  MaxClock = 7
  m1 = m1
  m2 = m2
  m3 = m3
  MaxJbufs = 3
  Mask = {m1, m2, m3}
  FirstMask = m1
  Used = {"queue", "cache", "recovery", "output", "call", "itemsets", "similar"}
  Writer = {w1, w2}
  Attempts = 2
  Chunks = 2
  Absent = Absent
  NULL = NULL
  IntMax = 3
  SizeMax = 9
  PointerSize = 2
  BufferSize = 2
  CallsMade <- MCCallsMade
  Trans = {0, 1, 2}
  Items = {0, 1, 2}
  Requests <- MCRequests
  Tables <- MCTables
  Valued = {TRUE, FALSE}
  Present <- MCPresent
  Searches <- MCSearches
  MaxCalls = 2
  Others <- MCOthers
SPECIFICATION Spec
INVARIANTS
  LocatorExact
  HeapOrdered
  WaysSound
  BindingsSound
  TempsOwned
  FirstErrorReported
  AnswersRight
  ItemsetsRight
  SimilarRight
PROPERTIES
  PrioritySpec
  LRUSpec
  StackSpec
  AtomicSpec
