\* INT_MAX is 7 and the hash has 4-bit unsigned arithmetic: a table of 4 slots
\* cannot be doubled, one of 3 slots would outgrow MaxSlots.
CONSTANTS
  Key <- CollidingKeys
  Val = {7, 8}
  UnsignedMod = 16
  IntMax = 7
  MaxSlots = 5
  Capacities = {0, 1, 3, 6}
  MaxDepth = 1
SPECIFICATION Spec
PROPERTY ScanFindsKey
