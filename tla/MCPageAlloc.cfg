SPECIFICATION BoxSpec
CONSTANTS
  Capacity = 12
  EarlyHeapPages = 3
  TextStart = 3
  HeapStart = 5
  EndPage = 8
  EndPartial = TRUE
  DtbStart = 2
  DtbPages = 1
  Nodes <- MCNodes
  Handles = {h1, h2, h3}
  MaxPages = 3
  ThreadPages = 3
  DebugAssertions = TRUE
INVARIANTS
  TypeOK
  OwnedPagesMarked
  SlicesDisjoint
  ReservedNotHandedOut
  HandsOutRamOnly
  ZerosKept
PROPERTIES
  GrowKeepsOldPages
  PoolSpec
CHECK_DEADLOCK FALSE
