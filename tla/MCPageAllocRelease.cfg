SPECIFICATION BoxSpec
CONSTANTS
  Capacity = 12
  EarlyHeapPages = 3
  TextStart = 3
  HeapStart = 5
  EndPage = 8
  EndPartial = TRUE
  DtbStart = 2
  DtbPages = 1
  Nodes <- MCTwoNodes
  Handles = {h1, h2, h3}
  MaxPages = 3
  ThreadPages = 3
  DebugAssertions = FALSE
INVARIANTS
  OwnedPagesMarked
CHECK_DEADLOCK FALSE
