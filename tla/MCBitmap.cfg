SPECIFICATION Spec
CONSTANTS
  WordBits = 3
  SIZE = 3
  DebugAssertions = TRUE
INVARIANTS
  TypeOK
  FindHoleIsFirstFit
  RangeLoopsExact
  ZeroRangeExact
  MoveForwardExact
CHECK_DEADLOCK FALSE
