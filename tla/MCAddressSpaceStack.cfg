SPECIFICATION Spec
CONSTANTS
  R = 6
  Frames = 23
  HeapFrames = {3, 4, 5, 6, 7, 8, 9, 10, 11, 12, 13, 14, 15}
  NodeReserved = {1, 2, 16}
  Nodes <- MCNodes
  DEFAULT_PC = 18
  DEFAULT_SP = 12
  DefaultStackPages = 4
  CodePages = 2
  ThreadPages = 4
  StackOffset = 0
  TableOffset = 2
  VmapStart = 42
  DeviceFrames = {100}
  MapCounts = {1, 7}
  UnmapStarts = {42, 50, 215}
  Accesses = {}
  TlbSize = 0
PROPERTIES
  StackMapsStack
CHECK_DEADLOCK FALSE
