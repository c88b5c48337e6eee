SPECIFICATION ProgSpec
CONSTANTS
  R = 9
  Frames = 68
  HeapFrames <- MCHeapFrames
  NodeReserved <- MCNodeReserved
  Nodes = {}
  DEFAULT_PC = 36
  DEFAULT_SP = 18
  DefaultStackPages = 4
  CodePages = 1
  ThreadPages = 4
  StackOffset = 0
  TableOffset = 2
  VmapStart = 90
  DeviceFrames = {}
  MapCounts = {12}
  UnmapStarts = {}
  Accesses = {}
  TlbSize = 0
  Trees <- MCTrees
  PageBytes = 2
  DtbFrame = 1
  DtbPages = 1
  BigBuffer = 12
INVARIANTS
  TreeReadable
  KernelSurvives
PROPERTIES
  SleepsForever
