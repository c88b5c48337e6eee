SPECIFICATION Spec
CONSTANTS
  R = 8
  Word = 4
  Images = {1, 3}
  Uarts = {0}
  Stale <- MCStale
  TlbSize = 1
  Stamps = {"a"}
  Ids = {3, 6, 7}
  Timer = 6
  Spurious = 15
  EnableBits = 4
  PrioBytes = 2
  ByteValues = 4
  TimerPrio = 2
  PMR = 3
  Requested = {3, 6}
  Firmware = {7}
INVARIANTS
  CoreFindsImage
  HighMemory
  LowMemoryGone
  EnterUndisturbed
  OneFrame
  AllEnded
PROPERTIES
  ContextKept
  OnlyRequested
CHECK_DEADLOCK FALSE
