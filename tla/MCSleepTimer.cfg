SPECIFICATION Spec
CONSTANTS
  Freq = 5
  Milli = 2
  TvalBits = 5
  CounterBits = 8
  DebugAssertions = TRUE
  Seconds = {0, 1, 3, 100, 128}
  LastStart = 9
  MaxTicks = 28
INVARIANTS
  TypeOK
PROPERTIES
  NeverEarly
  SleepReturns
  IrqSettles
