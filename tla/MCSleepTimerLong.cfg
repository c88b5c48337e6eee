SPECIFICATION Spec
CONSTANTS
  Freq = 4
  Milli = 2
  TvalBits = 4
  CounterBits = 8
  DebugAssertions = TRUE
  Seconds = {0, 3}
  LastStart = 9
  MaxTicks = 28
PROPERTIES
  SleepReturns
