SPECIFICATION Spec
CONSTANTS
  U64 = 64
  U32 = 16
  Args = {0, 1, 3, 20, 60}
  Addresses = {5, 31}
  Readable = {1, 3}
  LogBuf = 2
  DeviceLen = 3
  DeviceId = 1
INVARIANTS
  TypeOK
  ResultFaithful
CHECK_DEADLOCK FALSE
