SPECIFICATION Spec
CONSTANTS
  Null = Null
  Size <- MCSize
  Window <- MCWindow
  MaxFailures = 1
INVARIANTS
  ReleasedWithDevice
CHECK_DEADLOCK FALSE
