SPECIFICATION Spec
CONSTANTS
  Null = Null
  Size <- MCSize
  Window <- MCWindow
  MaxFailures = 1
INVARIANTS
  TypeOK
  CopiesFit
  ScreenFits
  NothingLost
  OnlyDistanceKept
CHECK_DEADLOCK FALSE
