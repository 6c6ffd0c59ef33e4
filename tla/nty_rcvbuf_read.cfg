\* the same instance, for the finding
CONSTANTS
  Size = 5
  InitWnd = 6
  Mod = 42
  irs = 39
  StreamLen = 7
  MaxSeg = 3
  Junk = Junk
SPECIFICATION Spec
INVARIANT ReadsInOrder
CHECK_DEADLOCK FALSE
