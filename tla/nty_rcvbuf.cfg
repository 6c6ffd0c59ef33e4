\* seven bytes through a buffer of five: gaps, overlaps and the move of the
\* bytes to the front all happen; the numbers wrap after the second byte
CONSTANTS
  Size = 5
  InitWnd = 6
  Mod = 42
  irs = 39
  StreamLen = 7
  MaxSeg = 3
  Junk = Junk
SPECIFICATION FairSpec
INVARIANTS FragmentsExact AcknowledgesWhatItHas StoredInPlace
PROPERTIES EdgeNeverRetreats StreamGoesThrough
CHECK_DEADLOCK FALSE
