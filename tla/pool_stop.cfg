CONSTANTS
  w1 = w1
  w2 = w2
  Workers = {w1, w2}
  MaxMsgs = 1
  None = None
SPECIFICATION FairSpec
PROPERTY StopAllReturns
