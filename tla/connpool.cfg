\* one connection at start, a second one created on demand: reuse of the
\* same object by two clients and growth of the pool both happen
CONSTANTS
  c1 = c1
  c2 = c2
  Conns = {c1, c2}
  InitConns = {c1}
  WaitTime = 1
  MaxTime = 2
  MaxClients = 3
  MaxMsgs = 2
  Main = Main
  Recy = Recy
  None = None
SPECIFICATION FairSpec
INVARIANTS NothingLost StaleMessagesShow NoEarlyRelease NoBufferLost
PROPERTIES EventuallyReclaimed StopEndsRecycler
