SPECIFICATION FairSpec
CONSTANTS
  Mss = 2
  OptLen = 1
  SndBuf = 2
  TCP_MAX_RTX = 1
  RcvWnd = 9
  PeerWnds <- MCPeerWnds
  SendLen = 1
  MaxCwnd = 4
  MaxOut = 2
  MaxIn = 1
  Wire = 1
  MaxNxt = 6
  ManyFaults = FALSE
INVARIANTS NoAssertionFails OneTimerOnly StatesAgreeWithPeer NobodySleepsOn
PROPERTY OnlyTimersTakeItAway SendsAStream ReceivesAStream CloseEnds
CHECK_DEADLOCK FALSE
