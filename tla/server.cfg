\* two descriptors, two connection objects and three clients, so that both
\* a descriptor and an object are used again
CONSTANTS
  c1 = c1
  c2 = c2
  h1 = h1
  h2 = h2
  Conns = {c1, c2}
  Fds = {1, 2}
  NClients = 3
  MaxSend <- SendBounds
  Handlers = {h1, h2}
  Listen = Listen
  None = None
  HandlersBeatReuse = TRUE
  HandlersBeatRecycler = TRUE
SPECIFICATION FairSpec
INVARIANTS TypeOK NoStaleEvent RecycledOnce NobodyForgotten AnswerToSender
CHECK_DEADLOCK FALSE
PROPERTIES EveryClientServed
