\* the same, without the assumption that handlers are faster than reuse
CONSTANTS
  c1 = c1
  c2 = c2
  h1 = h1
  h2 = h2
  Conns = {c1, c2}
  Fds = {1, 2}
  NClients = 3
  MaxSend <- SendBounds
  Handlers = {h1, h2}
  Listen = Listen
  None = None
  HandlersBeatReuse = FALSE
  HandlersBeatRecycler = TRUE
SPECIFICATION Spec
INVARIANT NoStaleEvent
CHECK_DEADLOCK FALSE
