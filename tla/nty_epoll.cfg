\* three clients and room for two events: an event is left for the next
\* wait, one is dropped by the break, the listener reports two at once
CONSTANTS
  a = a
  b = b
  c = c
  Clients = {a, b, c}
  Listener = Listener
  None = None
  Backlog = 1
  MaxEvents = 2
  BufferLen = 2
  MaxData <- DataBounds
SPECIFICATION FairSpec
INVARIANT EveryEdgeReported
PROPERTY EventsAreTold
CHECK_DEADLOCK FALSE
