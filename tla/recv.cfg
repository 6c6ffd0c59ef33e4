\* headers of 2 bytes; lengths too short, without a body, with 2 bytes of
\* body, too long; room for a packet of each kind in the stream
CONSTANTS
  HdrLen = 2
  MaxLen = 4
  HeadSize = 3
  Lens = {1, 2, 4, 5}
  StreamLen = 6
  Junk = Junk
  Null = Null
SPECIFICATION Spec
INVARIANTS WritesInBounds IInv
PROPERTY FramingSpec
