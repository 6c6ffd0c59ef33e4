\* three workers, four messages: more messages than a sleeping pool has
\* threads awake, and a thread left asleep while two others race
CONSTANTS
  w1 = w1
  w2 = w2
  w3 = w3
  Workers = {w1, w2, w3}
  MaxMsgs = 4
  None = None
SPECIFICATION FairSpec
INVARIANTS TakeFindsMessage CountersAgree EveryMessageHasAThread
PROPERTIES DeliverySpec EveryMessageServed StopAllReturnsIfNoneGoesToSleep
