SPECIFICATION FairSpec
CONSTANTS
  c1 = c1
  c2 = c2
  d1 = d1
  d2 = d2
  None = None
  Clients <- TwoClients
  Deletable <- OneClient
  Delegates <- TwoDelegates
  Delays <- ShortDelays
  MaxTime = 3
  MaxMsgs = 3
INVARIANTS Owned Armed
PROPERTIES EveryTimerEnds
CHECK_DEADLOCK FALSE
