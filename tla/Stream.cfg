SPECIFICATION FairSpec
CONSTANTS
  b1 = b1
  b2 = b2
  Bufs <- TwoBufs
  Initial <- OneInitial
  is_bundled = TRUE
  MaxSessions = 2
  None = None
INVARIANTS RefcountIsHolders PolledIffQueued
PROPERTIES FramesArrive ControlEnds
CHECK_DEADLOCK FALSE
