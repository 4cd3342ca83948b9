SPECIFICATION FairSpec
CONSTANTS
  c1 = c1
  c2 = c2
  Subs <- TwoClients
  Waiting <- TwoClients
  MaxRetries = 4
  Reuse = FALSE
  MaxMsgs = 3
INVARIANTS StateMatchesList
PROPERTIES ReleasingEnds EveryoneAnswered
CHECK_DEADLOCK FALSE
