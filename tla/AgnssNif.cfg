SPECIFICATION FairSpec
CONSTANTS
  c1 = c1
  c2 = c2
  c3 = c3
  Subs <- ThreeClients
  Waiting <- NoClients
  ModemSubs <- ThreeClients
  SingleSubscriber = FALSE
  MaxMsgs = 4
INVARIANTS OpenMeansAcquired NoneForgotten
PROPERTIES KeepsPromise EveryoneAnswered
CHECK_DEADLOCK FALSE
