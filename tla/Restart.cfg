SPECIFICATION RestartSpec
CONSTANTS
  c1 = c1
  c2 = c2
  Subs <- TwoClients
  Waiting <- NoClients
  ModemSubs <- TwoClients
  SingleSubscriber = FALSE
  MaxMsgs = 4
INVARIANTS NoGhosts
CHECK_DEADLOCK FALSE
