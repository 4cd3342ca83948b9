SPECIFICATION Spec
CONSTANTS
  c1 = c1
  c2 = c2
  c3 = c3
  Subs <- ThreeClients
  Waiting <- ThreeClients
  ModemSubs <- NoClients
  SingleSubscriber = TRUE
  MaxMsgs = 4
INVARIANTS NoLeak
CHECK_DEADLOCK FALSE
