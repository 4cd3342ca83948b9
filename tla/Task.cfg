SPECIFICATION TaskFairSpec
CONSTANTS
  m1 = m1
  m2 = m2
  m3 = m3
  m4 = m4
  Msgs <- FourMsgs
INVARIANTS DelegateShared DetachedIsDeleted
PROPERTIES DestroyEnds
CHECK_DEADLOCK FALSE
