SPECIFICATION FairSpec
CONSTANTS
  c1 = c1
  c2 = c2
  c3 = c3
  r1 = r1
  r2 = r2
  None = None
  Callers <- ThreeCallers
  Inds <- TwoInds
  LOC_SYNC_REQ_BUFFER_SIZE = 2
  MaxCalls = 1
INVARIANTS SlotOwned InUseCovers SleepsUnanswered OneCallPerAnswer
PROPERTIES CallEnds
CHECK_DEADLOCK FALSE
