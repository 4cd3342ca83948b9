SPECIFICATION Spec
CONSTANTS
  d1 = d1
  d2 = d2
  d3 = d3
  d4 = d4
  d5 = d5
  d6 = d6
  None = None
  Data <- SixTimers
  Rank <- Ranks
INVARIANTS CheckTree
PROPERTIES KeepsPromise
