SPECIFICATION Spec
CONSTANTS
  meta = meta
  snapshot = snapshot
  Streams <- TwoStreams
  Meta = meta
  Contents <- FlashContents
  HalCmds <- AllCmds
  Mode = "BURST"
  NumBufs <- ZslBufs
  water_mark = 1
  look_back = 0
  post_frame_skip = 0
  max_unmatched_frames = 1
  max_future_frame_offset = 2
  MaxFrame = 4
  MaxCmds = 2
  MaxQueued = 1
INVARIANTS NeverSpins BuffersAccounted WholeInOrder NeverStarved FlashEnds
CHECK_DEADLOCK FALSE
