SPECIFICATION FairSpec
CONSTANTS
  f1 = f1
  f2 = f2
  Frames <- TwoFrames
  Uses <- AllUses
  MaxPictures = 2
INVARIANTS HeldOnce EncoderReadsHeld
PROPERTIES PictureEnds
CHECK_DEADLOCK FALSE
