SPECIFICATION FairSpec
CONSTANTS
  FRAMES_PER_BLINK = 30
  SofGap = 3
  MaxUnlocks = 2
  Settles = TRUE
INVARIANTS
  FramesCounted
PROPERTIES
  LedBlinks
