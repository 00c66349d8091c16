SPECIFICATION Spec
CONSTANTS
  FRAMES_PER_BLINK = 30
  SofGap = 3
  MaxUnlocks = 0
  Settles = FALSE
INVARIANTS
  FramesCounted
