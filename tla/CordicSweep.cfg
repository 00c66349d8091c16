SPECIFICATION Spec
CONSTANTS
  N = 16
  W = 24
  FZ = 24
  NA = 16
  X0 = 2547003
  Phases <- MCSweep
INVARIANTS
  AngleInReach
  NothingWraps
  MatchesGolden
CHECK_DEADLOCK FALSE
