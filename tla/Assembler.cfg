SPECIFICATION Spec
CONSTANTS
  XLEN = 8
  MAX_IMAGE_BYTES = 1048576
  Programs <- MCPrograms
INVARIANTS
  PassesAgree
  NoLineLost
  TargetsReached
  PseudosMean
CHECK_DEADLOCK FALSE
