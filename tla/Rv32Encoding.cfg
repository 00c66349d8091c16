SPECIFICATION Codec
CONSTANTS
  Regs = {10, 21, 32}
  Imms <- MCImms
INVARIANTS
  RoundTrips
  RefusedIffLost
  DecodesTheTable
CHECK_DEADLOCK FALSE
