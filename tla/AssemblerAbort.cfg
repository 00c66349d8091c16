SPECIFICATION Spec
CONSTANTS
  XLEN = 8
  MAX_IMAGE_BYTES = 1048576
  Programs <- MCPrograms
INVARIANTS
  ErrorsAreReported
CHECK_DEADLOCK FALSE
