SPECIFICATION FairSpec
CONSTANTS
  CLK_DIV = 3
  NUM_REGS = 13
  POR_CYCLES = 3
  MaxPresses = 0
INVARIANTS
  BothEndsAgree
  OneDriverOnSda
  ErrorExactlyOnNack
PROPERTIES
  ImplementsSequence
