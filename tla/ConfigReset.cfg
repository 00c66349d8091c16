SPECIFICATION FairSpec
CONSTANTS
  CLK_DIV = 2
  NUM_REGS = 2
  POR_CYCLES = 2
  MaxPresses = 2
INVARIANTS
  QuietAtRest
  DoneMeansConfigured
PROPERTIES
  PayloadHeldWhileBusy
  Settles
