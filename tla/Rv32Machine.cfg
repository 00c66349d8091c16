SPECIFICATION FairSpec
CONSTANTS
  XLEN = 8
  NREGS = 4
  RAM_BYTES = 48
  DEVICE_BASE = 128
  U_SHIFT = 3
  HART_COUNT = 2
  Decoded <- MCDecoded
  DeviceAnswers <- MCAnswers
  Setups <- MCSetups
INVARIANTS
  TypeOK
  RegistersFollowTrace
  PcFollowsTrace
  MemoryFollowsTrace
  DeviceCallsTraced
  HaltRowIsLast
  BudgetIsExact
  ResultsAsDefined
PROPERTIES
  ScheduleIndependent
  RunReturns
CHECK_DEADLOCK FALSE
