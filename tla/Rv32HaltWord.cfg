SPECIFICATION FairSpec
CONSTANTS
  XLEN = 8
  NREGS = 4
  RAM_BYTES = 48
  DEVICE_BASE = 128
  U_SHIFT = 3
  HART_COUNT = 1
  Decoded <- MCDecoded
  DeviceAnswers <- MCNoDevice
  Setups <- MCDeviceSetups
INVARIANTS
  InstWordWhenFetched
CHECK_DEADLOCK FALSE
