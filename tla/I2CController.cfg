SPECIFICATION Spec
CONSTANTS
  CLK_DIV = 3
  Payloads <- MCPayloads
INVARIANTS
  TypeOK
  p_scl_low_width
  p_sda_stable_while_scl_high
  NoStaleDone
