SPECIFICATION Spec
CONSTANTS
  Chains <- ShortChains
  Modes = {"at"}
  IovMax = 2
  MaxInterrupts = 1
  MayBreak = TRUE
PROPERTY Returns
CHECK_DEADLOCK FALSE
