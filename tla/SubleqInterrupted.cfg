SPECIFICATION Spec
CONSTANTS
  W = 5
  MAX_CODE_SIZE = 14
  TABLE = 10
  Keys <- MCKeys
  CTRL_C = 3
  Programs <- MCPrograms
  SignalAt = "any"
  Locals = {"current", "saved"}
PROPERTY OwnResult
CHECK_DEADLOCK FALSE
