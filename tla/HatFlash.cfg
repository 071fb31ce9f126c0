SPECIFICATION Spec
CONSTANTS
  Device = {"u2", "u3"}
  Pins <- MCPins
  QTX_SPAN = 22
  BLOCK_PAGES = 1
  NumPages = 2
  Calls <- MCCalls
  Bit = {0}
  MaxTrouble = 1
INVARIANTS TypeOK NoGarble HoldHigh
PROPERTIES OperationsEnd RefinesDevices
