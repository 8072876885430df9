CONSTANTS
  NPaths = 1
  MaxCalls = 2
  MaxCaptures = 0
  Calls = {"full", "localWait", "flash"}
  Timeouts = {"wait25", "wait200", "wait1000", "waitFlash"}
  LedOptions <- MCOneRequest
SPECIFICATION Core0Fair
INVARIANT FlagsRestored
PROPERTY RefreshReturns
