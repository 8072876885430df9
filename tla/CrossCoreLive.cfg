CONSTANTS
  NPaths = 1
  MaxCalls = 2
  MaxCaptures = 1
  Calls = {"full", "local", "flash", "shared"}
  Timeouts = {}
  LedOptions <- MCOneRequest
SPECIFICATION BothFair
PROPERTY PostedIsProgrammed
PROPERTY NetsRequestServed
PROPERTY BypassServed
