CONSTANTS
  NPaths = 2
  MaxCalls = 2
  MaxCaptures = 0
  Calls = {"full", "localWait", "flash", "shared", "leds"}
  Timeouts = {}
  LedOptions <- MCAllRequests
SPECIFICATION Spec
INVARIANT TypeOK
INVARIANT SendReadsWholeTable
INVARIANT CrossbarWhole
INVARIANT CoreSyncHeld
