\* Two runs and a reset, to see what is left of them.
CONSTANTS
  Busy = 3
  MaxTrigger = 1
  MaxRead = 4
  MaxTriggers = 2
  MaxRuns = 2
  MaxCalls = 7
CHECK_DEADLOCK FALSE
SPECIFICATION Spec
INVARIANT ResetOrStartIsClean
