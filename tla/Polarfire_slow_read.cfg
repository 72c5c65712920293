\* Reading an event takes longer than two busy periods.
CONSTANTS
  Busy = 2
  MaxTrigger = 0
  MaxRead = 5
  MaxTriggers = 1
  MaxRuns = 1
  MaxCalls = 4
CHECK_DEADLOCK FALSE
SPECIFICATION Spec
INVARIANT LoopTargetIsLive
