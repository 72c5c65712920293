\* Two runs, with failures and resets, the threads fair. The process ends with
\* DoTerminate.
CONSTANTS
  Busy = 3
  MaxTrigger = 1
  MaxRead = 4
  MaxTriggers = 4
  MaxRuns = 2
  MaxCalls = 9
CHECK_DEADLOCK FALSE
SPECIFICATION FairSpec
INVARIANTS
  PolarfireInv
  StoppedIsComplete
  CopiesGrow
  LeftByThrows
PROPERTY StopEnds
