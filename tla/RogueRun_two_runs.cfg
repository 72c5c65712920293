\* Up to two runs with one client, or one with the two that a reset leaves,
\* the threads fair.
CONSTANTS
  MaxClients = 2
  MaxRuns = 2
  MaxCalls = 5
  MaxFrames = 2
  Emulate = TRUE
  ResetsCounters = TRUE
SPECIFICATION MCFairSpec
INVARIANTS
  RunInv
  NoLaterRunInFile
  FramesInOrder
PROPERTY EveryFrameSent
