SPECIFICATION MCSpec
CONSTANTS
  Streams <- MCStreams
  MinWords = 3
  FrameWords = 5
  MaxRuns = 2
  MaxClients = 2
  MaxFrames = 1
  MaxLosses = 1
  WordsPerEvent = 8
  Chunk = 3
  MaxBookings = 2
CHECK_DEADLOCK FALSE
INVARIANT
  FiberTwoOrChargesAreRight
