\* Files of one or two events, whole or cut, played in up to two runs.
CONSTANTS
  Files <- MCFiles
  LenBits = 12
  Chunk = 13
  Fraction = 2
  FpgaId = 1
  EventsPerReset = 2
  EventsPerSpill = 2
  DaqMap <- MCDaqMap
  DisplayReset = 2
  DisplayFpga = 1
  DisplayDaqMap <- MCDaqMap
  GainMap <- MCGainMap
  StopSecond = 1
  MaxConfigures = 2
  MaxRuns = 2
  MaxOther = 5
  Cuts = {3}
SPECIFICATION MCSpec
CHECK_DEADLOCK FALSE
INVARIANTS
  HCalInv
  EventsFollowFile
  NumbersTellApart
  ReadoutIsShown
  PlotsAreRecent
PROPERTIES
  DisplayStandsStill
  CutShortOnlyByOverlap
