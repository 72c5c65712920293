SPECIFICATION MCSpec
CONSTANTS
  Files = {1, 2}
  MinTick = 1
  MaxTick = 3
  PerSecond = 100
  Word64 = 4096
  Byte = 4
  Leftovers <- MCLeftovers
  MaxItems = 3
  MaxPolarfire = 3
INVARIANTS RawInv PolarfireGivesSpills WhiteRabbitSpills
  GroupedTimesFallBack
CHECK_DEADLOCK FALSE
