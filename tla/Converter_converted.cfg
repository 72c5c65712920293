\* Two files that record four triggers with gaps and jitter, or whose
\* timestamps follow no rule, as configured by default: partial events are
\* dropped, no event limit.
CONSTANTS
  Files = {pf0, pf1}
  NumTriggers = 4
  Spacing = 3
  Jitter = 1
  Unrelated = {0, 1, 2, 3, 15}
  TimestampMax = 15
  MaxDiff = 2
  KeepAll = FALSE
  StartEvent = 1
  EventLimit = 0
  Streams <- AllStreams
SPECIFICATION FairSpec
INVARIANTS
  IInv
  EventHoldsOneTrigger
  NoCompleteTriggerDropped
  LeftoversExplained
  EventsAligned
  PacketsInFileOrder
PROPERTIES
  ImplementsEventBuilding
  ConversionEnds
\* convert returns
CHECK_DEADLOCK FALSE
