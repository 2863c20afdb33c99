CONSTANTS
  Streams = {s1, s2}
  Lines = 3
  Cap = 2
  None = None
SPECIFICATION Spec
INVARIANTS
  InOrder
  GapNeedsFullChannel
  PanicNeedsAbandonedStream
  SubscriptionsExact
PROPERTY DoneEndsStream
CHECK_DEADLOCK FALSE
