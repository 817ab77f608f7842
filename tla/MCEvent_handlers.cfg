SPECIFICATION Spec
CONSTANTS
  g1 = g1
  g2 = g2
  Handlers <- MCHandlers
  Key <- MCKey
  Script <- MCScript
  AlwaysOn <- MCAlwaysOn
  MaxEvents = 2
  MaxNow = 1
  MaxDepth = 3
INVARIANTS
  EventsKept
  NoneSkipped
  FramesInOrder
PROPERTY
  HandledRight
