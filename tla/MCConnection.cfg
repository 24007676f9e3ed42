SPECIFICATION Spec
CONSTANTS
  QueueSize = 2
  InFlight = 1
INVARIANTS TypeOK NeverPanics ClosedAsOne
PROPERTIES CleansUp FullQueueMoves
CHECK_DEADLOCK FALSE
