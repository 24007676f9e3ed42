SPECIFICATION Spec
CONSTANTS
  MaxDials = 2
  MaxPackets <- TwoThenOne
  PacketQueue = 1
  ErrorQueue = 1
INVARIANTS TypeOK NothingLost WaitersCounted
PROPERTIES ImplementsDelivery LossNoticed ReadIsHandled
CHECK_DEADLOCK FALSE
