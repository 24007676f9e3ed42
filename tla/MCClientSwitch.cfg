SPECIFICATION Spec
CONSTANTS
  MaxDials = 2
  MaxPackets <- Silent
  PacketQueue = 1
  ErrorQueue = 2
INVARIANT SwitchSurvived
CHECK_DEADLOCK FALSE
