SPECIFICATION Spec
CONSTANTS
  BootTicks = 2
  MaxServers = 3
  MaxItems = 3
  MaxLines = 2
  MaxAsked = 2
INVARIANTS TypeOK CursorsInRange
PROPERTIES ChatNotInterrupted OneDialogAtATime
CHECK_DEADLOCK FALSE
