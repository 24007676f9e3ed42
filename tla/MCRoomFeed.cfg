SPECIFICATION Spec
CONSTANTS
  c1 = c1
  c2 = c2
  c3 = c3
  Client = {c1, c2, c3}
  Room = {general, lair}
  Private = {lair}
  MaxHistory = 1
  MaxSent <- Senders
  Slow = {c3}
  NoRoom = NoRoom
  NoClient = NoClient
INVARIANTS TypeOK HistoryIsRecent NoGap AtMostTwice
PROPERTIES HandlersReturn ImplementsConversation
CHECK_DEADLOCK FALSE
