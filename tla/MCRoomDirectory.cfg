SPECIFICATION Spec
CONSTANTS
  Client = {c1, c2}
  Setter = {c1, c2}
  Slow = {c2}
  Room = {general, lair}
  Private = {lair}
  Starter = {general}
  General = general
  Topic = {first, second}
  FirstTopic = first
  MaxRequests = 4
  NoClient = NoClient
  NoRoom = NoRoom
  NoList = NoList
INVARIANTS TypeOK OnlyTopicsRace ListCurrent
CHECK_DEADLOCK FALSE
