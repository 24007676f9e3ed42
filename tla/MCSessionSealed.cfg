SPECIFICATION Spec
CONSTANTS
  general = general
  lair = lair
  Lair = Lair
  k1 = k1
  k2 = k2
  Name <- AnyName
  Room <- RelayName
  Normal <- LowerCase
  General = general
  Key = {k1, k2}
  MaxRequests = 3
  MaxPosts = 2
  NoRoom = NoRoom
  NoKey = NoKey
  Absent = Absent
INVARIANT NoClearText
CHECK_DEADLOCK FALSE
