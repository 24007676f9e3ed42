SPECIFICATION Spec
CONSTANTS
  c1 = c1
  c2 = c2
  general = general
  lair = lair
  den = den
  Client <- MCClient
  Nick <- MCNick
  Lower <- MCLower
  Room <- MCRoom
  Starter = {general}
  General = general
  Password = {"key"}
  ServerPassword = "key"
  NoClient = NoClient
  NoNick = NoNick
  NoRoom = NoRoom
  NoPassword = NoPassword
  NoList = NoList
SYMMETRY Interchangeable
INVARIANT NickMapCleaned
CHECK_DEADLOCK FALSE
