SPECIFICATION Spec
CONSTANTS
  neo = neo
  trinity = trinity
  generated = generated
  Nick = {neo, trinity, generated}
  Placeholder = {generated}
  Fresh = generated
  Size <- Length
  MaxStarts = 2
  MaxRequests = 3
  NoNick = NoNick
  NoId = NoId
  Absent = Absent
  Empty = Empty
  Corrupt = Corrupt
INVARIANTS TypeOK CallsignAgrees IdentitySurvives
CHECK_DEADLOCK FALSE
