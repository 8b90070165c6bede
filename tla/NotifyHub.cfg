SPECIFICATION MCSpec
CONSTANTS
  Sender = {s1}
  Id = {i1, i2}
  Conn = {c1, c2}
  NoConn = noconn
  Capacity = 1
  MaxMessages = 3
INVARIANTS
  TypeOK
PROPERTIES
  NothingSkipped
  ForgottenIsClosed
  ConnectedHears
  AnnouncementsEnd
CHECK_DEADLOCK FALSE
