SPECIFICATION FairSpec
CONSTANTS
  Address = {a1}
  Key = {k1}
  NoId = noId
  MaxConns = 2
INVARIANTS
  TypeOK
  EntriesServed
  CountedIsReached
  NewestInUse
PROPERTIES
  WritersServed
  StopEndsAll
