SPECIFICATION FairSpec
CONSTANTS
  Address = {a1}
  Key = {k1}
  NoId = noId
  MaxConns = 2
PROPERTY
  StopReturns
