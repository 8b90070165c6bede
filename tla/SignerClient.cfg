SPECIFICATION FairSpec
CONSTANTS
  MaxHeight = 2
  SignUnsignedOnly = TRUE
INVARIANTS
  TypeOK
  NothingForgotten
PROPERTIES
  LastBlockSettled
