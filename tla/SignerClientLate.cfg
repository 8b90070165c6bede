SPECIFICATION FairSpec
CONSTANTS
  MaxHeight = 2
  SignUnsignedOnly = TRUE
PROPERTIES
  PendingBlocksSigned
