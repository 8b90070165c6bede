SPECIFICATION FairSpec
CONSTANTS
  k1 = k1
  k2 = k2
  k3 = k3
  Key <- MCKey
  Text <- MCText
  Maker = {k1, nobody}
  Nobody = nobody
INVARIANTS
  TypeOK
PROPERTIES
  AnnouncedByMajority
  AgreementKept
  EventuallyAgreed
