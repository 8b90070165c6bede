SPECIFICATION FairSpec
CONSTANTS
  Thread = {t1, t2}
  k1 = k1
  k2 = k2
  Key <- MCKey
  Text <- MCText
INVARIANTS
  TypeOK
  CacheAgrees
  SignersKnown
PROPERTIES
  RevocationTakesEffect
