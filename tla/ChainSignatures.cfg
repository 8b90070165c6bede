SPECIFICATION FairSpec
CONSTANTS
  Thread = {t1, t2}
  Key = {k1, k2}
  Doc = {d1}
  ZeroDoc = zero
  Nobody = nobody
  MaxBlocks = 2
INVARIANTS
  OneSignaturePerKey
PROPERTIES
  BlocksAppendOnly
  NotificationsInOrder
  RequestsAnswered
