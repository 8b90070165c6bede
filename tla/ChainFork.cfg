SPECIFICATION Spec
CONSTANTS
  Thread = {t1, t2}
  Key = {k1}
  Doc = {d1}
  ZeroDoc = zero
  Nobody = nobody
  MaxBlocks = 3
INVARIANTS
  OneBlockPerHeight
