SPECIFICATION DocSpec
CONSTANTS
  Thread = {t1, t2}
  Key = {k1}
  Doc = {d1, d2}
  Category = {c1}
  NoCategory = noCategory
  ZeroDoc = zero
  Nobody = nobody
  MaxBlocks = 3
SYMMETRY Symmetry
CONSTRAINT NobodySigns
INVARIANTS
  DocIndexSound
  UploadedFileKept
  MetadataSound
  ListedIsStored
  DocCountCovers
