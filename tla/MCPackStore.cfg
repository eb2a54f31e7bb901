SPECIFICATION Spec
CONSTANTS
  k1 = k1
  k2 = k2
  w1 = w1
  w2 = w2
  NoKey = NoKey
  Key = {k1, k2}
  Writer = {w1, w2}
  File <- Files
  SegmentSize = 2
  ReopenDirty = FALSE
SYMMETRY Sym
INVARIANTS TypeOK AckedStored OpenNeverCorrupt SealedDurable
PROPERTY WipeErases
