SPECIFICATION Spec
CONSTANTS
  r1 = r1
  leaf = leaf
  s1 = s1
  s2 = s2
  s3 = s3
  Key <- MCKey
  Children <- MCChildren
  Slot <- MCSlot
  Name = {n1}
  Uploader = {w1, w2}
  SegmentSize = 2
  Reserve = 1
  Lines = {50}
  Faults = TRUE
  NoRoot = NoRoot
  NoKey = NoKey
SYMMETRY Symmetry
INVARIANTS
  TypeOK
  NoDanglingRef
  MarkNeverMissing
  BarrierKeepsWrites
PROPERTIES
  LiveSpec
