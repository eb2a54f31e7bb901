SPECIFICATION FairSpec
CONSTANTS
  r1 = r1
  leaf = leaf
  s1 = s1
  s2 = s2
  s3 = s3
  Key <- MCKey
  Children <- MCChildren
  Slot = {s1, s2}
  Name = {n1}
  Uploader = {w1}
  SegmentSize = 2
  Reserve = 1
  Lines = {100}
  Faults = FALSE
  NoRoot = NoRoot
  NoKey = NoKey
PROPERTIES
  CycleEnds
  GarbageReclaimed
