SPECIFICATION FairSpec
CONSTANTS
  Node = {"r", "d", "f", "g", "l"}
  RootNode = "r"
  Entries <- MCEntries
  Objs <- MCObjs
  Upto <- MCUpto
  Key = {"k1", "k2", "k3", "k4", "kd", "kr"}
  NoKey = NoKey
  Jobs = 1
  BufSize = 1
  Writer = {w1, w2}
  ChanCap = 1
  BatchSize = 2
  OtherKeys = {"k1"}
  Packs <- MCPacks
  Faults = TRUE
INVARIANTS TypeOK ChildrenFirst PrefixDurable NothingLeftRunning CauseReported StatsExact
PROPERTIES TreeWriteSpec RunEnds
