SPECIFICATION FairSpec
CONSTANTS
  Bits = 1
  Chunk = {"a", "b"}
  NoChunk = NoChunk
  Dot = Dot
  Empty = Empty
  Dest = Dest
  Faults = FALSE
  Wide = 1
  Long = 1
  Forms <- MCAllForms
  Scenarios <- MCScenarios
  PageSizes = {1, 2, 3, 10}
INVARIANT NoSpuriousFailure
