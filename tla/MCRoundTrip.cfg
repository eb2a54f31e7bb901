SPECIFICATION FairSpec
CONSTANTS
  Bits = 1
  Chunk = {"a", "b"}
  NoChunk = NoChunk
  Dot = Dot
  Empty = Empty
  Dest = Dest
  Faults = TRUE
  Wide = 12
  Long = 12
  Forms <- MCForms
  Scenarios <- MCScenarios
  PageSizes = {1, 2, 3, 10}
INVARIANTS TypeOK EmittedClosed NoDegenerateNode LookupsExact PagesExact RestoreExact ExportErrorSurfaces DestinationRespected NoSpuriousFailure
PROPERTIES RestoreEnds
