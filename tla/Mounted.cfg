CONSTANTS
  Names <- MCNames
  OtherOptions <- Others
  I64Max = 7
  U32Max = 3
  Handles <- TwoHandles
  MaxDepth = 3
  MaxIno = 5
  MaxSize = 4
  Contents <- MCContents
  Sizes <- MCSizes
  Scenarios <- MCScenarios
  h1 = h1
  h2 = h2
SYMMETRY AnyHandle
SPECIFICATION Spec
INVARIANTS
  TypeOK
  EntriesMatchNodes
  HandlesArrive
  ListingExact
  TablesHaveHandles
  StreamsAgree
PROPERTIES
  DeletesOwnFile
  MovesKeepFiles
  ContentsFollow
CHECK_DEADLOCK FALSE
