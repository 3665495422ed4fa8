SPECIFICATION BoundarySpec
CONSTANTS
  a = a
  b = b
  Row = {a, b}
  Unencodable = {}
  Contents <- AtMostOne
  MaxHeight = 3
  MaxKey = 5
  MaxReorgs = 1
  Depth = 1
  FinalDepth = 1
  DeepReorgs = TRUE
  StartBlock = 0
  ChunkSize = 2
  WriteFails = FALSE
  ResponseCap = TRUE
  QueryFails = TRUE
INVARIANT HealthyMeansCanonical
INVARIANT HaltHasCause
PROPERTY OverlapDeliveredOnce
PROPERTY BuriedEventuallyStored
