SPECIFICATION Spec
CONSTANTS
  a = a
  b = b
  bad = bad
  Row = {a, b, bad}
  Unencodable = {bad}
  Contents <- TwoOrBad
  MaxHeight = 3
  MaxKey = 6
  MaxReorgs = 1
  Depth = 2
  FinalDepth = 2
  DeepReorgs = FALSE
  StartBlock = 0
  ChunkSize = 2
  WriteFails = TRUE
  ResponseCap = TRUE
  QueryFails = TRUE
INVARIANT NoStoredEventUnseen
INVARIANT CaughtUpMeansDelivered
PROPERTY StoreIsDurablePrefix
