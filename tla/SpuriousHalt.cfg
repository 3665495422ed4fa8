SPECIFICATION Spec
CONSTANTS
  a = a
  b = b
  bad = bad
  Row = {a, b}
  Unencodable = {}
  Contents <- AtMostOne
  MaxHeight = 3
  MaxKey = 5
  MaxReorgs = 0
  Depth = 1
  FinalDepth = 1
  DeepReorgs = FALSE
  StartBlock = 0
  ChunkSize = 2
  WriteFails = FALSE
  ResponseCap = FALSE
  QueryFails = FALSE
INVARIANT HaltOnlyOnDeepReorg
