SPECIFICATION MCSpec
CONSTANTS
  a = a
  b = b
  bad = bad
  Row = {a, b, bad}
  Unencodable = {bad}
  MaxKey = 3
  WriteFails = TRUE
  Depth = 2
  MaxRows = 2
INVARIANT NothingMatureHeld
PROPERTY StoreGrowsUpward
PROPERTY BuriedBeforeStored
