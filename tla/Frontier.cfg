SPECIFICATION Spec
CONSTANTS
  Identity <- FourEvents
  MaxTime = 2
  Jitter = 1
  Depth = 1
  Unencodable <- LastEvent
  WriteFails = TRUE
INVARIANT StoredOnce
INVARIANT SeenAtBoundary
INVARIANT DeliveredOnce
INVARIANT NothingLost
