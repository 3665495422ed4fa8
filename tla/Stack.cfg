SPECIFICATION FairSpec
CONSTANTS
  MaxFailures = 2
  PerSecond = 3
  Window = 4
  MaxRetries = 3
  BaseDelay = 1
  MaxFactor = 2
  MaxDelay = 4
  Lifetimes <- Mixed
INVARIANT RateCap
INVARIANT FreshFailuresOpen
PROPERTY ActionEnds
