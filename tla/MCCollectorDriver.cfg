SPECIFICATION FairDriverSpec
CONSTANTS
  c1 = c1
  c2 = c2
  c3 = c3
  Collectors = {c1, c2, c3}
  Zombies = {c3}
  MaxFailures = 3
INVARIANT FatalBeforeRoot
PROPERTY CancelStopsAll
PROPERTY ZombieEscalates
CHECK_DEADLOCK FALSE
