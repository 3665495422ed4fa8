SPECIFICATION FairSpec
CONSTANTS
  x1 = x1
  o1 = o1
  c1 = c1
  NumStrategies = 1
  Executors = {x1}
  Observers = {o1}
  Collectors = {c1}
  Zombies = {}
  MaxFailures = 1
  EventCapacity = 1
  ActionCapacity = 2
  Fanouts = {0, 3}
  MaxEvents = 2
  Followed = {3}
INVARIANT SyncedBeforeEvents
INVARIANT NoLossWithoutLag
INVARIANT EndsOnlyAtShutdown
PROPERTY ShutdownCompletes
PROPERTY ActionsExecuted
CHECK_DEADLOCK FALSE
