SPECIFICATION Spec
CONSTANTS
  Hashes = {"h1", "h2"}
  Composites <- ThreeComposites
  Discarded = {"h2"}
  MAX_FETCH_ATTEMPTS = 2
  max_concurrent_lookups = 1
  MaxFaults = 2
  Trades = {1, 2, 3}
  Allowed = {1, 2}
  Routed = {1}
  Duration = 1
  Capacity = 1
  MaxQueue = 1
INVARIANTS ItemsAccounted CooldownSpacing
PROPERTIES CompositeContract LoopCloses
