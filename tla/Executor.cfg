SPECIFICATION FairSpec
CONSTANTS
  MaxFee = 1000000
  MaxReplacements = 2
  MaxTransportFailures = 2
  EscalationPercent = 110
  BumpPercent = 100
  Estimates <- Usual
  GasUsages = {0, 10}
  Bids <- SomeBids
  MaxForeign = 1
  RpcFails = TRUE
  SendTimesOut = TRUE
  LookupFails = TRUE
INVARIANT AtMostOneEffect
INVARIANT OkMeansMined
INVARIANT KnownIsReported
INVARIANT WatchBudget
INVARIANT NeverUnderpriced
PROPERTY ExecuteReturns
CHECK_DEADLOCK FALSE
