SPECIFICATION ReportSpec
CONSTANTS
  Addr = {1, 2}
  MaxBalance = 1
  Lag = 2
INVARIANTS
  EarningsAreExact
  EveryNodeIsReported
  
  UnreachedIsNewlyAdded
  OfflineIsJustified
