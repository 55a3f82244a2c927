SPECIFICATION FairSpec
CONSTANTS
  Start = 3
  End = 7
  Chunk = 2
  Retries = 2
  Workers = 2
  Threshold = 2
  Normal = 2
  Gaps = {1, 2, 5}
  Miner <- MCMiner
INVARIANTS
  TimesAreNeighbours
  MinersAgreeWithTimes
  MissingCountsLost
PROPERTIES
  EventuallyReported
CHECK_DEADLOCK FALSE
