SPECIFICATION FairSpec
CONSTANTS
  NUM_OF_SHARDS = 2
  Explorer <- MCOneExplorer
  MaxFailures = 3
INVARIANTS
  OwnShardOnly
  RuleForwardsToWss
PROPERTIES
  StaysComplete
  EventuallyComplete
