SPECIFICATION Spec
CONSTANTS
  NUM_OF_SHARDS = 1
  Explorer <- MCOneExplorer
  MaxFailures = 1
INVARIANTS
  DefaultIsHttps
