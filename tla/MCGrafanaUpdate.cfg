SPECIFICATION FairSpec
CONSTANTS
  Shards <- MCShards
  Services <- MCServices
  Blank = ""
  Listings <- MCListings
  AtFirst <- MCBefore
  ErrorPage = "404"
  MaxMishaps = 2
INVARIANTS
  
  PanelsWellPlaced
PROPERTIES
  NoLostEdit
  EventuallyMonitored
