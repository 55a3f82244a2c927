SPECIFICATION FairTimingSpec
CONSTANTS
  Expected = 0
  Threshold = 10
  Backoff = 10
  EtherFailLimit = 6
  ReportLimit = 0
  MaxSide = 0
  Amounts <- MCAmounts
  MaxDrift = 0
  MaxAge = 0
  MaxSinceFail = 10
  MaxEtherDown = 61
PROPERTIES
  LoggedWhenFailingAnHour
