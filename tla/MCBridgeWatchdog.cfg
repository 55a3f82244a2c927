SPECIFICATION FairTimingSpec
CONSTANTS
  Expected = 2
  Threshold = 0
  Backoff = 10
  EtherFailLimit = 6
  ReportLimit = 0
  MaxSide = 2
  Amounts <- MCAmounts
  MaxDrift = 3
  MaxAge = 11
  MaxSinceFail = 10
  MaxEtherDown = 61
INVARIANTS
  TypeOK
  MeasurementErrorBounded
  SilencedOnlyIfTold
  AlarmInTime
  DowntimeWithinOutage
PROPERTIES
  BackoffKept
  AlarmIsPatient
  ImplementsAlert
  EventuallyAgrees
