SPECIFICATION FairSpec
CONSTANTS
  SleepTicks = 1
  Behind = 4
  Keep = 6
  MaxGap = 2

  
PROPERTIES
  AlwaysAnotherPage
