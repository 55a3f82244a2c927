SPECIFICATION Spec
CONSTANTS
  Run = {u1, u2}
  HourTicks = 3
  DayHours = 3
  QuadHours = 2
  Lines = 2
  MaxTime = 11
  MaxMissed = 1
SYMMETRY RunSymmetry
CHECK_DEADLOCK FALSE
INVARIANTS
  IntervalUpToDays
  ReportsAreComplete
  PartialOnlyWhileScanning
  NoDoubleCapture
