SPECIFICATION Spec
CONSTANTS
  ActivityTimeoutMs = 3
  TimeMod = 16
  MaxTime = 6
  MaxConnects = 2
PROPERTY ClosedOnlyIfSilent
