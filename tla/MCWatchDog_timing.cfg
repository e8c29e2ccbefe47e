SPECIFICATION Spec
CONSTANTS
  Sec = 2
  Wrap = 64
  WatchdogInterval = 3
  SysReportInterval = 3
  MaxWork = 8
  MaxLate = 1
  Steps <- MCSteps
INVARIANTS
  NeverLate
  ReportsInTime
PROPERTIES
  NeverEarly
  ReportsApart
  WatchesForever
