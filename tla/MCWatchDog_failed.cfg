SPECIFICATION Spec
CONSTANTS
  Sec = 2
  Wrap = 64
  WatchdogInterval = 2
  SysReportInterval = 2
  MaxWork = 2
  MaxLate = 0
  Steps <- NoSteps
PROPERTIES
  FailedInstallWaits
