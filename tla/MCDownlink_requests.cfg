SPECIFICATION FairSpec
CONSTANTS
  NumRelays = 2
  Installed <- MCInstalled
  Commands <- MCAll
  MaxRequests = 2
  MaxFaults = 2
INVARIANTS
  RelaysAgree
  SensorSeesRelays
  SuccessIsSaved
  ReportsInOrder
PROPERTIES
  EventuallyAnswered
CHECK_DEADLOCK FALSE
