SPECIFICATION FairSpec
CONSTANTS
  NumDevices = 2
  Sources <- MCStrangers
  Garbled = 0
  MaxReadings = 2
  MaxPoints = 2
  MaxCrashes = 1
INVARIANTS
  ReadingsReportedInOrder
PROPERTIES
  LiveNeverGoesBack
  BusIsDrained
  SlotIsSwept
CHECK_DEADLOCK FALSE
