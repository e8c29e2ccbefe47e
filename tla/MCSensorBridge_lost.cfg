SPECIFICATION Spec
CONSTANTS
  NumDevices = 1
  Sources = {1}
  Garbled = 0
  MaxReadings = 3
  MaxPoints = 3
  MaxCrashes = 0
INVARIANT EmptySlotMeansNotSet
CHECK_DEADLOCK FALSE
