SPECIFICATION FairSpec
CONSTANTS
  MaxMessages <- MCUplink
  MaxFaults = 2
INVARIANTS
  NothingVanishes
  ConfirmedIsFinal
PROPERTIES
  ImplementsChannel
  EventuallyForwarded
CHECK_DEADLOCK FALSE
