SPECIFICATION FairRequestQueueSpec
CONSTANTS
  MaxFaults = 4
  MaxRequests = 2
INVARIANTS
  InitDoneMeansServing
  NeverDeaf
  HandledInOrder
  RequestsAccounted
  OnlyALateConnectDangles
PROPERTIES
  OnlyAStaleNullDiscards
  RequestsAreServed
  FinallyLossless
