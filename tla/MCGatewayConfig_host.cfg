SPECIFICATION Spec
CONSTANTS
  Null = Null
  Installed <- ShippedOnly
  Identities = {"id1"}
  Garbage = {"nul", " ", "b"}
INVARIANT HostHasNoBlanks
