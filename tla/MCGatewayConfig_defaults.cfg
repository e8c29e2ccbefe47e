SPECIFICATION Spec
CONSTANTS
  Null = Null
  Installed <- OneDelay
  Identities = {"id1"}
  Garbage = {"nul"}
INVARIANT UnsaidIsDefault
