SPECIFICATION Spec
CONSTANTS
  Null = Null
  Installed <- MCInstalled
  Identities = {"id1", "id2"}
  Garbage = {"nul", "b"}
INVARIANTS
  TypeOK
  RunningAgree
  OneIdentity
  ReloadIsStable
  RunsWhatIsGiven
  ForeignKeysSurvive
PROPERTY
  IdentityIsForever
