SPECIFICATION Spec
CONSTANTS
  Temps <- MCTemps
  Intervals <- MCIntervals
  Addrs = {"a1", "a2", "a3"}
  Groups <- MCGroups
  Wrap = 10000000
INVARIANTS
  TagsAreTrue
