SPECIFICATION Spec
CONSTANTS
  Writers = {w1, w2}
  MaxIndex = 3
  MaxFileSize = 1
  ObsLimit = 1
  ObsStart = 0
  MaxLines = 6
  MaxEnds = 2
INVARIANTS
  FilesInOrder
  NoFileIsLost
  GrowthIsBounded
PROPERTIES
  DropsOnlyWhenFull
  QueueIsServed
CHECK_DEADLOCK FALSE
