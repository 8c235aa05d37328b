CONSTANTS
  Viewers = {v1}
  Writers = {w1, w2}
  OldTokens = 1
  BufferSize = 2
  MaxActors = 2
  MaxEvents = 2
  MaxFailures = 1
  MaxMidnights = 0
SPECIFICATION Spec
INVARIANTS
  NeverShowsZeros
CHECK_DEADLOCK FALSE
