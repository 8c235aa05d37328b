CONSTANTS
  Viewers = {v1, v2}
  Writers = {w1, w2}
  OldTokens = 0
  BufferSize = 2
  MaxActors = 2
  MaxEvents = 2
  MaxFailures = 1
  MaxMidnights = 0
SPECIFICATION Spec
INVARIANTS
  RunsUntilLastLeaves
CHECK_DEADLOCK FALSE
