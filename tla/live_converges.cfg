CONSTANTS
  Viewers = {v1}
  Writers = {w1, w2}
  OldTokens = 0
  BufferSize = 1
  MaxActors = 1
  MaxEvents = 3
  MaxFailures = 1
  MaxMidnights = 1
SPECIFICATION FairSpec
INVARIANTS
  ExcessBounded
PROPERTIES
  ShownConverges
  RetiredActorsEnd
CHECK_DEADLOCK FALSE
