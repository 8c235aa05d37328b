CONSTANTS
  Requests = {r1, r2, r3}
  Priorities = {0, 9}
  Capacity = 1
  PromoteAfter = 1
  MaxAge = 2
  Watchers = {v1}
  CounterMod = 1
SPECIFICATION FairStreamSpec
INVARIANTS
  StreamTypeOK
  NoLostRepaint
  ThrottleExpires
  StripTellsTheTruth
PROPERTIES
  EventuallyRepainted
