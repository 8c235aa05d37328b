CONSTANTS
  Requests = {r1, r2, r3, r4}
  Priorities = {0, 9}
  Capacity = 1
  PromoteAfter = 1
  MaxAge = 2
  Watchers = {}
  CounterMod = 1
SPECIFICATION FairSpec
PROPERTIES
  NoStarvation
