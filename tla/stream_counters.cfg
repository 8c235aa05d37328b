CONSTANTS
  Requests = {r1, r2}
  Priorities = {0, 9}
  Capacity = 1
  PromoteAfter = 1
  MaxAge = 2
  Watchers = {v1}
  CounterMod = 4
SPECIFICATION StreamSpec
INVARIANTS
  NoLostCounterRepaint
