CONSTANTS
  Requests = {r1, r2, r3, r4, r5}
  Priorities = {0, 5, 9}
  Capacity = 2
  PromoteAfter = 1
  MaxAge = 2
  Watchers = {}
  CounterMod = 1
SPECIFICATION OrderSpec
SYMMETRY Symmetry
INVARIANTS
  TypeOK
  SlotConservation
  NoBarging
  WaitersLinked
  OneExtraAdmission
  AgedDrain
PROPERTIES
  GrantsInOrder
  ImplementsPool
