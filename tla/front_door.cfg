CONSTANTS
  Unset = Unset  Empty = Empty  Garbage = Garbage
  Environments <- MCEnvironments
  Blanks = {" "}
  AbsoluteURLs <- MCURLs
  Bodies <- MCBodies
  MaxElements = 3
  Limits = {1, 3}
  TicksPerSecond = 3
  WindowSeconds = 2
  KeyRows <- MCKeyRows
SPECIFICATION FrontDoorSpec
INVARIANTS
  CountIsExact
  RetryAfterIsExact
  AtMostTwoWindows
  ServesSound
  DashboardGuarded
PROPERTIES
  OnlyBatchesAreMetered
