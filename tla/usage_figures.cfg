CONSTANTS
  k1 = k1  k2 = k2  k3 = k3  e1 = e1  e2 = e2
  Keys = {k1, k2, k3}
  Events = {e1, e2}
  Owner <- MCOwner
  DayTicks = 2
  WeekDays = 3
  FirstWeekday = 0
  MonthStarts <- MCMonthStarts
  FirstInstant = 24
  LastInstant = 26
  RunsFrom = {24, 25}
  KeyList <- MCKeyList
  Revoked = {k1}
  Budget <- MCBudget
  Opened = {k1, k3}
  History = {17}
  StartClocks = {24}
  MaxReads = 1
SPECIFICATION FiguresSpec
INVARIANTS
  FiguresTypeOK
  NestedFigures
  
  
  BarsFit
  
