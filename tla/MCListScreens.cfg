SPECIFICATION FairSpec
CONSTANTS
  Handlers = {h1, h2}
  Filters = {f1, f2}
  Idle = idle
  Unread = unread
  MaxLoads = 3
  MaxChanges = 2
  MaxFaults = 1
INVARIANTS
  TypeOK
  ReadYourWrites
  ListMatchesFilter
PROPERTIES
  ScreensSettle
CHECK_DEADLOCK FALSE
