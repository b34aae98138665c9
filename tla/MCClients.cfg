SPECIFICATION ClientsSpec
CONSTANTS
  Tabs = {t1, t2}
  Users = {ann}
  Nobody = nobody
  MaxUnits = 2
  MaxLogins = 2
  MaxFaults = 1
  Screens = {t1, t2}
  Phone = t1
  NoUser = noUser
  Openings = {0, 2}
  MaxTopups = 2
  MaxLosses = 1
INVARIANTS
  ClientsTypeOK
  OrderedOnce
  MoneyKept
PROPERTIES
  UserSettles
CHECK_DEADLOCK FALSE
