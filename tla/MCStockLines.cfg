SPECIFICATION FairSpec
CONSTANTS
  o1 = o1
  o2 = o2
  apple = apple
  bread = bread
  t1 = t1
  t2 = t2
  Reaper = reaper
  None = none
  Orders = {o1, o2}
  Items = {apple, bread}
  Menu = {apple, bread}
  Threads = {t1}
  Requests <- SingleUnits
  InitialStock <- TwoEach
  Switched = {}
  ReaperBatch = 2
  Prompt = TRUE
  MaxFaults = 0
PROPERTIES
  ReservationsSettle
  RequestsAnswered
  ImplementsInventory
CHECK_DEADLOCK FALSE
