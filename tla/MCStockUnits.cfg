SPECIFICATION Spec
CONSTANTS
  o1 = o1
  o2 = o2
  apple = apple
  bread = bread
  t1 = t1
  t2 = t2
  Reaper = reaper
  None = none
  Orders = {o1, o2}
  Items = {apple}
  Menu = {apple}
  Threads = {t1, t2}
  Requests <- Quantities
  InitialStock <- TwoEach
  Switched = {apple}
  ReaperBatch = 2
  Prompt = TRUE
  MaxFaults = 1
SYMMETRY ThreadSymmetry
INVARIANTS
  TypeOK
  StockConserved
  TransactionsIsolated
  LockedRowsPending
  AvailabilityFollowsStock
  ConfirmedOrderKeepsStock
PROPERTIES
  RowLifecycle
CHECK_DEADLOCK FALSE
