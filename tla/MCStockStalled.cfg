SPECIFICATION Spec
CONSTANTS
  o1 = o1
  o2 = o2
  apple = apple
  bread = bread
  t1 = t1
  t2 = t2
  Reaper = reaper
  None = none
  Orders = {o1, o2}
  Items = {apple}
  Menu = {apple}
  Threads = {t1, t2}
  Requests <- SingleUnits
  InitialStock <- OneEach
  Switched = {}
  ReaperBatch = 2
  Prompt = FALSE
  MaxFaults = 0
SYMMETRY ThreadSymmetry
INVARIANT NoOversell
CHECK_DEADLOCK FALSE
